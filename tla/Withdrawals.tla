---------------------------- MODULE Withdrawals ----------------------------
(***************************************************************************)
(* A seller's money on its way out: WithdrawalsService over the ledger.    *)
(* A request reserves an amount (WITHDRAWAL_HOLD), an admin approves,      *)
(* rejects or marks it paid, and in gateway mode the provider transfers    *)
(* it.  Admins, sellers and provider callbacks act at the same time; an    *)
(* action is what happens between two awaits that another could observe.   *)
(*                                                                         *)
(* A balance is kept as the sum of its entries: what is on hold, what has  *)
(* matured but was not released yet, and what is available.  A request the *)
(* seller is not entitled to changes nothing and is left out.              *)
(***************************************************************************)
EXTENDS Integers, FiniteSets

CONSTANTS
    Vendor,
    Withdrawal,         \* rows of the Withdrawal table
    Owner,              \* the vendor of each of them
    Handler,            \* HTTP requests served at the same time
    None,
    PayoutModes,        \* what finance.payout_mode may be when it is read
    SupportsPayouts,    \* gateway.supportsPayouts
    TransferResults,    \* what gateway.createTransfer may answer
    MinWithdrawal,      \* finance.min_withdrawal_cents
    WithdrawalsPerWeek, \* of the vendor's plan
    MaxEarned,          \* bound: cents a vendor is credited
    MaxTaken,           \* bound: cents refunded from, or corrected off, a balance
    MaxFaults           \* bound: crashes and errors

ASSUME WithdrawalsAssumption ==
    /\ Owner \in [Withdrawal -> Vendor]
    /\ None \notin Withdrawal
    /\ PayoutModes \subseteq {"manual", "gateway"}
    /\ SupportsPayouts \in BOOLEAN
    /\ TransferResults \subseteq {"paid", "pending", "failed"}
    /\ MinWithdrawal \in Nat
    /\ WithdrawalsPerWeek \in Nat
    /\ MaxEarned \in Nat
    /\ MaxTaken \in Nat
    /\ MaxFaults \in Nat

VARIABLES
    status,     \* Withdrawal.status, "NONE" before the row exists
    amount,     \* Withdrawal.amountCents
    released,   \* WITHDRAWAL_RELEASE entries of the withdrawal
    reference,  \* Withdrawal.gatewayTransferId
    recent,     \* whether it was requested less than WEEK_MS ago
    transfer,   \* the provider's transfer for the withdrawal
    calls,      \* transfers the provider accepted for the withdrawal
    notified,   \* withdrawals whose transfer webhook was processed
    recipient,  \* vendors with a gatewayRecipientId
    pending,    \* cents on hold, per vendor
    ripe,       \* cents whose hold has passed, not released yet
    available,  \* cents in AVAILABLE entries, holds deducted
    earned,     \* cents credited so far
    taken,      \* cents debited from the available balance so far
    task,       \* what each request is doing
    faults

rowVars == <<status, amount, released, reference, recent>>
providerVars == <<transfer, calls, notified, recipient>>
balanceVars == <<pending, ripe, available, earned, taken>>
vars == <<rowVars, providerVars, balanceVars, task, faults>>

Status == {"NONE", "REQUESTED", "APPROVED", "PAID", "REJECTED", "FAILED"}
OPEN_STATUSES == {"REQUESTED", "APPROVED"}
CountedOpenOnly == {"REQUESTED", "APPROVED"}       \* mutant: a paid one no longer counts
COUNTED_STATUSES == {"REQUESTED", "APPROVED", "PAID"}
Returned == {"REJECTED", "FAILED"}

Pc == {"idle", "hold", "checkApprove", "checkPay", "recipient", "approve",
       "claim", "transfer", "record", "fail", "pay"}
Task == [pc : Pc, w : Withdrawal \union {None}, cents : Nat,
         result : TransferResults \union {"none"}]
Idle == [pc |-> "idle", w |-> None, cents |-> 0, result |-> "none"]

TypeOK ==
    /\ status \in [Withdrawal -> Status]
    /\ amount \in [Withdrawal -> Nat]
    /\ released \in [Withdrawal -> Nat]
    /\ reference \in [Withdrawal -> {"none", "manual", "transfer"}]
    /\ recent \in [Withdrawal -> BOOLEAN]
    /\ transfer \in [Withdrawal -> {"none", "pending", "paid", "failed"}]
    /\ calls \in [Withdrawal -> Nat]
    /\ notified \subseteq Withdrawal
    /\ recipient \subseteq Vendor
    /\ pending \in [Vendor -> Nat]
    /\ ripe \in [Vendor -> Nat]
    /\ available \in [Vendor -> Int]
    /\ earned \in [Vendor -> Nat]
    /\ taken \in [Vendor -> Nat]
    /\ task \in [Handler -> Task]
    /\ faults \in 0..MaxFaults

Init ==
    /\ status = [w \in Withdrawal |-> "NONE"]
    /\ amount = [w \in Withdrawal |-> 0]
    /\ released = [w \in Withdrawal |-> 0]
    /\ reference = [w \in Withdrawal |-> "none"]
    /\ recent = [w \in Withdrawal |-> FALSE]
    /\ transfer = [w \in Withdrawal |-> "none"]
    /\ calls = [w \in Withdrawal |-> 0]
    /\ notified = {}
    /\ recipient = {}
    /\ pending = [v \in Vendor |-> 0]
    /\ ripe = [v \in Vendor |-> 0]
    /\ available = [v \in Vendor |-> 0]
    /\ earned = [v \in Vendor |-> 0]
    /\ taken = [v \in Vendor |-> 0]
    /\ task = [h \in Handler |-> Idle]
    /\ faults = 0

-----------------------------------------------------------------------------

Goto(h, t) == task' = [task EXCEPT ![h] = t]
Done(h) == Goto(h, Idle)
IsIdle(h) == task[h] = Idle
At(h, pc) == task[h].pc = pc

\* releaseMatured for one vendor, as getBalance calls it before it sums up.
Release(v) ==
    /\ available' = [available EXCEPT ![v] = @ + ripe[v]]
    /\ ripe' = [ripe EXCEPT ![v] = 0]
    /\ UNCHANGED <<pending, earned, taken>>

\* mutant: an update by id alone.
MovesFromAny(w, from) == TRUE
\* transition: a single conditional update.
MovesFrom(w, from) == status[w] \in from

SetStatus(w, s) == status' = [status EXCEPT ![w] = s]

\* Moves the withdrawal and gives its hold back, in one transaction, once.
GiveBack(w, s) ==
    /\ SetStatus(w, s)
    /\ released' = [released EXCEPT ![w] = IF @ = 0 THEN 1 ELSE @]
    /\ available' = [available EXCEPT ![Owner[w]] =
                        @ + (IF released[w] = 0 THEN amount[w] ELSE 0)]
    /\ UNCHANGED <<amount, reference, recent, pending, ripe, earned, taken>>

\* markFailed: only an APPROVED withdrawal fails, whoever reports it.
MarkFailed(w) ==
    IF status[w] = "APPROVED" THEN GiveBack(w, "FAILED")
    ELSE UNCHANGED <<rowVars, balanceVars>>

-----------------------------------------------------------------------------
(* The seller's request: one transaction that locks the vendor's row.      *)

NeverLocked(v) == FALSE                            \* mutant: no FOR UPDATE
Locked(v) == \E h \in Handler : At(h, "hold") /\ Owner[task[h].w] = v

Of(v) == {w \in Withdrawal : Owner[w] = v}
OpenOf(v) == {w \in Of(v) : status[w] \in OPEN_STATUSES}
CountedThisWeek(v) == {w \in Of(v) : recent[w] /\ status[w] \in COUNTED_STATUSES}

\* evaluateWithdrawal, for an entitled vendor.
MayWithdraw(v, cents, balance) ==
    /\ OpenOf(v) = {}
    /\ Cardinality(CountedThisWeek(v)) < WithdrawalsPerWeek
    /\ cents > 0
    /\ cents <= balance
    /\ cents >= MinWithdrawal

\* Locks the vendor, collects the rule input and evaluates it.
Request(h, w) ==
    LET v == Owner[w]
        balance == available[v] + ripe[v]
    IN  /\ IsIdle(h)
        /\ status[w] = "NONE" /\ \A g \in Handler : task[g].w # w
        /\ ~Locked(v)
        /\ \E asked \in 1..(MaxEarned + 1) \union {None} :
              LET cents == IF asked = None THEN balance ELSE asked
              IN  /\ MayWithdraw(v, cents, balance)
                  /\ Goto(h, [Idle EXCEPT !.pc = "hold", !.w = w, !.cents = cents])
        /\ Release(v)
        /\ UNCHANGED <<rowVars, providerVars, faults>>

\* Writes the request and its hold, and commits.
PlaceHold(h) ==
    LET w == task[h].w
    IN  /\ At(h, "hold")
        /\ SetStatus(w, "REQUESTED")
        /\ amount' = [amount EXCEPT ![w] = task[h].cents]
        /\ recent' = [recent EXCEPT ![w] = TRUE]
        /\ available' = [available EXCEPT ![Owner[w]] = @ - task[h].cents]
        /\ Done(h)
        /\ UNCHANGED <<released, reference, pending, ripe, earned, taken,
                       providerVars, faults>>

-----------------------------------------------------------------------------
(* The admin.                                                              *)

ReadForApproval(h, w) ==
    /\ IsIdle(h)
    /\ status[w] = "REQUESTED"
    /\ Goto(h, [Idle EXCEPT !.pc = "checkApprove", !.w = w])
    /\ UNCHANGED <<rowVars, providerVars, balanceVars, faults>>

\* markPaid checks the balance only of a withdrawal nobody has approved.
ReadForPayment(h, w) ==
    /\ IsIdle(h)
    /\ \/ /\ status[w] = "REQUESTED"
          /\ Goto(h, [Idle EXCEPT !.pc = "checkPay", !.w = w])
       \/ /\ status[w] = "APPROVED"
          /\ Goto(h, [Idle EXCEPT !.pc = "pay", !.w = w])
    /\ UNCHANGED <<rowVars, providerVars, balanceVars, faults>>

\* Where an approval goes on, by the payout mode read after the balance.
AfterCheck(h, mode) ==
    CASE mode = "manual" -> "approve"
      [] mode = "gateway" /\ ~SupportsPayouts -> "idle"
      [] OTHER -> IF Owner[task[h].w] \in recipient THEN "claim" ELSE "recipient"

\* assertBalanceNotNegative; a refused request is over.
CheckBalance(h) ==
    LET v == Owner[task[h].w]
        goOn(pc) == IF pc = "idle" THEN Done(h) ELSE Goto(h, [task[h] EXCEPT !.pc = pc])
    IN  /\ At(h, "checkApprove") \/ At(h, "checkPay")
        /\ Release(v)
        /\ IF available[v] + ripe[v] < 0 THEN Done(h)
           ELSE IF At(h, "checkPay") THEN goOn("pay")
           ELSE \E mode \in PayoutModes : goOn(AfterCheck(h, mode))
        /\ UNCHANGED <<rowVars, providerVars, faults>>

ApproveManual(h) ==
    LET w == task[h].w
    IN  /\ At(h, "approve")
        /\ IF MovesFrom(w, {"REQUESTED"}) THEN SetStatus(w, "APPROVED") ELSE UNCHANGED status
        /\ Done(h)
        /\ UNCHANGED <<amount, released, reference, recent, providerVars, balanceVars, faults>>

\* createRecipient, and the vendor's gatewayRecipientId.
StoreRecipient(h) ==
    /\ At(h, "recipient")
    /\ recipient' = recipient \union {Owner[task[h].w]}
    /\ Goto(h, [task[h] EXCEPT !.pc = "claim"])
    /\ UNCHANGED <<transfer, calls, notified, rowVars, balanceVars, faults>>

\* The claim before the gateway is called.
ClaimTransfer(h) ==
    LET w == task[h].w
    IN  /\ At(h, "claim")
        /\ IF MovesFrom(w, {"REQUESTED"})
           THEN SetStatus(w, "APPROVED") /\ Goto(h, [task[h] EXCEPT !.pc = "transfer"])
           ELSE Done(h) /\ UNCHANGED status
        /\ UNCHANGED <<amount, released, reference, recent, providerVars, balanceVars, faults>>

\* createTransfer answers: the provider has the transfer, no row knows its id yet.
TransferAnswers(h) ==
    LET w == task[h].w
    IN  /\ At(h, "transfer")
        /\ \E r \in TransferResults :
              /\ transfer' = [transfer EXCEPT ![w] = r]
              /\ Goto(h, [task[h] EXCEPT !.pc = "record", !.result = r])
        /\ calls' = [calls EXCEPT ![w] = @ + 1]
        /\ UNCHANGED <<notified, recipient, rowVars, balanceVars, faults>>

\* createTransfer throws and no money left.
TransferThrows(h) ==
    /\ At(h, "transfer")
    /\ Goto(h, [task[h] EXCEPT !.pc = "fail"])
    /\ UNCHANGED <<rowVars, providerVars, balanceVars, faults>>

NotPaidFails(r) == r # "paid"                      \* mutant: a pending transfer is a failed one
ReportsFailure(r) == r = "failed"

\* Stores the transfer's id, whatever the status has become meanwhile.
RecordTransfer(h) ==
    LET w == task[h].w
        r == task[h].result
    IN  /\ At(h, "record")
        /\ reference' = [reference EXCEPT ![w] = "transfer"]
        /\ status' = IF r = "paid" THEN [status EXCEPT ![w] = "PAID"] ELSE status
        /\ IF ReportsFailure(r) THEN Goto(h, [task[h] EXCEPT !.pc = "fail"]) ELSE Done(h)
        /\ UNCHANGED <<amount, released, recent, providerVars, balanceVars, faults>>

FailTransfer(h) ==
    /\ At(h, "fail")
    /\ MarkFailed(task[h].w)
    /\ Done(h)
    /\ UNCHANGED <<providerVars, faults>>

\* The admin sent the money outside the platform and records it.
MarkPaid(h) ==
    LET w == task[h].w
    IN  /\ At(h, "pay")
        /\ IF MovesFrom(w, OPEN_STATUSES)
           THEN /\ SetStatus(w, "PAID")
                /\ reference' = [reference EXCEPT ![w] = "manual"]
           ELSE UNCHANGED <<status, reference>>
        /\ Done(h)
        /\ UNCHANGED <<amount, released, recent, providerVars, balanceVars, faults>>

\* reject: the read, the conditional update and the release are one transaction.
Reject(w) ==
    /\ status[w] = "REQUESTED"
    /\ GiveBack(w, "REJECTED")
    /\ UNCHANGED <<providerVars, task, faults>>

-----------------------------------------------------------------------------
(* The provider.                                                           *)

ProviderSettles(w) ==
    /\ transfer[w] = "pending"
    /\ \E r \in {"paid", "failed"} : transfer' = [transfer EXCEPT ![w] = r]
    /\ UNCHANGED <<calls, notified, recipient, rowVars, balanceVars, task, faults>>

\* transfer.paid or transfer.failed, stored once; a transfer no row names is unknown.
TransferWebhook(w) ==
    /\ transfer[w] \in {"paid", "failed"}
    /\ w \notin notified
    /\ notified' = notified \union {w}
    /\ IF reference[w] # "transfer" THEN UNCHANGED <<rowVars, balanceVars>>
       ELSE \/ transfer[w] = "failed" /\ MarkFailed(w)
            \/ /\ transfer[w] = "paid"
               /\ IF status[w] = "APPROVED" THEN SetStatus(w, "PAID") ELSE UNCHANGED status
               /\ UNCHANGED <<amount, released, reference, recent, balanceVars>>
    /\ UNCHANGED <<transfer, calls, recipient, task, faults>>

-----------------------------------------------------------------------------
(* The rest of the ledger, time, and faults.                               *)

ReleaseMatured ==
    /\ available' = [v \in Vendor |-> available[v] + ripe[v]]
    /\ ripe' = [v \in Vendor |-> 0]
    /\ UNCHANGED <<pending, earned, taken, rowVars, providerVars, task, faults>>

\* A sale is credited on hold, or at once when there is no hold or by a correction.
Credit(v) ==
    /\ earned[v] < MaxEarned
    /\ earned' = [earned EXCEPT ![v] = @ + 1]
    /\ \/ pending' = [pending EXCEPT ![v] = @ + 1] /\ UNCHANGED available
       \/ available' = [available EXCEPT ![v] = @ + 1] /\ UNCHANGED pending
    /\ UNCHANGED <<ripe, taken, rowVars, providerVars, task, faults>>

Mature(v) ==
    /\ pending[v] > 0
    /\ pending' = [pending EXCEPT ![v] = @ - 1]
    /\ ripe' = [ripe EXCEPT ![v] = @ + 1]
    /\ UNCHANGED <<available, earned, taken, rowVars, providerVars, task, faults>>

\* mutant: a credit that was reversed already is reversed again.
RefundOnHoldAgain(v) ==
    /\ pending' = [pending EXCEPT ![v] = @ - 1]
    /\ UNCHANGED <<ripe, available, earned, taken, rowVars, providerVars, task, faults>>

\* A refund of a sale that is on hold nets to zero with it.
RefundOnHold(v) ==
    /\ \/ pending[v] > 0 /\ pending' = [pending EXCEPT ![v] = @ - 1] /\ UNCHANGED ripe
       \/ ripe[v] > 0 /\ ripe' = [ripe EXCEPT ![v] = @ - 1] /\ UNCHANGED pending
    /\ UNCHANGED <<available, earned, taken, rowVars, providerVars, task, faults>>

\* A refund or chargeback of a released sale, or a negative adjustment.
Debit(v) ==
    /\ taken[v] < MaxTaken
    /\ taken' = [taken EXCEPT ![v] = @ + 1]
    /\ available' = [available EXCEPT ![v] = @ - 1]
    /\ UNCHANGED <<pending, ripe, earned, rowVars, providerVars, task, faults>>

WeekPasses(w) ==
    /\ recent[w]
    /\ recent' = [recent EXCEPT ![w] = FALSE]
    /\ UNCHANGED <<status, amount, released, reference, providerVars, balanceVars, task, faults>>

\* A database error ends one request; an open transaction is rolled back.
TaskFails(h) ==
    /\ ~IsIdle(h)
    /\ faults < MaxFaults
    /\ faults' = faults + 1
    /\ Done(h)
    /\ UNCHANGED <<rowVars, providerVars, balanceVars>>

Crash ==
    /\ faults < MaxFaults
    /\ faults' = faults + 1
    /\ task' = [h \in Handler |-> Idle]
    /\ UNCHANGED <<rowVars, providerVars, balanceVars>>

-----------------------------------------------------------------------------

Step(h) ==
    \/ PlaceHold(h) \/ CheckBalance(h) \/ ApproveManual(h) \/ StoreRecipient(h)
    \/ ClaimTransfer(h) \/ TransferAnswers(h) \/ TransferThrows(h)
    \/ RecordTransfer(h) \/ FailTransfer(h) \/ MarkPaid(h)

Next ==
    \/ \E h \in Handler : Step(h) \/ TaskFails(h)
    \/ \E h \in Handler, w \in Withdrawal :
          Request(h, w) \/ ReadForApproval(h, w) \/ ReadForPayment(h, w)
    \/ \E w \in Withdrawal :
          Reject(w) \/ ProviderSettles(w) \/ TransferWebhook(w) \/ WeekPasses(w)
    \/ \E v \in Vendor : Credit(v) \/ Mature(v) \/ RefundOnHold(v) \/ Debit(v)
    \/ ReleaseMatured
    \/ Crash

Spec == Init /\ [][Next]_vars

-----------------------------------------------------------------------------
(* Safety.                                                                 *)

\* README, manual payouts: whatever two admins, a double click and the provider do
\* at once, a hold is given back once, and exactly when the withdrawal was rejected
\* or failed, so a withdrawal is never both paid and released.
HoldReturnedOnce ==
    \A w \in Withdrawal : released[w] = IF status[w] \in Returned THEN 1 ELSE 0

\* The lock on the vendor row: two requests at once cannot both reserve.
OneOpenWithdrawal == \A v \in Vendor : Cardinality(OpenOf(v)) <= 1

\* The plan's limit holds over any week, paid withdrawals included.
WithinWeeklyLimit ==
    \A v \in Vendor :
        Cardinality({w \in Of(v) : recent[w] /\ status[w] \notin {"NONE"} \union Returned})
            <= WithdrawalsPerWeek

\* Withdrawals never overdraw a balance: it is negative only by what refunds and
\* corrections took after the money was reserved.
OverdrawnOnlyByRefunds == \A v \in Vendor : available[v] + taken[v] >= 0

\* approve claims the withdrawal before it calls the gateway: a second click, a second
\* admin or a crash in the middle never starts a second transfer.
TransferredOnce == \A w \in Withdrawal : calls[w] <= 1

\* A hold is not given back for a transfer that went through or still may.
ReturnedOnlyIfNotSent ==
    \A w \in Withdrawal : status[w] \in Returned => transfer[w] \in {"none", "failed"}

\* PAID, REJECTED and FAILED are final, although the transfer's result is stored by an
\* unconditional update.
FinalStaysFinal ==
    [][\A w \in Withdrawal :
          status[w] \in {"PAID", "REJECTED", "FAILED"} => status'[w] = status[w]]_vars

-----------------------------------------------------------------------------
(* What the documentation says and the code does not do.                   *)

\* README: withdrawals cannot be approved or marked paid while the available balance is
\* below zero.  A chargeback may come in after the check of an approval, and a payment
\* of an approved withdrawal is not checked at all.
NoPayoutWhileNegative ==
    [][\A w \in Withdrawal :
          status'[w] # status[w] /\ status'[w] \in {"APPROVED", "PAID"}
              => available[Owner[w]] >= 0]_vars

=============================================================================
