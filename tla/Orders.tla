------------------------------- MODULE Orders -------------------------------
(***************************************************************************)
(* The money side of an order: CheckoutService, the webhook inbox that     *)
(* feeds it, the settle job that stands in for lost webhooks, and the      *)
(* ledger entries of its sale.  Everything runs as tasks of one Node       *)
(* process over a READ COMMITTED database, so a task may be interleaved    *)
(* with every other one between two of its awaits; an action below is what *)
(* happens between two awaits that another task could observe.             *)
(*                                                                         *)
(* The provider's payments are the environment.  A notification is only a  *)
(* pointer to a payment, so it carries no state here: it may arrive at any *)
(* time, any number of times, or never.                                    *)
(***************************************************************************)
EXTENDS Integers, FiniteSets

CONSTANTS
    Order,           \* orders buyers may place
    Attempt,         \* payments a buyer may start for one order
    Handler,         \* HTTP requests served at the same time
    Job,             \* the settle-pending-orders timer
    None,            \* SQL NULL
    CheckoutResults, \* what gateway.createCheckout may answer
    HasLookup,       \* whether the gateway implements lookupOrder
    HoldDays,        \* finance.pending_hold_days
    BATCH,           \* orders one run of the job takes
    MaxFaults        \* bound: crashes and database errors in a behaviour

Payment == Order \X Attempt
Worker == Handler \union {Job}

ASSUME OrdersAssumption ==
    /\ Job \notin Handler
    /\ None \notin Order \union Payment
    /\ CheckoutResults \subseteq {"pending", "paid", "failed"}
    /\ HasLookup \in BOOLEAN
    /\ HoldDays \in Nat
    /\ BATCH \in Nat \ {0}
    /\ MaxFaults \in Nat

VARIABLES
    status,      \* Order.status, "NONE" before the row exists
    linked,      \* whether Order.gatewayOrderId is set
    charge,      \* Order.gatewayChargeId
    mock,        \* whether Order.paymentMethod = MOCK
    age,         \* "fresh", "due" after PENDING_MIN_AGE_MS, "expired" after CHECKOUT_TTL_MS
    before,      \* the orders created earlier, the order of createdAt
    open,        \* whether the buyer was sent the provider's checkoutUrl
    payStatus,   \* the provider's payments
    seen,        \* WebhookEvent rows, by eventId
    processed,   \* how often the dispatch of an eventId completed
    credit,      \* SALE_CREDIT entries of the order: how many, and their status
    debit,       \* REFUND_DEBIT entries of the order
    matured,     \* whether availableAt of the credit has passed
    salesCount,  \* Product.salesCount of the product the orders sell
    task,        \* what each worker is doing, Idle if nothing
    batch,       \* orders the running job has not reached yet
    faults

orderVars == <<status, linked, charge, mock, before, open>>
ledgerVars == <<credit, debit, matured, salesCount>>
inboxVars == <<seen, processed>>
vars == <<orderVars, age, payStatus, inboxVars, ledgerVars, task, batch, faults>>

PayableAlsoPaid == {"PENDING", "FAILED", "PAID"}   \* mutant: the guard lets a paid order through
PayableOnlyPending == {"PENDING"}                  \* mutant: a late payment is dropped
PAYABLE_STATUSES == {"PENDING", "FAILED"}
PaymentStatus ==
    {"pending", "approved", "rejected", "cancelled", "refunded", "charged_back"}
FINAL_FAILURE_STATUSES == {"rejected", "cancelled"}
Taken == {"approved", "refunded", "charged_back"}
Returned == {"refunded", "charged_back"}

\* paymentEvent: what a notification means, from the payment's status when it was read.
KindPendingIsPaid(s) ==                            \* mutant: an authorised payment counts
    IF s \in {"pending", "approved"} THEN "order.paid"
    ELSE IF s \in FINAL_FAILURE_STATUSES THEN "order.failed" ELSE "order.refunded"
EventKind(s) ==
    CASE s = "approved" -> "order.paid"
      [] s \in FINAL_FAILURE_STATUSES -> "order.failed"
      [] s \in Returned -> "order.refunded"
      [] OTHER -> "ignored"
EventId == Payment \X PaymentStatus

Act == {"none", "paid", "failed", "admin"} \union PaymentStatus
Pc == {"idle", "create", "abort", "link", "finish", "store", "dispatch",
       "lookup", "apply", "ask", "reverse", "reversing"}
Task == [pc : Pc, order : Order \union {None}, pay : Payment \union {None},
         act : Act, onHold : BOOLEAN]
Idle == [pc |-> "idle", order |-> None, pay |-> None, act |-> "none", onHold |-> FALSE]
Entries == [n : Nat, status : {"none", "PENDING", "AVAILABLE"}]
NoEntries == [n |-> 0, status |-> "none"]

OrderTypes ==
    /\ status \in [Order -> {"NONE", "PENDING", "PAID", "FAILED", "REFUNDED"}]
    /\ linked \in [Order -> BOOLEAN]
    /\ charge \in [Order -> Payment \union {None}]
    /\ mock \in [Order -> BOOLEAN]
    /\ before \in [Order -> SUBSET Order]
    /\ open \in [Order -> BOOLEAN]

LedgerTypes ==
    /\ credit \in [Order -> Entries]
    /\ debit \in [Order -> Entries]
    /\ matured \in [Order -> BOOLEAN]
    /\ salesCount \in Nat

InboxTypes ==
    /\ seen \subseteq EventId
    /\ processed \in [EventId -> Nat]

TypeOK ==
    /\ OrderTypes
    /\ LedgerTypes
    /\ InboxTypes
    /\ age \in [Order -> {"fresh", "due", "expired"}]
    /\ payStatus \in [Payment -> PaymentStatus \union {"none"}]
    /\ task \in [Worker -> Task]
    /\ batch \subseteq Order
    /\ faults \in 0..MaxFaults

Init ==
    /\ status = [o \in Order |-> "NONE"]
    /\ linked = [o \in Order |-> FALSE]
    /\ charge = [o \in Order |-> None]
    /\ mock = [o \in Order |-> FALSE]
    /\ age = [o \in Order |-> "fresh"]
    /\ before = [o \in Order |-> {}]
    /\ open = [o \in Order |-> FALSE]
    /\ payStatus = [p \in Payment |-> "none"]
    /\ seen = {}
    /\ processed = [e \in EventId |-> 0]
    /\ credit = [o \in Order |-> NoEntries]
    /\ debit = [o \in Order |-> NoEntries]
    /\ matured = [o \in Order |-> FALSE]
    /\ salesCount = 0
    /\ task = [w \in Worker |-> Idle]
    /\ batch = {}
    /\ faults = 0

-----------------------------------------------------------------------------
(* State transitions of an order, shared by every caller.                  *)

Goto(w, t) == task' = [task EXCEPT ![w] = t]
Done(w) == Goto(w, Idle)
IsIdle(w) == task[w] = Idle
At(w, pc) == task[w].pc = pc

Added(entries, s) == [n |-> entries.n + 1, status |-> s]

\* markPaid: one caller wins the compare-and-set and writes the sale's credit.
MarkPaid(o, p, byMock) ==
    IF status[o] \in PAYABLE_STATUSES
    THEN /\ status' = [status EXCEPT ![o] = "PAID"]
         /\ charge' = [charge EXCEPT ![o] = IF p = None THEN @ ELSE p]
         /\ mock' = [mock EXCEPT ![o] = byMock]
         /\ credit' = [credit EXCEPT ![o] =
                          Added(@, IF HoldDays = 0 THEN "AVAILABLE" ELSE "PENDING")]
         /\ matured' = [matured EXCEPT ![o] = (HoldDays = 0)]
         /\ salesCount' = salesCount + 1
         /\ UNCHANGED <<linked, before, open, debit>>
    ELSE UNCHANGED <<orderVars, ledgerVars>>

\* mutant: markFailed without its condition on the status.
FailAnyStatus(o) ==
    /\ status' = [status EXCEPT ![o] = "FAILED"]
    /\ UNCHANGED <<linked, charge, mock, before, open, ledgerVars>>

\* markFailed: a compare-and-set from PENDING only.
MarkFailed(o) ==
    /\ status' = IF status[o] = "PENDING" THEN [status EXCEPT ![o] = "FAILED"] ELSE status
    /\ UNCHANGED <<linked, charge, mock, before, open, ledgerVars>>

\* The claim of markRefunded holds the row until its transaction commits.
Claimed(o) == \E w \in Worker : At(w, "reversing") /\ task[w].order = o

\* markRefunded, first half: claim the order and read where its credit sits.
ClaimRefund(w, o, p, act) ==
    /\ status[o] = "PAID"
    /\ ~Claimed(o)
    /\ Goto(w, [pc |-> "reversing", order |-> o, pay |-> p, act |-> act,
                onHold |-> credit[o].status = "PENDING"])
    /\ UNCHANGED <<orderVars, ledgerVars>>

Counted(e) == processed' = [processed EXCEPT ![e] = @ + 1]

DebitAvailable(onHold) == "AVAILABLE"              \* mutant: every debit counts at once
DebitStatus(onHold) == IF onHold THEN "PENDING" ELSE "AVAILABLE"
SaleStays(n) == n                                  \* mutant: the sale stays in the counter
SaleLeaves(n) == IF n > 0 THEN n - 1 ELSE n

\* markRefunded, second half: write the debit beside the credit and commit.
CommitRefund(w) ==
    LET o == task[w].order
    IN  /\ At(w, "reversing")
        /\ status' = [status EXCEPT ![o] = "REFUNDED"]
        /\ debit' = [debit EXCEPT ![o] =
                        Added(@, DebitStatus(task[w].onHold))]
        /\ salesCount' = SaleLeaves(salesCount)
        /\ IF task[w].act = "admin"
           THEN UNCHANGED processed
           ELSE Counted(<<task[w].pay, task[w].act>>)
        /\ Done(w)
        /\ UNCHANGED <<linked, charge, mock, before, open, credit, matured,
                       age, payStatus, seen, batch, faults>>

-----------------------------------------------------------------------------
(* Checkout.                                                               *)

\* The order and its items are committed, the gateway is called next.
PlaceOrder(h, o) ==
    /\ IsIdle(h)
    /\ status[o] = "NONE"
    /\ status' = [status EXCEPT ![o] = "PENDING"]
    /\ before' = [before EXCEPT ![o] = {x \in Order : status[x] # "NONE"}]
    /\ Goto(h, [Idle EXCEPT !.pc = "create", !.order = o])
    /\ UNCHANGED <<linked, charge, mock, open, age, payStatus, inboxVars,
                   ledgerVars, batch, faults>>

\* createCheckout returned: gatewayOrderId is not stored yet.
GatewayAnswers(h) ==
    /\ At(h, "create")
    /\ \E r \in CheckoutResults :
          Goto(h, [task[h] EXCEPT !.pc = "link", !.act = r])
    /\ UNCHANGED <<orderVars, age, payStatus, inboxVars, ledgerVars, batch, faults>>

GatewayThrows(h) ==
    /\ At(h, "create")
    /\ Goto(h, [task[h] EXCEPT !.pc = "abort"])
    /\ UNCHANGED <<orderVars, age, payStatus, inboxVars, ledgerVars, batch, faults>>

AbortCheckout(h) ==
    /\ At(h, "abort")
    /\ MarkFailed(task[h].order)
    /\ Done(h)
    /\ UNCHANGED <<age, payStatus, inboxVars, batch, faults>>

\* Stores gatewayOrderId; a pending checkout sends the buyer to the provider.
LinkOrder(h) ==
    LET o == task[h].order
        pending == task[h].act = "pending"
    IN  /\ At(h, "link")
        /\ linked' = [linked EXCEPT ![o] = TRUE]
        /\ open' = [open EXCEPT ![o] = pending]
        /\ IF pending THEN Done(h) ELSE Goto(h, [task[h] EXCEPT !.pc = "finish"])
        /\ UNCHANGED <<status, charge, mock, before, age, payStatus, inboxVars,
                       ledgerVars, batch, faults>>

FinishCheckout(h) ==
    /\ At(h, "finish")
    /\ IF task[h].act = "paid"
       THEN MarkPaid(task[h].order, None, TRUE)
       ELSE MarkFailed(task[h].order)
    /\ Done(h)
    /\ UNCHANGED <<age, payStatus, inboxVars, batch, faults>>

-----------------------------------------------------------------------------
(* Webhooks.                                                               *)

\* parseWebhook fetches the payment: the event says what it was at that moment.
ParseWebhook(h, p) ==
    /\ IsIdle(h)
    /\ payStatus[p] # "none"
    /\ Goto(h, [Idle EXCEPT !.pc = "store", !.order = p[1], !.pay = p, !.act = payStatus[p]])
    /\ UNCHANGED <<orderVars, age, payStatus, inboxVars, ledgerVars, batch, faults>>

EventWithoutStatus(t) == <<t.pay, "pending">>      \* mutant: one id per payment
EventIsPayment(t) == t.pay                         \* mutant: the bare payment as the id
EventOf(t) == <<t.pay, t.act>>

NeverDuplicate(e) == FALSE                         \* mutant: no unique index
Duplicate(e) == e \in seen

\* The unique (provider, eventId) index lets one delivery through.
StoreWebhook(h) ==
    /\ At(h, "store")
    /\ IF Duplicate(EventOf(task[h]))
       THEN Done(h) /\ UNCHANGED seen
       ELSE /\ seen' = seen \union {EventOf(task[h])}
            /\ Goto(h, [task[h] EXCEPT !.pc = "dispatch"])
    /\ UNCHANGED <<orderVars, age, payStatus, processed, ledgerVars, batch, faults>>

\* order.paid and order.failed; an unlinked order is unknown and nothing happens,
\* as for a status the adapter ignores or a refund of an order that is not PAID.
DispatchWebhook(h) ==
    LET o == task[h].order
        kind == IF linked[o] THEN EventKind(task[h].act) ELSE "ignored"
    IN  /\ At(h, "dispatch")
        /\ \/ kind = "order.paid" /\ MarkPaid(o, task[h].pay, FALSE)
           \/ kind = "order.failed" /\ MarkFailed(o)
           \/ /\ kind = "ignored" \/ (kind = "order.refunded" /\ status[o] # "PAID")
              /\ UNCHANGED <<orderVars, ledgerVars>>
        /\ Counted(EventOf(task[h]))
        /\ Done(h)
        /\ UNCHANGED <<age, payStatus, seen, batch, faults>>

\* order.refunded, for a refund and a chargeback alike.
DispatchRefund(h) ==
    LET o == task[h].order
    IN  /\ At(h, "dispatch")
        /\ linked[o]
        /\ EventKind(task[h].act) = "order.refunded"
        /\ ClaimRefund(h, o, task[h].pay, task[h].act)
        /\ UNCHANGED <<age, payStatus, inboxVars, batch, faults>>

-----------------------------------------------------------------------------
(* Reconciliation: reading an order, and the settle job.                   *)

Reconciles(o) == HasLookup /\ status[o] = "PENDING" /\ linked[o]

StartLookup(w, o) == Goto(w, [Idle EXCEPT !.pc = "lookup", !.order = o])

\* GET /orders/:id by its buyer.
ReadOrder(h, o) ==
    /\ IsIdle(h)
    /\ Reconciles(o)
    /\ StartLookup(h, o)
    /\ UNCHANGED <<orderVars, age, payStatus, inboxVars, ledgerVars, batch, faults>>

Attempts(o) == {p \in {o} \X Attempt : payStatus[p] # "none"}
Approved(o) == {p \in Attempts(o) : payStatus[p] = "approved"}
NeverExpired(o) == FALSE                           \* mutant: no checkout window
Expired(o) == age[o] = "expired"
AllFailed(o) ==
    /\ Attempts(o) # {}
    /\ \A p \in Attempts(o) : payStatus[p] \in FINAL_FAILURE_STATUSES

\* lookupOrder answers and decideReconciliation decides.
LookupAnswers(w) ==
    LET o == task[w].order
        decide(act, p) == Goto(w, [task[w] EXCEPT !.pc = "apply", !.act = act, !.pay = p])
    IN  /\ At(w, "lookup")
        /\ \/ \E p \in Approved(o) : decide("paid", p)
           \/ Approved(o) = {} /\ (AllFailed(o) \/ Expired(o)) /\ decide("failed", None)
           \/ Approved(o) = {} /\ ~AllFailed(o) /\ ~Expired(o) /\ Done(w)
        /\ UNCHANGED <<orderVars, age, payStatus, inboxVars, ledgerVars, batch, faults>>

\* The provider does not answer: reconcile never throws.
LookupThrows(w) ==
    /\ At(w, "lookup")
    /\ Done(w)
    /\ UNCHANGED <<orderVars, age, payStatus, inboxVars, ledgerVars, batch, faults>>

ApplyReconciliation(w) ==
    /\ At(w, "apply")
    /\ IF task[w].act = "paid"
       THEN MarkPaid(task[w].order, task[w].pay, FALSE)
       ELSE MarkFailed(task[w].order)
    /\ Done(w)
    /\ UNCHANGED <<age, payStatus, inboxVars, batch, faults>>

Due == {o \in Order : status[o] = "PENDING" /\ linked[o] /\ age[o] # "fresh"}

\* settlePendingOrders reads the oldest BATCH orders; it never overlaps itself.
StartJob ==
    /\ IsIdle(Job)
    /\ batch = {}
    /\ batch' = {o \in Due : Cardinality(before[o] \intersect Due) < BATCH}
    /\ UNCHANGED <<orderVars, age, payStatus, inboxVars, ledgerVars, task, faults>>

\* The oldest order left in the batch is reconciled, if it still needs it.
JobNext(o) ==
    /\ IsIdle(Job)
    /\ o \in batch
    /\ before[o] \intersect batch = {}
    /\ batch' = batch \ {o}
    /\ IF Reconciles(o) THEN StartLookup(Job, o) ELSE UNCHANGED task
    /\ UNCHANGED <<orderVars, age, payStatus, inboxVars, ledgerVars, faults>>

-----------------------------------------------------------------------------
(* Admin refund.                                                           *)

\* The order is read, and a provider payment must be known unless it is a mock one.
RequestRefund(h, o) ==
    /\ IsIdle(h)
    /\ status[o] = "PAID"
    /\ IF mock[o]
       THEN Goto(h, [Idle EXCEPT !.pc = "reverse", !.order = o, !.act = "admin"])
       ELSE /\ charge[o] # None
            /\ Goto(h, [Idle EXCEPT !.pc = "ask", !.order = o, !.pay = charge[o],
                                    !.act = "admin"])
    /\ UNCHANGED <<orderVars, age, payStatus, inboxVars, ledgerVars, batch, faults>>

\* refundPayment: the idempotency key makes a repeated refund succeed again.
ProviderRefunds(h) ==
    LET p == task[h].pay
    IN  /\ At(h, "ask")
        /\ payStatus[p] \in {"approved", "refunded"}
        /\ payStatus' = [payStatus EXCEPT ![p] = "refunded"]
        /\ Goto(h, [task[h] EXCEPT !.pc = "reverse"])
        /\ UNCHANGED <<orderVars, age, inboxVars, ledgerVars, batch, faults>>

\* mutant: the refusal is logged and the order reversed all the same.
RefusalIgnored(h) ==
    /\ At(h, "ask")
    /\ Goto(h, [task[h] EXCEPT !.pc = "reverse"])
    /\ UNCHANGED <<orderVars, age, payStatus, inboxVars, ledgerVars, batch, faults>>

\* The provider refuses, or cannot be reached: nothing changes here.
ProviderRefuses(h) ==
    /\ At(h, "ask")
    /\ Done(h)
    /\ UNCHANGED <<orderVars, age, payStatus, inboxVars, ledgerVars, batch, faults>>

ReverseOrder(h) ==
    LET o == task[h].order
    IN  /\ At(h, "reverse")
        /\ \/ ClaimRefund(h, o, task[h].pay, "admin")
           \/ /\ status[o] # "PAID"
              /\ Done(h)
              /\ UNCHANGED <<orderVars, ledgerVars>>
        /\ UNCHANGED <<age, payStatus, inboxVars, batch, faults>>

-----------------------------------------------------------------------------
(* The ledger, time, the provider, and faults.                             *)

Released(entries, o) ==
    IF entries[o].status = "PENDING" /\ matured[o]
    THEN [entries[o] EXCEPT !.status = "AVAILABLE"]
    ELSE entries[o]

\* releaseMatured, from its timer or from reading a balance.
ReleaseMatured ==
    /\ credit' = [o \in Order |-> Released(credit, o)]
    /\ debit' = [o \in Order |-> Released(debit, o)]
    /\ UNCHANGED <<matured, salesCount, orderVars, age, payStatus, inboxVars,
                   task, batch, faults>>

\* The hold of a sale elapses.
Mature(o) ==
    /\ credit[o].n > 0
    /\ ~matured[o]
    /\ matured' = [matured EXCEPT ![o] = TRUE]
    /\ UNCHANGED <<credit, debit, salesCount, orderVars, age, payStatus, inboxVars,
                   task, batch, faults>>

\* An older order is never younger than a newer one.
GrowOld(o) ==
    /\ status[o] # "NONE"
    /\ age[o] # "expired"
    /\ \A x \in before[o] : age[x] # age[o]
    /\ age' = [age EXCEPT ![o] = IF @ = "fresh" THEN "due" ELSE "expired"]
    /\ UNCHANGED <<orderVars, payStatus, inboxVars, ledgerVars, task, batch, faults>>

SetPayment(p, s) ==
    /\ payStatus' = [payStatus EXCEPT ![p] = s]
    /\ UNCHANGED <<orderVars, age, inboxVars, ledgerVars, task, batch, faults>>

\* The buyer starts a payment on the provider's page, open for CHECKOUT_TTL_MS.
BuyerPays(p) ==
    /\ open[p[1]]
    /\ age[p[1]] # "expired"
    /\ payStatus[p] = "none"
    /\ SetPayment(p, "pending")

\* The provider decides a payment, possibly long after the window closed.
ProviderDecides(p) ==
    /\ payStatus[p] = "pending"
    /\ \E s \in {"approved", "rejected", "cancelled"} : SetPayment(p, s)

\* A refund from the provider's dashboard, or a lost dispute.
ProviderReverses(p) ==
    /\ payStatus[p] = "approved"
    /\ \E s \in Returned : SetPayment(p, s)

\* A database error ends one task, a crash ends all of them and the job's run.
TaskFails(w) ==
    /\ ~IsIdle(w)
    /\ faults < MaxFaults
    /\ faults' = faults + 1
    /\ Done(w)
    /\ UNCHANGED <<orderVars, age, payStatus, inboxVars, ledgerVars, batch>>

\* A read of the job itself fails, outside reconcile's try: its run ends.
JobFails ==
    /\ IsIdle(Job)
    /\ batch # {}
    /\ faults < MaxFaults
    /\ faults' = faults + 1
    /\ batch' = {}
    /\ UNCHANGED <<orderVars, age, payStatus, inboxVars, ledgerVars, task>>

Crash ==
    /\ faults < MaxFaults
    /\ faults' = faults + 1
    /\ task' = [w \in Worker |-> Idle]
    /\ batch' = {}
    /\ UNCHANGED <<orderVars, age, payStatus, inboxVars, ledgerVars>>

-----------------------------------------------------------------------------

\* The next step of a task that has started.
Step(w) ==
    \/ GatewayAnswers(w) \/ GatewayThrows(w) \/ AbortCheckout(w)
    \/ LinkOrder(w) \/ FinishCheckout(w)
    \/ StoreWebhook(w) \/ DispatchWebhook(w) \/ DispatchRefund(w)
    \/ LookupAnswers(w) \/ LookupThrows(w) \/ ApplyReconciliation(w)
    \/ ProviderRefunds(w) \/ ProviderRefuses(w) \/ ReverseOrder(w) \/ CommitRefund(w)

Request(h) ==
    \/ \E o \in Order : PlaceOrder(h, o) \/ ReadOrder(h, o) \/ RequestRefund(h, o)
    \/ \E p \in Payment : ParseWebhook(h, p)

Next ==
    \/ \E h \in Handler : Request(h)
    \/ \E w \in Worker : Step(w) \/ TaskFails(w)
    \/ StartJob \/ JobFails
    \/ \E o \in Order : JobNext(o) \/ Mature(o) \/ GrowOld(o)
    \/ \E p \in Payment : BuyerPays(p) \/ ProviderDecides(p) \/ ProviderReverses(p)
    \/ ReleaseMatured
    \/ Crash

Spec == Init /\ [][Next]_vars

-----------------------------------------------------------------------------
(* Safety.                                                                 *)

\* Whoever confirms a payment (checkout, webhook, reconciliation), whoever refunds
\* it and however often, an order has one SALE_CREDIT exactly when it is PAID or
\* REFUNDED, and one REFUND_DEBIT exactly when it is REFUNDED.
LedgerMatchesStatus ==
    \A o \in Order :
        /\ credit[o].n = IF status[o] \in {"PAID", "REFUNDED"} THEN 1 ELSE 0
        /\ debit[o].n = IF status[o] = "REFUNDED" THEN 1 ELSE 0

\* Product.salesCount is the number of its sales that stand.
SalesCountMatches == salesCount = Cardinality({o \in Order : status[o] = "PAID"})

\* markRefunded reverses a credit where it sits.  The debit is never available
\* before its credit is, so a refund takes nothing a seller could not withdraw
\* yet; and when the hold ended between the read of the credit and the write of
\* the debit, the debit is released by the next balance read too.
ReversedWhereItSits ==
    \A o \in Order : debit[o].n > 0 =>
        /\ debit[o].status = "AVAILABLE" => credit[o].status = "AVAILABLE"
        /\ credit[o].status # debit[o].status => matured[o]

\* The unique index on (provider, eventId) and the order of store and dispatch:
\* no event is applied twice, whatever is redelivered, and at the same time.
ProcessedAtMostOnce ==
    \A e \in EventId : processed[e] <= 1 /\ (processed[e] = 1 => e \in seen)

\* An order is PAID only by the mock gateway or for a payment the provider took.
PaidOnlyForTakenMoney ==
    \A o \in Order : status[o] \in {"PAID", "REFUNDED"} =>
        \/ mock[o]
        \/ charge[o] \in {o} \X Attempt /\ payStatus[charge[o]] \in Taken

\* A seller's credit is reversed only when the provider returned a payment of that
\* order (an admin refund asks the provider first) or no provider was involved.
ReversedOnlyForReturnedMoney ==
    \A o \in Order : status[o] = "REFUNDED" =>
        mock[o] \/ \E p \in {o} \X Attempt : payStatus[p] \in Returned

\* The order as its buyer and seller see it.
Promise == INSTANCE OrderLifecycle WITH
    state <- status,
    earned <- [o \in Order |-> credit[o].n - debit[o].n],
    sold <- salesCount

\* Every step of the service is a step of the order's life cycle or no step of it.
ImplementsLifecycle == Promise!Spec

-----------------------------------------------------------------------------
(* Liveness.                                                               *)

\* Requests and the job finish what they started, and time passes.
TasksFinish ==
    /\ \A w \in Worker : WF_vars(Step(w))
    /\ \A o \in Order : WF_vars(GrowOld(o))

\* setInterval starts the job again, and the provider answers its questions in the end.
JobRuns ==
    /\ WF_vars(StartJob)
    /\ WF_vars(\E o \in Order : JobNext(o))
    /\ \A o \in Order : SF_vars(task[Job].order = o /\ LookupAnswers(Job))

\* The provider repeats the notification of a status until it is acknowledged.
Notify(p) == \E h \in Handler : <<p, payStatus[p]>> \notin seen /\ ParseWebhook(h, p)
WebhooksArrive == \A p \in Payment : SF_vars(Notify(p))

JobSpec == Spec /\ TasksFinish /\ JobRuns
DeliverySpec == Spec /\ TasksFinish /\ WebhooksArrive

\* The job settles every order whose gateway id was stored, without any webhook and
\* through crashes.
PendingSettles ==
    \A o \in Order : (linked[o] /\ status[o] = "PENDING") ~> (status[o] # "PENDING")

\* When notifications arrive and are not cut short, a payment that stays approved
\* gets its order PAID, also an order that had already failed or expired.
ApprovedIsHonoured ==
    \A p \in Payment :
        (payStatus[p] = "approved")
            ~> (status[p[1]] \in {"PAID", "REFUNDED"} \/ payStatus[p] # "approved")

\* A refund or chargeback made at the provider after the order was PAID reverses it.
DashboardRefundReachesPaidOrder ==
    \A p \in Payment :
        (status[p[1]] = "PAID" /\ charge[p[1]] = p /\ payStatus[p] \in Returned
            /\ <<p, payStatus[p]>> \notin seen)
            ~> (status[p[1]] = "REFUNDED")

-----------------------------------------------------------------------------
(* What the documentation says and the code does not do.                   *)

\* README: lost webhooks are not fatal, a PENDING order is reconciled.
LostWebhookIsNotFatal ==
    \A p \in Payment :
        (status[p[1]] = "PENDING" /\ payStatus[p] = "approved")
            ~> (status[p[1]] \in {"PAID", "REFUNDED"} \/ payStatus[p] # "approved")

=============================================================================
