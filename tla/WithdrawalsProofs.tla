-------------------------- MODULE WithdrawalsProofs --------------------------
(***************************************************************************)
(* Theorems of Withdrawals, for any number of sellers, withdrawals and     *)
(* concurrent requests, any amounts, limits and number of faults.          *)
(***************************************************************************)
EXTENDS Withdrawals, FiniteSetTheorems, TLAPS

Claimed == {"transfer", "record", "fail"}

\* What a started request still knows of the withdrawal it read.
TaskFacts ==
    \A h \in Handler :
        LET w == task[h].w
        IN  /\ task[h].pc # "idle" => w \in Withdrawal
            /\ At(h, "hold") =>
                  /\ status[w] = "NONE"
                  /\ task[h].cents <= available[Owner[w]] + taken[Owner[w]]
            /\ task[h].pc \notin {"idle", "hold"} => status[w] # "NONE"
            /\ At(h, "transfer") => transfer[w] = "none" /\ calls[w] = 0
            /\ task[h].pc \in {"transfer", "record"} =>
                  status[w] \in {"APPROVED", "PAID"} /\ reference[w] # "transfer"
            /\ At(h, "record") =>
                  /\ task[h].result = "paid" => transfer[w] = "paid"
                  /\ task[h].result = "failed" => transfer[w] = "failed"
            /\ At(h, "fail") =>
                  /\ status[w] \notin {"NONE", "REQUESTED", "REJECTED"}
                  /\ transfer[w] \in {"none", "failed"}

\* The locks: one open transaction per vendor, one claim per withdrawal.
Alone ==
    \A g, h \in Handler :
        /\ At(g, "hold") /\ At(h, "hold") /\ Owner[task[g].w] = Owner[task[h].w] => g = h
        /\ task[g].pc \in Claimed /\ task[h].pc \in Claimed /\ task[g].w = task[h].w => g = h

\* A withdrawal nobody has approved was never sent.
Unsent ==
    \A w \in Withdrawal : status[w] \in {"NONE", "REQUESTED", "REJECTED"} =>
        calls[w] = 0 /\ transfer[w] = "none" /\ reference[w] # "transfer"

\* What FinalStaysFinal says of one step.
KeepsFinal ==
    \A w \in Withdrawal :
        status[w] \in {"PAID", "REJECTED", "FAILED"} => status'[w] = status[w]

\* The inductive invariant.
Inv ==
    /\ TypeOK
    /\ TaskFacts
    /\ Alone
    /\ Unsent
    /\ HoldReturnedOnce
    /\ TransferredOnce
    /\ ReturnedOnlyIfNotSent
    /\ OverdrawnOnlyByRefunds

-----------------------------------------------------------------------------

\* The tasks a request may become.
LEMMA TaskForms ==
    /\ Idle \in Task /\ Idle.pc = "idle"
    /\ \A pc \in Pc, w \in Withdrawal :
          /\ [Idle EXCEPT !.pc = pc, !.w = w] \in Task
          /\ [Idle EXCEPT !.pc = pc, !.w = w].pc = pc
          /\ [Idle EXCEPT !.pc = pc, !.w = w].w = w
    /\ \A w \in Withdrawal, n \in Nat :
          [Idle EXCEPT !.pc = "hold", !.w = w, !.cents = n] \in Task
    /\ \A t \in Task, pc \in Pc :
          /\ [t EXCEPT !.pc = pc] \in Task
          /\ [t EXCEPT !.pc = pc].pc = pc
          /\ [t EXCEPT !.pc = pc].w = t.w
    /\ \A t \in Task, r \in TransferResults :
          [t EXCEPT !.pc = "record", !.result = r] \in Task
BY DEF Idle, Task, Pc

\* One request moves, the others stay where they are.
LEMMA Moved ==
    ASSUME TypeOK, NEW h \in Handler, NEW t \in Task, Goto(h, t)
    PROVE  /\ task' \in [Handler -> Task]
           /\ task'[h] = t
           /\ \A g \in Handler \ {h} : task'[g] = task[g]
BY DEF TypeOK, Goto

\* A request goes on to its next step, with all it knows.
LEMMA MovedOn ==
    ASSUME TypeOK, NEW h \in Handler, NEW pc \in Pc, Goto(h, [task[h] EXCEPT !.pc = pc])
    PROVE  /\ task' \in [Handler -> Task]
           /\ task'[h].pc = pc /\ task'[h].w = task[h].w
           /\ \A g \in Handler \ {h} : task'[g] = task[g]
<1> DEFINE t == [task[h] EXCEPT !.pc = pc]
<1>1. task[h] \in Task
  BY DEF TypeOK
<1>2. t \in Task /\ t.pc = pc /\ t.w = task[h].w
  BY <1>1 DEF Task
<1> HIDE DEF t
<1>3. Goto(h, t)
  BY DEF t
<1>4. /\ task' \in [Handler -> Task]
      /\ task'[h] = t
      /\ \A g \in Handler \ {h} : task'[g] = task[g]
  BY <1>2, <1>3, Moved
<1> QED
  BY <1>2, <1>4

\* A request starts with a withdrawal it has just read.
LEMMA MovedRead ==
    ASSUME TypeOK, NEW h \in Handler, NEW w \in Withdrawal, NEW pc \in Pc,
           Goto(h, [Idle EXCEPT !.pc = pc, !.w = w])
    PROVE  /\ task' \in [Handler -> Task]
           /\ task'[h].pc = pc /\ task'[h].w = w
           /\ \A g \in Handler \ {h} : task'[g] = task[g]
<1> DEFINE t == [Idle EXCEPT !.pc = pc, !.w = w]
<1>1. t \in Task /\ t.pc = pc /\ t.w = w
  BY TaskForms
<1> HIDE DEF t
<1>2. Goto(h, t)
  BY DEF t
<1>3. /\ task' \in [Handler -> Task]
      /\ task'[h] = t
      /\ \A g \in Handler \ {h} : task'[g] = task[g]
  BY <1>1, <1>2, Moved
<1> QED
  BY <1>1, <1>3

\* A request ends.
LEMMA MovedIdle ==
    ASSUME TypeOK, NEW h \in Handler, Goto(h, Idle)
    PROVE  /\ task' \in [Handler -> Task]
           /\ task'[h].pc = "idle"
           /\ \A g \in Handler \ {h} : task'[g] = task[g]
BY TaskForms, Moved

\* Giving a hold back only adds to the balance.
LEMMA GivenBack ==
    ASSUME TypeOK, NEW w \in Withdrawal, NEW s \in Status, GiveBack(w, s)
    PROVE  /\ status' \in [Withdrawal -> Status]
           /\ released' \in [Withdrawal -> Nat]
           /\ available' \in [Vendor -> Int]
           /\ \A v \in Vendor : available'[v] >= available[v]
<1>1. amount[w] \in Nat /\ released[w] \in Nat /\ Owner[w] \in Vendor
  BY WithdrawalsAssumption DEF TypeOK
<1>2. status' \in [Withdrawal -> Status] /\ released' \in [Withdrawal -> Nat]
  BY <1>1 DEF GiveBack, SetStatus, TypeOK
<1>3. available' = [available EXCEPT ![Owner[w]] =
                       available[Owner[w]] + (IF released[w] = 0 THEN amount[w] ELSE 0)]
  BY DEF GiveBack
<1> QED
  BY <1>1, <1>2, <1>3 DEF TypeOK

\* So does the release of what has matured.
LEMMA ReleaseAdds ==
    ASSUME TypeOK, NEW v \in Vendor, Release(v)
    PROVE  /\ available' \in [Vendor -> Int] /\ ripe' \in [Vendor -> Nat]
           /\ \A u \in Vendor : available'[u] >= available[u]
BY DEF Release, TypeOK

\* A request reserves no more than the balance it read.
LEMMA RequestReserves ==
    ASSUME Inv, NEW h \in Handler, NEW w \in Withdrawal, Request(h, w)
    PROVE  \E n \in Nat :
              /\ Goto(h, [Idle EXCEPT !.pc = "hold", !.w = w, !.cents = n])
              /\ n <= available[Owner[w]] + ripe[Owner[w]]
<1> DEFINE balance == available[Owner[w]] + ripe[Owner[w]]
<1>1. balance \in Int
  BY WithdrawalsAssumption DEF Inv, TypeOK
<1>2. PICK asked \in 1..(MaxEarned + 1) \union {None} :
         LET cents == IF asked = None THEN balance ELSE asked
         IN  /\ MayWithdraw(Owner[w], cents, balance)
             /\ Goto(h, [Idle EXCEPT !.pc = "hold", !.w = w, !.cents = cents])
  BY DEF Request
<1> DEFINE cents == IF asked = None THEN balance ELSE asked
<1>3. cents \in Int /\ cents > 0 /\ cents <= balance
  BY <1>1, <1>2 DEF MayWithdraw
<1>4. cents \in Nat
  BY <1>3
<1> QED
  BY <1>2, <1>3, <1>4

\* What a started request names, and where a checked one goes on.
LEMMA CheckGoesOn ==
    ASSUME Inv, NEW h \in Handler, CheckBalance(h)
    PROVE  /\ task[h].w \in Withdrawal /\ Owner[task[h].w] \in Vendor
           /\ Release(Owner[task[h].w])
           /\ task' \in [Handler -> Task]
           /\ task'[h].pc \in {"idle", "pay", "approve", "claim", "recipient"}
           /\ task'[h].pc # "idle" => task'[h].w = task[h].w
           /\ \A g \in Handler \ {h} : task'[g] = task[g]
<1>1. task[h] \in Task /\ task[h].w \in Withdrawal /\ Owner[task[h].w] \in Vendor
  BY WithdrawalsAssumption DEF Inv, TypeOK, TaskFacts, CheckBalance, At
<1>2. PICK pc \in {"idle", "pay", "approve", "claim", "recipient"} :
         IF pc = "idle" THEN Goto(h, Idle) ELSE Goto(h, [task[h] EXCEPT !.pc = pc])
  BY DEF CheckBalance, AfterCheck, Done, At
<1>3. pc \in Pc
  BY DEF Pc
<1>4. CASE pc = "idle"
  BY <1>1, <1>2, <1>4, TaskForms, Moved DEF Inv, CheckBalance
<1>5. CASE pc # "idle"
  <2>1. Goto(h, [task[h] EXCEPT !.pc = pc]) /\ TypeOK
    BY <1>2, <1>5 DEF Inv
  <2>2. /\ task' \in [Handler -> Task]
        /\ task'[h].pc = pc /\ task'[h].w = task[h].w
        /\ \A g \in Handler \ {h} : task'[g] = task[g]
    BY <1>3, <2>1, MovedOn
  <2> QED
    BY <1>1, <1>2, <2>2 DEF CheckBalance
<1> QED
  BY <1>4, <1>5

\* Where marking paid starts.
LEMMA PaymentStarts ==
    ASSUME Inv, NEW h \in Handler, NEW w \in Withdrawal, ReadForPayment(h, w)
    PROVE  /\ task' \in [Handler -> Task]
           /\ task'[h].pc \in {"checkPay", "pay"} /\ task'[h].w = w
           /\ \A g \in Handler \ {h} : task'[g] = task[g]
<1>1. TypeOK /\ "checkPay" \in Pc /\ "pay" \in Pc
  BY DEF Inv, Pc
<1>2. CASE Goto(h, [Idle EXCEPT !.pc = "checkPay", !.w = w])
  BY <1>1, <1>2, MovedRead
<1>3. CASE Goto(h, [Idle EXCEPT !.pc = "pay", !.w = w])
  BY <1>1, <1>3, MovedRead
<1> QED
  BY <1>2, <1>3 DEF ReadForPayment

\* Where a recorded transfer goes on.
LEMMA RecordGoesOn ==
    ASSUME Inv, NEW h \in Handler, RecordTransfer(h)
    PROVE  /\ task' \in [Handler -> Task]
           /\ \/ task'[h].pc = "idle"
              \/ task'[h].pc = "fail" /\ task'[h].w = task[h].w /\ task[h].result = "failed"
           /\ \A g \in Handler \ {h} : task'[g] = task[g]
<1>1. TypeOK /\ "fail" \in Pc
  BY DEF Inv, Pc
<1>2. CASE task[h].result = "failed"
  <2>1. Goto(h, [task[h] EXCEPT !.pc = "fail"])
    BY <1>2 DEF RecordTransfer, ReportsFailure
  <2> QED
    BY <1>1, <1>2, <2>1, MovedOn
<1>3. CASE task[h].result # "failed"
  <2>1. Goto(h, Idle)
    BY <1>3 DEF RecordTransfer, ReportsFailure, Done
  <2> QED
    BY <1>1, <2>1, MovedIdle
<1> QED
  BY <1>2, <1>3

\* A claim that succeeds.
LEMMA ClaimGoesOn ==
    ASSUME Inv, NEW h \in Handler, ClaimTransfer(h)
    PROVE  /\ task' \in [Handler -> Task]
           /\ \A g \in Handler \ {h} : task'[g] = task[g]
           /\ IF status[task[h].w] = "REQUESTED"
              THEN /\ task'[h].pc = "transfer" /\ task'[h].w = task[h].w
                   /\ status' = [status EXCEPT ![task[h].w] = "APPROVED"]
              ELSE task'[h].pc = "idle" /\ status' = status
<1>1. TypeOK /\ "transfer" \in Pc
  BY DEF Inv, Pc
<1>2. CASE status[task[h].w] = "REQUESTED"
  <2>1. /\ Goto(h, [task[h] EXCEPT !.pc = "transfer"])
        /\ status' = [status EXCEPT ![task[h].w] = "APPROVED"]
    BY <1>2 DEF ClaimTransfer, MovesFrom, SetStatus
  <2> QED
    BY <1>1, <1>2, <2>1, MovedOn
<1>3. CASE status[task[h].w] # "REQUESTED"
  <2>1. Goto(h, Idle) /\ status' = status
    BY <1>3 DEF ClaimTransfer, MovesFrom, Done
  <2> QED
    BY <1>1, <1>3, <2>1, MovedIdle
<1> QED
  BY <1>2, <1>3

-----------------------------------------------------------------------------

\* Every step keeps the types.
LEMMA TypeStep == ASSUME Inv, [Next]_vars PROVE TypeOK'
<1> USE DEF At, IsIdle, Done
<1>1. ASSUME NEW h \in Handler, NEW w \in Withdrawal, Request(h, w) PROVE TypeOK'
  <2>1. Owner[w] \in Vendor
    BY WithdrawalsAssumption
  <2>2. PICK n \in Nat : Goto(h, [Idle EXCEPT !.pc = "hold", !.w = w, !.cents = n])
    BY <1>1, <2>1, RequestReserves
  <2>3. task' \in [Handler -> Task]
    BY <2>2, TaskForms, Moved DEF Inv
  <2>4. Release(Owner[w])
    BY <1>1 DEF Request
  <2> QED
    BY <1>1, <2>1, <2>3, <2>4, ReleaseAdds DEF Request, Release, rowVars, providerVars, Inv, TypeOK
<1>2. ASSUME NEW h \in Handler, PlaceHold(h) PROVE TypeOK'
  <2>1. task[h] \in Task /\ task[h].w \in Withdrawal /\ Owner[task[h].w] \in Vendor
    BY <1>2, WithdrawalsAssumption DEF PlaceHold, Inv, TypeOK, TaskFacts
  <2>2. task' \in [Handler -> Task]
    BY <1>2, TaskForms, Moved DEF PlaceHold, Inv
  <2>3. task[h].cents \in Nat
    BY <2>1 DEF Task
  <2>4. available' \in [Vendor -> Int] /\ amount' \in [Withdrawal -> Nat]
    BY <1>2, <2>1, <2>3 DEF PlaceHold, Inv, TypeOK
  <2> QED
    BY <1>2, <2>1, <2>2, <2>4 DEF PlaceHold, SetStatus, providerVars, Inv, TypeOK, Status
<1>3. ASSUME NEW h \in Handler, NEW w \in Withdrawal, ReadForApproval(h, w) PROVE TypeOK'
  BY <1>3 DEF ReadForApproval, rowVars, providerVars, balanceVars, Inv, TypeOK, Task, Pc, Status, Goto, Idle
<1>4. ASSUME NEW h \in Handler, NEW w \in Withdrawal, ReadForPayment(h, w) PROVE TypeOK'
  <2>1. task' \in [Handler -> Task]
    BY <1>4, PaymentStarts
  <2> QED
    BY <1>4, <2>1 DEF ReadForPayment, rowVars, providerVars, balanceVars, Inv, TypeOK
<1>5. ASSUME NEW h \in Handler, CheckBalance(h) PROVE TypeOK'
  <2>1. Release(Owner[task[h].w]) /\ Owner[task[h].w] \in Vendor /\ task' \in [Handler -> Task]
    BY <1>5, CheckGoesOn
  <2> QED
    BY <1>5, <2>1, ReleaseAdds DEF CheckBalance, Release, rowVars, providerVars, Inv, TypeOK
<1>6. ASSUME NEW h \in Handler, ApproveManual(h) PROVE TypeOK'
  BY <1>6 DEF ApproveManual, MovesFrom, SetStatus, providerVars, balanceVars, Inv, TypeOK, Task, Pc, Status, Goto, Idle
<1>7. ASSUME NEW h \in Handler, StoreRecipient(h) PROVE TypeOK'
  <2>1. task[h] \in Task /\ Owner[task[h].w] \in Vendor
    BY <1>7, WithdrawalsAssumption DEF StoreRecipient, Inv, TypeOK, TaskFacts
  <2>2. TypeOK /\ "claim" \in Pc /\ Goto(h, [task[h] EXCEPT !.pc = "claim"])
    BY <1>7 DEF StoreRecipient, Inv, Pc
  <2>3. task' \in [Handler -> Task]
    BY <2>2, MovedOn
  <2> QED
    BY <1>7, <2>1, <2>3 DEF StoreRecipient, rowVars, balanceVars, Inv, TypeOK
<1>8. ASSUME NEW h \in Handler, ClaimTransfer(h) PROVE TypeOK'
  <2>1. task[h] \in Task /\ task[h].w \in Withdrawal
    BY <1>8 DEF ClaimTransfer, Inv, TypeOK, TaskFacts
  <2>2. status' \in [Withdrawal -> Status]
    BY <1>8, <2>1 DEF ClaimTransfer, SetStatus, Inv, TypeOK, Status
  <2>3. task' \in [Handler -> Task]
    <3>1. CASE Goto(h, [task[h] EXCEPT !.pc = "transfer"])
      BY <3>1, MovedOn DEF Inv, Pc
    <3>2. CASE Done(h)
      BY <3>2 DEF Done, Goto, Idle, Inv, TypeOK, Task, Pc
    <3> QED
      BY <1>8, <3>1, <3>2 DEF ClaimTransfer
  <2> QED
    BY <1>8, <2>2, <2>3 DEF ClaimTransfer, providerVars, balanceVars, Inv, TypeOK
<1>9. ASSUME NEW h \in Handler, TransferAnswers(h) PROVE TypeOK'
  <2>1. task[h] \in Task /\ task[h].w \in Withdrawal
    BY <1>9 DEF TransferAnswers, Inv, TypeOK, TaskFacts
  <2>2. PICK r \in TransferResults :
           /\ transfer' = [transfer EXCEPT ![task[h].w] = r]
           /\ Goto(h, [task[h] EXCEPT !.pc = "record", !.result = r])
    BY <1>9 DEF TransferAnswers
  <2>3. task' \in [Handler -> Task]
    BY <2>1, <2>2, TaskForms, Moved DEF Inv
  <2>4. transfer' \in [Withdrawal -> {"none", "pending", "paid", "failed"}]
    BY <2>1, <2>2, WithdrawalsAssumption DEF Inv, TypeOK
  <2> QED
    BY <1>9, <2>1, <2>3, <2>4 DEF TransferAnswers, rowVars, balanceVars, Inv, TypeOK
<1>10. ASSUME NEW h \in Handler, TransferThrows(h) PROVE TypeOK'
  BY <1>10 DEF TransferThrows, rowVars, providerVars, balanceVars, Inv, TypeOK, Task, Pc, Status, Goto, Idle
<1>11. ASSUME NEW h \in Handler, RecordTransfer(h) PROVE TypeOK'
  <2>1. task[h] \in Task /\ task[h].w \in Withdrawal
    BY <1>11 DEF RecordTransfer, Inv, TypeOK, TaskFacts
  <2>2. task' \in [Handler -> Task]
    BY <1>11, RecordGoesOn
  <2>3. status' \in [Withdrawal -> Status]
    BY <1>11, <2>1 DEF RecordTransfer, Inv, TypeOK, Status
  <2> QED
    BY <1>11, <2>1, <2>2, <2>3 DEF RecordTransfer, providerVars, balanceVars, Inv, TypeOK
<1>12. ASSUME NEW h \in Handler, FailTransfer(h) PROVE TypeOK'
  <2>1. task[h].w \in Withdrawal
    BY <1>12 DEF FailTransfer, Inv, TaskFacts
  <2>2. task' \in [Handler -> Task]
    BY <1>12, TaskForms, Moved DEF FailTransfer, Inv
  <2>3. CASE GiveBack(task[h].w, "FAILED")
    BY <1>12, <2>1, <2>2, <2>3, GivenBack DEF FailTransfer, GiveBack, providerVars, Inv, TypeOK, Status
  <2>4. CASE UNCHANGED <<rowVars, balanceVars>>
    BY <1>12, <2>2, <2>4 DEF FailTransfer, rowVars, providerVars, balanceVars, Inv, TypeOK
  <2> QED
    BY <1>12, <2>3, <2>4 DEF FailTransfer, MarkFailed
<1>13. ASSUME NEW h \in Handler, MarkPaid(h) PROVE TypeOK'
  BY <1>13 DEF MarkPaid, MovesFrom, OPEN_STATUSES, SetStatus, providerVars, balanceVars, Inv, TypeOK, Task, Pc, Status, Goto, Idle
<1>14. ASSUME NEW w \in Withdrawal, Reject(w) PROVE TypeOK'
  <2>1. GiveBack(w, "REJECTED") /\ "REJECTED" \in Status
    BY <1>14 DEF Reject, Status
  <2> QED
    BY <1>14, <2>1, GivenBack DEF Reject, GiveBack, providerVars, Inv, TypeOK
<1>15. ASSUME NEW w \in Withdrawal, ProviderSettles(w) PROVE TypeOK'
  BY <1>15 DEF ProviderSettles, rowVars, balanceVars, Inv, TypeOK, Task, Pc, Status, Goto, Idle
<1>16. ASSUME NEW w \in Withdrawal, TransferWebhook(w) PROVE TypeOK'
  BY <1>16 DEF TransferWebhook, MarkFailed, GiveBack, SetStatus, rowVars, balanceVars, Inv, TypeOK, Task, Pc, Status, Goto, Idle
<1>17. ASSUME NEW w \in Withdrawal, WeekPasses(w) PROVE TypeOK'
  BY <1>17 DEF WeekPasses, providerVars, balanceVars, Inv, TypeOK, Task, Pc, Status, Goto, Idle
<1>18. ASSUME NEW v \in Vendor, Credit(v) PROVE TypeOK'
  BY <1>18 DEF Credit, rowVars, providerVars, Inv, TypeOK, Task, Pc, Status, Goto, Idle
<1>19. ASSUME NEW v \in Vendor, Mature(v) PROVE TypeOK'
  BY <1>19 DEF Mature, rowVars, providerVars, Inv, TypeOK, Task, Pc, Status, Goto, Idle
<1>20. ASSUME NEW v \in Vendor, RefundOnHold(v) PROVE TypeOK'
  BY <1>20 DEF RefundOnHold, rowVars, providerVars, Inv, TypeOK, Task, Pc, Status, Goto, Idle
<1>21. ASSUME NEW v \in Vendor, Debit(v) PROVE TypeOK'
  BY <1>21 DEF Debit, rowVars, providerVars, Inv, TypeOK, Task, Pc, Status, Goto, Idle
<1>22. ASSUME ReleaseMatured PROVE TypeOK'
  BY <1>22 DEF ReleaseMatured, rowVars, providerVars, Inv, TypeOK, Task, Pc, Status, Goto, Idle
<1>23. ASSUME NEW h \in Handler, TaskFails(h) PROVE TypeOK'
  <2>1. task' \in [Handler -> Task]
    BY <1>23, MovedIdle DEF TaskFails, Inv
  <2>2. faults' \in 0..MaxFaults
    BY <1>23, WithdrawalsAssumption DEF TaskFails, Inv, TypeOK
  <2> QED
    BY <1>23, <2>1, <2>2 DEF TaskFails, rowVars, providerVars, balanceVars, Inv, TypeOK
<1>24. ASSUME Crash PROVE TypeOK'
  <2>1. task' \in [Handler -> Task]
    BY <1>24, TaskForms DEF Crash
  <2>2. faults' \in 0..MaxFaults
    BY <1>24, WithdrawalsAssumption DEF Crash, Inv, TypeOK
  <2> QED
    BY <1>24, <2>1, <2>2 DEF Crash, rowVars, providerVars, balanceVars, Inv, TypeOK
<1>25. ASSUME UNCHANGED vars PROVE TypeOK'
  BY <1>25 DEF vars, rowVars, providerVars, balanceVars, Inv, TypeOK, Task, Pc, Status, Goto, Idle
<1> QED
  BY <1>1, <1>2, <1>3, <1>4, <1>5, <1>6, <1>7, <1>8, <1>9, <1>10, <1>11, <1>12, <1>13, <1>14, <1>15, <1>16, <1>17, <1>18, <1>19, <1>20, <1>21, <1>22, <1>23, <1>24, <1>25
  DEF Next, Step

\* Every step keeps what started requests know.
LEMMA TaskStep == ASSUME Inv, [Next]_vars PROVE TaskFacts'
<1> USE DEF At, IsIdle, Done
<1>1. ASSUME NEW h \in Handler, NEW w \in Withdrawal, Request(h, w) PROVE TaskFacts'
  <2>o. \A x \in Withdrawal : Owner[x] \in Vendor
    BY WithdrawalsAssumption
  <2>1. PICK n \in Nat :
           /\ Goto(h, [Idle EXCEPT !.pc = "hold", !.w = w, !.cents = n])
           /\ n <= available[Owner[w]] + ripe[Owner[w]]
    BY <1>1, RequestReserves
  <2>t. [Idle EXCEPT !.pc = "hold", !.w = w, !.cents = n] \in Task /\ TypeOK
    BY TaskForms DEF Inv
  <2>m. /\ task'[h] = [Idle EXCEPT !.pc = "hold", !.w = w, !.cents = n]
        /\ \A g \in Handler \ {h} : task'[g] = task[g]
    BY <2>1, <2>t DEF Goto, TypeOK
  <2>2. /\ task'[h].pc = "hold" /\ task'[h].w = w /\ task'[h].cents = n
        /\ \A g \in Handler \ {h} : task'[g] = task[g]
    BY <2>m DEF Idle
  <2>3. Release(Owner[w])
    BY <1>1 DEF Request
  <2>4. /\ \A v \in Vendor : available'[v] >= available[v]
        /\ available'[Owner[w]] = available[Owner[w]] + ripe[Owner[w]] /\ taken' = taken
    BY <2>o, <2>3, ReleaseAdds DEF Release, Inv, TypeOK
  <2>5. available' \in [Vendor -> Int] /\ available \in [Vendor -> Int] /\ taken \in [Vendor -> Nat]
        /\ \A g \in Handler : task[g].cents \in Nat
    BY <2>o, <2>3, ReleaseAdds DEF Inv, TypeOK, Task
  <2>6. status[w] = "NONE"
    BY <1>1 DEF Request
  <2> QED
    BY <1>1, <2>o, <2>1, <2>2, <2>4, <2>5, <2>6 DEF Request, rowVars, providerVars, Inv, TaskFacts
<1>2. ASSUME NEW h \in Handler, PlaceHold(h) PROVE TaskFacts'
  BY <1>2 DEF PlaceHold, SetStatus, providerVars, Inv, TypeOK, TaskFacts, Alone, Unsent, Claimed, Goto, Idle
<1>3. ASSUME NEW h \in Handler, NEW w \in Withdrawal, ReadForApproval(h, w) PROVE TaskFacts'
  BY <1>3 DEF ReadForApproval, rowVars, providerVars, balanceVars, Inv, TypeOK, TaskFacts, Alone, Unsent, Claimed, Goto, Idle
<1>4. ASSUME NEW h \in Handler, NEW w \in Withdrawal, ReadForPayment(h, w) PROVE TaskFacts'
  <2>1. /\ task'[h].pc \in {"checkPay", "pay"} /\ task'[h].w = w
        /\ \A g \in Handler \ {h} : task'[g] = task[g]
    BY <1>4, PaymentStarts
  <2> QED
    BY <1>4, <2>1 DEF ReadForPayment, rowVars, providerVars, balanceVars, Inv, TaskFacts
<1>5. ASSUME NEW h \in Handler, CheckBalance(h) PROVE TaskFacts'
  <2>o. \A x \in Withdrawal : Owner[x] \in Vendor
    BY WithdrawalsAssumption
  <2>1. /\ task'[h].pc \in {"idle", "pay", "approve", "claim", "recipient"}
        /\ task'[h].pc # "idle" => task'[h].w = task[h].w
        /\ \A g \in Handler \ {h} : task'[g] = task[g]
        /\ Release(Owner[task[h].w]) /\ Owner[task[h].w] \in Vendor /\ task[h].w \in Withdrawal
    BY <1>5, CheckGoesOn
  <2>2. (\A v \in Vendor : available'[v] >= available[v]) /\ taken' = taken
    BY <2>1, ReleaseAdds DEF Release, Inv
  <2>3. available' \in [Vendor -> Int] /\ available \in [Vendor -> Int] /\ taken \in [Vendor -> Nat]
        /\ \A g \in Handler : task[g].cents \in Nat
    BY <2>1, ReleaseAdds DEF Inv, TypeOK, Task
  <2> QED
    BY <1>5, <2>o, <2>1, <2>2, <2>3 DEF CheckBalance, rowVars, providerVars, Inv, TaskFacts
<1>6. ASSUME NEW h \in Handler, ApproveManual(h) PROVE TaskFacts'
  BY <1>6 DEF ApproveManual, MovesFrom, SetStatus, providerVars, balanceVars, Inv, TypeOK, TaskFacts, Alone, Unsent, Claimed, Goto, Idle
<1>7. ASSUME NEW h \in Handler, StoreRecipient(h) PROVE TaskFacts'
  BY <1>7 DEF StoreRecipient, rowVars, balanceVars, Inv, TypeOK, TaskFacts, Alone, Unsent, Claimed, Goto, Idle
<1>8. ASSUME NEW h \in Handler, ClaimTransfer(h) PROVE TaskFacts'
  <2>1. task[h] \in Task /\ task[h].w \in Withdrawal
    BY <1>8 DEF ClaimTransfer, Inv, TypeOK, TaskFacts
  <2>2. CASE status[task[h].w] = "REQUESTED"
    <3>1. /\ task'[h].pc = "transfer" /\ task'[h].w = task[h].w
          /\ \A g \in Handler \ {h} : task'[g] = task[g]
      BY <1>8, <2>2, ClaimGoesOn
    <3>2. /\ status' = [status EXCEPT ![task[h].w] = "APPROVED"]
          /\ transfer[task[h].w] = "none" /\ calls[task[h].w] = 0
          /\ reference[task[h].w] # "transfer"
      BY <1>8, <2>1, <2>2 DEF ClaimTransfer, MovesFrom, SetStatus, Inv, Unsent
    <3> QED
      BY <1>8, <2>1, <2>2, <3>1, <3>2
      DEF ClaimTransfer, providerVars, balanceVars, Inv, TypeOK, TaskFacts
  <2>3. CASE status[task[h].w] # "REQUESTED"
    <3>1. task'[h].pc = "idle" /\ status' = status /\ \A g \in Handler \ {h} : task'[g] = task[g]
      BY <1>8, <2>3, ClaimGoesOn
    <3> QED
      BY <1>8, <3>1 DEF ClaimTransfer, providerVars, balanceVars, Inv, TaskFacts
  <2> QED
    BY <2>2, <2>3
<1>9. ASSUME NEW h \in Handler, TransferAnswers(h) PROVE TaskFacts'
  BY <1>9 DEF TransferAnswers, rowVars, balanceVars, Inv, TypeOK, TaskFacts, Alone, Unsent, Claimed, Goto, Idle
<1>10. ASSUME NEW h \in Handler, TransferThrows(h) PROVE TaskFacts'
  BY <1>10 DEF TransferThrows, rowVars, providerVars, balanceVars, Inv, TypeOK, TaskFacts, Alone, Unsent, Claimed, Goto, Idle
<1>11. ASSUME NEW h \in Handler, RecordTransfer(h) PROVE TaskFacts'
  <2>1. task[h] \in Task /\ task[h].w \in Withdrawal
    BY <1>11 DEF RecordTransfer, Inv, TypeOK, TaskFacts
  <2>2. /\ task'[h].pc = "idle" \/ (task'[h].pc = "fail" /\ task[h].result = "failed")
        /\ task'[h].pc = "fail" => task'[h].w = task[h].w
        /\ \A g \in Handler \ {h} : task'[g] = task[g]
    BY <1>11, RecordGoesOn
  <2>3. \A g \in Handler \ {h} : task[g].pc \in {"transfer", "record"} => task[g].w # task[h].w
    BY <1>11 DEF RecordTransfer, Inv, Alone, Claimed
  <2>4. /\ \A x \in Withdrawal : x # task[h].w => status'[x] = status[x] /\ reference'[x] = reference[x]
        /\ status'[task[h].w] \in {"APPROVED", "PAID"} /\ status[task[h].w] \in {"APPROVED", "PAID"}
        /\ task[h].result = "failed" => transfer[task[h].w] = "failed"
    BY <1>11, <2>1 DEF RecordTransfer, Inv, TypeOK, TaskFacts
  <2> QED
    BY <1>11, <2>1, <2>2, <2>3, <2>4
    DEF RecordTransfer, providerVars, balanceVars, Inv, TypeOK, TaskFacts
<1>12. ASSUME NEW h \in Handler, FailTransfer(h) PROVE TaskFacts'
  <2>o. \A x \in Withdrawal : Owner[x] \in Vendor
    BY WithdrawalsAssumption
  <2>1. task[h].w \in Withdrawal /\ task[h].pc = "fail"
    BY <1>12 DEF FailTransfer, Inv, TaskFacts
  <2>2. CASE UNCHANGED <<rowVars, balanceVars>>
    <3>1. task'[h].pc = "idle" /\ \A g \in Handler \ {h} : task'[g] = task[g]
      BY <1>12, MovedIdle DEF FailTransfer, Inv
    <3> QED
      BY <1>12, <2>2, <3>1 DEF FailTransfer, rowVars, providerVars, balanceVars, Inv, TaskFacts
  <2>3. CASE GiveBack(task[h].w, "FAILED") /\ status[task[h].w] = "APPROVED"
    <3>1. (\A v \in Vendor : available'[v] >= available[v]) /\ taken' = taken
      BY <2>1, <2>3, GivenBack DEF GiveBack, Status, Inv
    <3>2. available' \in [Vendor -> Int] /\ available \in [Vendor -> Int] /\ taken \in [Vendor -> Nat]
          /\ \A g \in Handler : task[g].cents \in Nat
      BY <2>1, <2>3, GivenBack DEF Status, Inv, TypeOK, Task
    <3>3. \A g \in Handler \ {h} : task[g].pc \in {"transfer", "record"} => task[g].w # task[h].w
      BY <2>1 DEF Inv, Alone, Claimed
    <3>4. task'[h].pc = "idle" /\ \A g \in Handler \ {h} : task'[g] = task[g]
      BY <1>12, MovedIdle DEF FailTransfer, Inv
    <3> QED
      BY <1>12, <2>o, <2>1, <2>3, <3>1, <3>2, <3>3, <3>4
      DEF FailTransfer, GiveBack, SetStatus, providerVars, Inv, TypeOK, TaskFacts
  <2> QED
    BY <1>12, <2>2, <2>3 DEF FailTransfer, MarkFailed
<1>13. ASSUME NEW h \in Handler, MarkPaid(h) PROVE TaskFacts'
  BY <1>13 DEF MarkPaid, MovesFrom, OPEN_STATUSES, SetStatus, providerVars, balanceVars, Inv, TypeOK, TaskFacts, Alone, Unsent, Claimed, Goto, Idle
<1>14. ASSUME NEW w \in Withdrawal, Reject(w) PROVE TaskFacts'
  <2>o. \A x \in Withdrawal : Owner[x] \in Vendor
    BY WithdrawalsAssumption
  <2>1. GiveBack(w, "REJECTED") /\ "REJECTED" \in Status /\ status[w] = "REQUESTED"
    BY <1>14 DEF Reject, Status
  <2>2. (\A v \in Vendor : available'[v] >= available[v]) /\ taken' = taken
    BY <2>1, GivenBack DEF GiveBack, Inv
  <2>3. available' \in [Vendor -> Int] /\ available \in [Vendor -> Int] /\ taken \in [Vendor -> Nat]
        /\ \A g \in Handler : task[g].cents \in Nat
    BY <2>1, GivenBack DEF Inv, TypeOK, Task
  <2> QED
    BY <1>14, <2>o, <2>1, <2>2, <2>3
    DEF Reject, GiveBack, SetStatus, providerVars, Inv, TypeOK, TaskFacts
<1>15. ASSUME NEW w \in Withdrawal, ProviderSettles(w) PROVE TaskFacts'
  BY <1>15 DEF ProviderSettles, rowVars, balanceVars, Inv, TypeOK, TaskFacts, Alone, Unsent, Claimed, Goto, Idle
<1>16. ASSUME NEW w \in Withdrawal, TransferWebhook(w) PROVE TaskFacts'
  <2>o. \A x \in Withdrawal : Owner[x] \in Vendor
    BY WithdrawalsAssumption
  <2>1. CASE UNCHANGED <<rowVars, balanceVars>>
    BY <1>16, <2>1 DEF TransferWebhook, rowVars, balanceVars, Inv, TypeOK, TaskFacts
  <2>2. CASE /\ reference[w] = "transfer" /\ transfer[w] = "paid"
             /\ status' = (IF status[w] = "APPROVED" THEN [status EXCEPT ![w] = "PAID"] ELSE status)
             /\ UNCHANGED <<reference, balanceVars>>
    BY <1>16, <2>2 DEF TransferWebhook, balanceVars, Inv, TypeOK, TaskFacts
  <2>3. CASE /\ reference[w] = "transfer" /\ transfer[w] = "failed"
             /\ GiveBack(w, "FAILED") /\ status[w] = "APPROVED"
    <3>1. (\A v \in Vendor : available'[v] >= available[v]) /\ taken' = taken
      BY <2>3, GivenBack DEF GiveBack, Status, Inv
    <3>2. available' \in [Vendor -> Int] /\ available \in [Vendor -> Int] /\ taken \in [Vendor -> Nat]
          /\ \A g \in Handler : task[g].cents \in Nat
      BY <2>3, GivenBack DEF Status, Inv, TypeOK, Task
    <3> QED
      BY <1>16, <2>o, <2>3, <3>1, <3>2
      DEF TransferWebhook, GiveBack, SetStatus, Inv, TypeOK, TaskFacts
  <2> QED
    BY <1>16, <2>1, <2>2, <2>3 DEF TransferWebhook, MarkFailed, SetStatus
<1>17. ASSUME NEW w \in Withdrawal, WeekPasses(w) PROVE TaskFacts'
  BY <1>17 DEF WeekPasses, providerVars, balanceVars, Inv, TypeOK, TaskFacts, Alone, Unsent, Claimed, Goto, Idle
<1>18. ASSUME NEW v \in Vendor, Credit(v) PROVE TaskFacts'
  <2>o. \A x \in Withdrawal : Owner[x] \in Vendor
    BY WithdrawalsAssumption
  <2>1. (\A u \in Vendor : available'[u] >= available[u]) /\ taken' = taken
    BY <1>18 DEF Credit, Inv, TypeOK
  <2>2. available' \in [Vendor -> Int] /\ available \in [Vendor -> Int] /\ taken \in [Vendor -> Nat]
        /\ \A g \in Handler : task[g].cents \in Nat
    BY <1>18 DEF Credit, Inv, TypeOK, Task
  <2> QED
    BY <1>18, <2>o, <2>1, <2>2 DEF Credit, rowVars, providerVars, Inv, TaskFacts
<1>19. ASSUME NEW v \in Vendor, Mature(v) PROVE TaskFacts'
  BY <1>19 DEF Mature, rowVars, providerVars, Inv, TypeOK, TaskFacts, Alone, Unsent, Claimed, Goto, Idle
<1>20. ASSUME NEW v \in Vendor, RefundOnHold(v) PROVE TaskFacts'
  BY <1>20 DEF RefundOnHold, rowVars, providerVars, Inv, TypeOK, TaskFacts, Alone, Unsent, Claimed, Goto, Idle
<1>21. ASSUME NEW v \in Vendor, Debit(v) PROVE TaskFacts'
  BY <1>21 DEF Debit, rowVars, providerVars, Inv, TypeOK, TaskFacts, Alone, Unsent, Claimed, Goto, Idle
<1>22. ASSUME ReleaseMatured PROVE TaskFacts'
  <2>o. \A x \in Withdrawal : Owner[x] \in Vendor
    BY WithdrawalsAssumption
  <2>1. (\A v \in Vendor : available'[v] >= available[v]) /\ taken' = taken
    BY <1>22 DEF ReleaseMatured, Inv, TypeOK
  <2>2. available' \in [Vendor -> Int] /\ available \in [Vendor -> Int] /\ taken \in [Vendor -> Nat]
        /\ \A g \in Handler : task[g].cents \in Nat
    BY <1>22 DEF ReleaseMatured, Inv, TypeOK, Task
  <2> QED
    BY <1>22, <2>o, <2>1, <2>2 DEF ReleaseMatured, rowVars, providerVars, Inv, TaskFacts
<1>23. ASSUME NEW h \in Handler, TaskFails(h) PROVE TaskFacts'
  BY <1>23 DEF TaskFails, rowVars, providerVars, balanceVars, Inv, TypeOK, TaskFacts, Alone, Unsent, Claimed, Goto, Idle
<1>24. ASSUME Crash PROVE TaskFacts'
  BY <1>24 DEF Crash, rowVars, providerVars, balanceVars, Inv, TypeOK, TaskFacts, Alone, Unsent, Claimed, Goto, Idle
<1>25. ASSUME UNCHANGED vars PROVE TaskFacts'
  BY <1>25 DEF vars, rowVars, providerVars, balanceVars, Inv, TypeOK, TaskFacts, Alone, Unsent, Claimed, Goto, Idle
<1> QED
  BY <1>1, <1>2, <1>3, <1>4, <1>5, <1>6, <1>7, <1>8, <1>9, <1>10, <1>11, <1>12, <1>13, <1>14, <1>15, <1>16, <1>17, <1>18, <1>19, <1>20, <1>21, <1>22, <1>23, <1>24, <1>25
  DEF Next, Step

\* Every step keeps the locks.
LEMMA AloneStep == ASSUME Inv, [Next]_vars PROVE Alone'
<1> USE DEF At, IsIdle, Done
<1>1. ASSUME NEW h \in Handler, NEW w \in Withdrawal, Request(h, w) PROVE Alone'
  BY <1>1 DEF Request, Release, MayWithdraw, rowVars, providerVars, Inv, TypeOK, TaskFacts, Alone, Claimed, Locked, Goto, Idle
<1>2. ASSUME NEW h \in Handler, PlaceHold(h) PROVE Alone'
  BY <1>2 DEF PlaceHold, SetStatus, providerVars, Inv, TypeOK, TaskFacts, Alone, Claimed, Locked, Goto, Idle
<1>3. ASSUME NEW h \in Handler, NEW w \in Withdrawal, ReadForApproval(h, w) PROVE Alone'
  BY <1>3 DEF ReadForApproval, rowVars, providerVars, balanceVars, Inv, TypeOK, TaskFacts, Alone, Claimed, Locked, Goto, Idle
<1>4. ASSUME NEW h \in Handler, NEW w \in Withdrawal, ReadForPayment(h, w) PROVE Alone'
  <2>1. /\ task'[h].pc \in {"checkPay", "pay"} /\ task'[h].w = w
        /\ \A g \in Handler \ {h} : task'[g] = task[g]
    BY <1>4, PaymentStarts
  <2> QED
    BY <2>1 DEF Inv, Alone, Claimed
<1>5. ASSUME NEW h \in Handler, CheckBalance(h) PROVE Alone'
  <2>1. /\ task'[h].pc \in {"idle", "pay", "approve", "claim", "recipient"}
        /\ \A g \in Handler \ {h} : task'[g] = task[g]
    BY <1>5, CheckGoesOn
  <2> QED
    BY <2>1 DEF Inv, Alone, Claimed
<1>6. ASSUME NEW h \in Handler, ApproveManual(h) PROVE Alone'
  BY <1>6 DEF ApproveManual, MovesFrom, SetStatus, providerVars, balanceVars, Inv, TypeOK, TaskFacts, Alone, Claimed, Locked, Goto, Idle
<1>7. ASSUME NEW h \in Handler, StoreRecipient(h) PROVE Alone'
  BY <1>7 DEF StoreRecipient, rowVars, balanceVars, Inv, TypeOK, TaskFacts, Alone, Claimed, Locked, Goto, Idle
<1>8. ASSUME NEW h \in Handler, ClaimTransfer(h) PROVE Alone'
  <2>1. task[h] \in Task /\ task[h].w \in Withdrawal
    BY <1>8 DEF ClaimTransfer, Inv, TypeOK, TaskFacts
  <2>2. CASE status[task[h].w] = "REQUESTED"
    <3>1. /\ task'[h].pc = "transfer" /\ task'[h].w = task[h].w
          /\ \A g \in Handler \ {h} : task'[g] = task[g]
      BY <1>8, <2>2, ClaimGoesOn
    <3>2. \A g \in Handler : task[g].pc \in Claimed => task[g].w # task[h].w
      BY <2>2 DEF Inv, TaskFacts, Claimed
    <3> QED
      BY <3>1, <3>2 DEF Inv, Alone, Claimed
  <2>3. CASE status[task[h].w] # "REQUESTED"
    <3>1. task'[h].pc = "idle" /\ \A g \in Handler \ {h} : task'[g] = task[g]
      BY <1>8, <2>3, ClaimGoesOn
    <3> QED
      BY <3>1 DEF Inv, Alone, Claimed
  <2> QED
    BY <2>2, <2>3
<1>9. ASSUME NEW h \in Handler, TransferAnswers(h) PROVE Alone'
  BY <1>9 DEF TransferAnswers, rowVars, balanceVars, Inv, TypeOK, TaskFacts, Alone, Claimed, Locked, Goto, Idle
<1>10. ASSUME NEW h \in Handler, TransferThrows(h) PROVE Alone'
  BY <1>10 DEF TransferThrows, rowVars, providerVars, balanceVars, Inv, TypeOK, TaskFacts, Alone, Claimed, Locked, Goto, Idle
<1>11. ASSUME NEW h \in Handler, RecordTransfer(h) PROVE Alone'
  <2>1. task[h] \in Task /\ task[h].w \in Withdrawal /\ task[h].pc = "record"
    BY <1>11 DEF RecordTransfer, Inv, TypeOK, TaskFacts
  <2>2. /\ task'[h].pc \in {"idle", "fail"} /\ (task'[h].pc = "fail" => task'[h].w = task[h].w)
        /\ \A g \in Handler \ {h} : task'[g] = task[g]
    BY <1>11, RecordGoesOn
  <2> QED
    BY <2>1, <2>2 DEF Inv, Alone, Claimed
<1>12. ASSUME NEW h \in Handler, FailTransfer(h) PROVE Alone'
  BY <1>12 DEF FailTransfer, MarkFailed, GiveBack, SetStatus, rowVars, providerVars, balanceVars, Inv, TypeOK, TaskFacts, Alone, Claimed, Locked, Goto, Idle
<1>13. ASSUME NEW h \in Handler, MarkPaid(h) PROVE Alone'
  BY <1>13 DEF MarkPaid, MovesFrom, OPEN_STATUSES, SetStatus, providerVars, balanceVars, Inv, TypeOK, TaskFacts, Alone, Claimed, Locked, Goto, Idle
<1>14. ASSUME NEW w \in Withdrawal, Reject(w) PROVE Alone'
  BY <1>14 DEF Reject, GiveBack, SetStatus, providerVars, Inv, TypeOK, TaskFacts, Alone, Claimed, Locked, Goto, Idle
<1>15. ASSUME NEW w \in Withdrawal, ProviderSettles(w) PROVE Alone'
  BY <1>15 DEF ProviderSettles, rowVars, balanceVars, Inv, TypeOK, TaskFacts, Alone, Claimed, Locked, Goto, Idle
<1>16. ASSUME NEW w \in Withdrawal, TransferWebhook(w) PROVE Alone'
  BY <1>16 DEF TransferWebhook, MarkFailed, GiveBack, SetStatus, rowVars, balanceVars, Inv, TypeOK, TaskFacts, Alone, Claimed, Locked, Goto, Idle
<1>17. ASSUME NEW w \in Withdrawal, WeekPasses(w) PROVE Alone'
  BY <1>17 DEF WeekPasses, providerVars, balanceVars, Inv, TypeOK, TaskFacts, Alone, Claimed, Locked, Goto, Idle
<1>18. ASSUME NEW v \in Vendor, Credit(v) PROVE Alone'
  BY <1>18 DEF Credit, rowVars, providerVars, Inv, TypeOK, TaskFacts, Alone, Claimed, Locked, Goto, Idle
<1>19. ASSUME NEW v \in Vendor, Mature(v) PROVE Alone'
  BY <1>19 DEF Mature, rowVars, providerVars, Inv, TypeOK, TaskFacts, Alone, Claimed, Locked, Goto, Idle
<1>20. ASSUME NEW v \in Vendor, RefundOnHold(v) PROVE Alone'
  BY <1>20 DEF RefundOnHold, rowVars, providerVars, Inv, TypeOK, TaskFacts, Alone, Claimed, Locked, Goto, Idle
<1>21. ASSUME NEW v \in Vendor, Debit(v) PROVE Alone'
  BY <1>21 DEF Debit, rowVars, providerVars, Inv, TypeOK, TaskFacts, Alone, Claimed, Locked, Goto, Idle
<1>22. ASSUME ReleaseMatured PROVE Alone'
  BY <1>22 DEF ReleaseMatured, rowVars, providerVars, Inv, TypeOK, TaskFacts, Alone, Claimed, Locked, Goto, Idle
<1>23. ASSUME NEW h \in Handler, TaskFails(h) PROVE Alone'
  BY <1>23 DEF TaskFails, rowVars, providerVars, balanceVars, Inv, TypeOK, TaskFacts, Alone, Claimed, Locked, Goto, Idle
<1>24. ASSUME Crash PROVE Alone'
  BY <1>24 DEF Crash, rowVars, providerVars, balanceVars, Inv, TypeOK, TaskFacts, Alone, Claimed, Locked, Goto, Idle
<1>25. ASSUME UNCHANGED vars PROVE Alone'
  BY <1>25 DEF vars, rowVars, providerVars, balanceVars, Inv, TypeOK, TaskFacts, Alone, Claimed, Locked, Goto, Idle
<1> QED
  BY <1>1, <1>2, <1>3, <1>4, <1>5, <1>6, <1>7, <1>8, <1>9, <1>10, <1>11, <1>12, <1>13, <1>14, <1>15, <1>16, <1>17, <1>18, <1>19, <1>20, <1>21, <1>22, <1>23, <1>24, <1>25
  DEF Next, Step

\* Every step keeps unapproved withdrawals unsent.
LEMMA UnsentStep == ASSUME Inv, [Next]_vars PROVE Unsent'
<1> USE DEF At, IsIdle, Done
<1>1. ASSUME NEW h \in Handler, NEW w \in Withdrawal, Request(h, w) PROVE Unsent'
  BY <1>1 DEF Request, Release, MayWithdraw, rowVars, providerVars, Inv, TypeOK, TaskFacts, Unsent, Goto, Idle
<1>2. ASSUME NEW h \in Handler, PlaceHold(h) PROVE Unsent'
  BY <1>2 DEF PlaceHold, SetStatus, providerVars, Inv, TypeOK, TaskFacts, Unsent, Goto, Idle
<1>3. ASSUME NEW h \in Handler, NEW w \in Withdrawal, ReadForApproval(h, w) PROVE Unsent'
  BY <1>3 DEF ReadForApproval, rowVars, providerVars, balanceVars, Inv, TypeOK, TaskFacts, Unsent, Goto, Idle
<1>4. ASSUME NEW h \in Handler, NEW w \in Withdrawal, ReadForPayment(h, w) PROVE Unsent'
  BY <1>4 DEF ReadForPayment, rowVars, providerVars, balanceVars, Inv, TypeOK, TaskFacts, Unsent, Goto, Idle
<1>5. ASSUME NEW h \in Handler, CheckBalance(h) PROVE Unsent'
  BY <1>5 DEF CheckBalance, Release, AfterCheck, rowVars, providerVars, Inv, TypeOK, TaskFacts, Unsent, Goto, Idle
<1>6. ASSUME NEW h \in Handler, ApproveManual(h) PROVE Unsent'
  BY <1>6 DEF ApproveManual, MovesFrom, SetStatus, providerVars, balanceVars, Inv, TypeOK, TaskFacts, Unsent, Goto, Idle
<1>7. ASSUME NEW h \in Handler, StoreRecipient(h) PROVE Unsent'
  BY <1>7 DEF StoreRecipient, rowVars, balanceVars, Inv, TypeOK, TaskFacts, Unsent, Goto, Idle
<1>8. ASSUME NEW h \in Handler, ClaimTransfer(h) PROVE Unsent'
  BY <1>8 DEF ClaimTransfer, MovesFrom, SetStatus, providerVars, balanceVars, Inv, TypeOK, TaskFacts, Unsent, Goto, Idle
<1>9. ASSUME NEW h \in Handler, TransferAnswers(h) PROVE Unsent'
  BY <1>9 DEF TransferAnswers, rowVars, balanceVars, Inv, TypeOK, TaskFacts, Unsent, Goto, Idle
<1>10. ASSUME NEW h \in Handler, TransferThrows(h) PROVE Unsent'
  BY <1>10 DEF TransferThrows, rowVars, providerVars, balanceVars, Inv, TypeOK, TaskFacts, Unsent, Goto, Idle
<1>11. ASSUME NEW h \in Handler, RecordTransfer(h) PROVE Unsent'
  BY <1>11 DEF RecordTransfer, ReportsFailure, providerVars, balanceVars, Inv, TypeOK, TaskFacts, Unsent, Goto, Idle
<1>12. ASSUME NEW h \in Handler, FailTransfer(h) PROVE Unsent'
  BY <1>12 DEF FailTransfer, MarkFailed, GiveBack, SetStatus, rowVars, providerVars, balanceVars, Inv, TypeOK, TaskFacts, Unsent, Goto, Idle
<1>13. ASSUME NEW h \in Handler, MarkPaid(h) PROVE Unsent'
  BY <1>13 DEF MarkPaid, MovesFrom, OPEN_STATUSES, SetStatus, providerVars, balanceVars, Inv, TypeOK, TaskFacts, Unsent, Goto, Idle
<1>14. ASSUME NEW w \in Withdrawal, Reject(w) PROVE Unsent'
  BY <1>14 DEF Reject, GiveBack, SetStatus, providerVars, Inv, TypeOK, TaskFacts, Unsent, Goto, Idle
<1>15. ASSUME NEW w \in Withdrawal, ProviderSettles(w) PROVE Unsent'
  BY <1>15 DEF ProviderSettles, rowVars, balanceVars, Inv, TypeOK, TaskFacts, Unsent, Goto, Idle
<1>16. ASSUME NEW w \in Withdrawal, TransferWebhook(w) PROVE Unsent'
  BY <1>16 DEF TransferWebhook, MarkFailed, GiveBack, SetStatus, rowVars, balanceVars, Inv, TypeOK, TaskFacts, Unsent, Goto, Idle
<1>17. ASSUME NEW w \in Withdrawal, WeekPasses(w) PROVE Unsent'
  BY <1>17 DEF WeekPasses, providerVars, balanceVars, Inv, TypeOK, TaskFacts, Unsent, Goto, Idle
<1>18. ASSUME NEW v \in Vendor, Credit(v) PROVE Unsent'
  BY <1>18 DEF Credit, rowVars, providerVars, Inv, TypeOK, TaskFacts, Unsent, Goto, Idle
<1>19. ASSUME NEW v \in Vendor, Mature(v) PROVE Unsent'
  BY <1>19 DEF Mature, rowVars, providerVars, Inv, TypeOK, TaskFacts, Unsent, Goto, Idle
<1>20. ASSUME NEW v \in Vendor, RefundOnHold(v) PROVE Unsent'
  BY <1>20 DEF RefundOnHold, rowVars, providerVars, Inv, TypeOK, TaskFacts, Unsent, Goto, Idle
<1>21. ASSUME NEW v \in Vendor, Debit(v) PROVE Unsent'
  BY <1>21 DEF Debit, rowVars, providerVars, Inv, TypeOK, TaskFacts, Unsent, Goto, Idle
<1>22. ASSUME ReleaseMatured PROVE Unsent'
  BY <1>22 DEF ReleaseMatured, rowVars, providerVars, Inv, TypeOK, TaskFacts, Unsent, Goto, Idle
<1>23. ASSUME NEW h \in Handler, TaskFails(h) PROVE Unsent'
  BY <1>23 DEF TaskFails, rowVars, providerVars, balanceVars, Inv, TypeOK, TaskFacts, Unsent, Goto, Idle
<1>24. ASSUME Crash PROVE Unsent'
  BY <1>24 DEF Crash, rowVars, providerVars, balanceVars, Inv, TypeOK, TaskFacts, Unsent, Goto, Idle
<1>25. ASSUME UNCHANGED vars PROVE Unsent'
  BY <1>25 DEF vars, rowVars, providerVars, balanceVars, Inv, TypeOK, TaskFacts, Unsent, Goto, Idle
<1> QED
  BY <1>1, <1>2, <1>3, <1>4, <1>5, <1>6, <1>7, <1>8, <1>9, <1>10, <1>11, <1>12, <1>13, <1>14, <1>15, <1>16, <1>17, <1>18, <1>19, <1>20, <1>21, <1>22, <1>23, <1>24, <1>25
  DEF Next, Step

\* Every step returns a hold exactly when the withdrawal is rejected or failed.
LEMMA HoldStep == ASSUME Inv, [Next]_vars PROVE HoldReturnedOnce'
<1> USE DEF At, IsIdle, Done
<1>1. ASSUME NEW h \in Handler, NEW w \in Withdrawal, Request(h, w) PROVE HoldReturnedOnce'
  BY <1>1 DEF Request, Release, MayWithdraw, rowVars, providerVars, Inv, TypeOK, TaskFacts, HoldReturnedOnce, Returned, Goto, Idle
<1>2. ASSUME NEW h \in Handler, PlaceHold(h) PROVE HoldReturnedOnce'
  BY <1>2 DEF PlaceHold, SetStatus, providerVars, Inv, TypeOK, TaskFacts, HoldReturnedOnce, Returned, Goto, Idle
<1>3. ASSUME NEW h \in Handler, NEW w \in Withdrawal, ReadForApproval(h, w) PROVE HoldReturnedOnce'
  BY <1>3 DEF ReadForApproval, rowVars, providerVars, balanceVars, Inv, TypeOK, TaskFacts, HoldReturnedOnce, Returned, Goto, Idle
<1>4. ASSUME NEW h \in Handler, NEW w \in Withdrawal, ReadForPayment(h, w) PROVE HoldReturnedOnce'
  BY <1>4 DEF ReadForPayment, rowVars, providerVars, balanceVars, Inv, TypeOK, TaskFacts, HoldReturnedOnce, Returned, Goto, Idle
<1>5. ASSUME NEW h \in Handler, CheckBalance(h) PROVE HoldReturnedOnce'
  BY <1>5 DEF CheckBalance, Release, AfterCheck, rowVars, providerVars, Inv, TypeOK, TaskFacts, HoldReturnedOnce, Returned, Goto, Idle
<1>6. ASSUME NEW h \in Handler, ApproveManual(h) PROVE HoldReturnedOnce'
  BY <1>6 DEF ApproveManual, MovesFrom, SetStatus, providerVars, balanceVars, Inv, TypeOK, TaskFacts, HoldReturnedOnce, Returned, Goto, Idle
<1>7. ASSUME NEW h \in Handler, StoreRecipient(h) PROVE HoldReturnedOnce'
  BY <1>7 DEF StoreRecipient, rowVars, balanceVars, Inv, TypeOK, TaskFacts, HoldReturnedOnce, Returned, Goto, Idle
<1>8. ASSUME NEW h \in Handler, ClaimTransfer(h) PROVE HoldReturnedOnce'
  BY <1>8 DEF ClaimTransfer, MovesFrom, SetStatus, providerVars, balanceVars, Inv, TypeOK, TaskFacts, HoldReturnedOnce, Returned, Goto, Idle
<1>9. ASSUME NEW h \in Handler, TransferAnswers(h) PROVE HoldReturnedOnce'
  BY <1>9 DEF TransferAnswers, rowVars, balanceVars, Inv, TypeOK, TaskFacts, HoldReturnedOnce, Returned, Goto, Idle
<1>10. ASSUME NEW h \in Handler, TransferThrows(h) PROVE HoldReturnedOnce'
  BY <1>10 DEF TransferThrows, rowVars, providerVars, balanceVars, Inv, TypeOK, TaskFacts, HoldReturnedOnce, Returned, Goto, Idle
<1>11. ASSUME NEW h \in Handler, RecordTransfer(h) PROVE HoldReturnedOnce'
  BY <1>11 DEF RecordTransfer, ReportsFailure, providerVars, balanceVars, Inv, TypeOK, TaskFacts, HoldReturnedOnce, Returned, Goto, Idle
<1>12. ASSUME NEW h \in Handler, FailTransfer(h) PROVE HoldReturnedOnce'
  BY <1>12 DEF FailTransfer, MarkFailed, GiveBack, SetStatus, rowVars, providerVars, balanceVars, Inv, TypeOK, TaskFacts, HoldReturnedOnce, Returned, Goto, Idle
<1>13. ASSUME NEW h \in Handler, MarkPaid(h) PROVE HoldReturnedOnce'
  BY <1>13 DEF MarkPaid, MovesFrom, OPEN_STATUSES, SetStatus, providerVars, balanceVars, Inv, TypeOK, TaskFacts, HoldReturnedOnce, Returned, Goto, Idle
<1>14. ASSUME NEW w \in Withdrawal, Reject(w) PROVE HoldReturnedOnce'
  BY <1>14 DEF Reject, GiveBack, SetStatus, providerVars, Inv, TypeOK, TaskFacts, HoldReturnedOnce, Returned, Goto, Idle
<1>15. ASSUME NEW w \in Withdrawal, ProviderSettles(w) PROVE HoldReturnedOnce'
  BY <1>15 DEF ProviderSettles, rowVars, balanceVars, Inv, TypeOK, TaskFacts, HoldReturnedOnce, Returned, Goto, Idle
<1>16. ASSUME NEW w \in Withdrawal, TransferWebhook(w) PROVE HoldReturnedOnce'
  BY <1>16 DEF TransferWebhook, MarkFailed, GiveBack, SetStatus, rowVars, balanceVars, Inv, TypeOK, TaskFacts, HoldReturnedOnce, Returned, Goto, Idle
<1>17. ASSUME NEW w \in Withdrawal, WeekPasses(w) PROVE HoldReturnedOnce'
  BY <1>17 DEF WeekPasses, providerVars, balanceVars, Inv, TypeOK, TaskFacts, HoldReturnedOnce, Returned, Goto, Idle
<1>18. ASSUME NEW v \in Vendor, Credit(v) PROVE HoldReturnedOnce'
  BY <1>18 DEF Credit, rowVars, providerVars, Inv, TypeOK, TaskFacts, HoldReturnedOnce, Returned, Goto, Idle
<1>19. ASSUME NEW v \in Vendor, Mature(v) PROVE HoldReturnedOnce'
  BY <1>19 DEF Mature, rowVars, providerVars, Inv, TypeOK, TaskFacts, HoldReturnedOnce, Returned, Goto, Idle
<1>20. ASSUME NEW v \in Vendor, RefundOnHold(v) PROVE HoldReturnedOnce'
  BY <1>20 DEF RefundOnHold, rowVars, providerVars, Inv, TypeOK, TaskFacts, HoldReturnedOnce, Returned, Goto, Idle
<1>21. ASSUME NEW v \in Vendor, Debit(v) PROVE HoldReturnedOnce'
  BY <1>21 DEF Debit, rowVars, providerVars, Inv, TypeOK, TaskFacts, HoldReturnedOnce, Returned, Goto, Idle
<1>22. ASSUME ReleaseMatured PROVE HoldReturnedOnce'
  BY <1>22 DEF ReleaseMatured, rowVars, providerVars, Inv, TypeOK, TaskFacts, HoldReturnedOnce, Returned, Goto, Idle
<1>23. ASSUME NEW h \in Handler, TaskFails(h) PROVE HoldReturnedOnce'
  BY <1>23 DEF TaskFails, rowVars, providerVars, balanceVars, Inv, TypeOK, TaskFacts, HoldReturnedOnce, Returned, Goto, Idle
<1>24. ASSUME Crash PROVE HoldReturnedOnce'
  BY <1>24 DEF Crash, rowVars, providerVars, balanceVars, Inv, TypeOK, TaskFacts, HoldReturnedOnce, Returned, Goto, Idle
<1>25. ASSUME UNCHANGED vars PROVE HoldReturnedOnce'
  BY <1>25 DEF vars, rowVars, providerVars, balanceVars, Inv, TypeOK, TaskFacts, HoldReturnedOnce, Returned, Goto, Idle
<1> QED
  BY <1>1, <1>2, <1>3, <1>4, <1>5, <1>6, <1>7, <1>8, <1>9, <1>10, <1>11, <1>12, <1>13, <1>14, <1>15, <1>16, <1>17, <1>18, <1>19, <1>20, <1>21, <1>22, <1>23, <1>24, <1>25
  DEF Next, Step

\* Every step keeps transfers single, and holds of sent transfers in place.
LEMMA SentStep == ASSUME Inv, [Next]_vars PROVE TransferredOnce' /\ ReturnedOnlyIfNotSent'
<1> USE DEF At, IsIdle, Done
<1>1. ASSUME NEW h \in Handler, NEW w \in Withdrawal, Request(h, w) PROVE TransferredOnce' /\ ReturnedOnlyIfNotSent'
  BY <1>1 DEF Request, Release, MayWithdraw, rowVars, providerVars, Inv, TypeOK, TaskFacts, Unsent, TransferredOnce, ReturnedOnlyIfNotSent, Returned, Goto, Idle
<1>2. ASSUME NEW h \in Handler, PlaceHold(h) PROVE TransferredOnce' /\ ReturnedOnlyIfNotSent'
  BY <1>2 DEF PlaceHold, SetStatus, providerVars, Inv, TypeOK, TaskFacts, Unsent, TransferredOnce, ReturnedOnlyIfNotSent, Returned, Goto, Idle
<1>3. ASSUME NEW h \in Handler, NEW w \in Withdrawal, ReadForApproval(h, w) PROVE TransferredOnce' /\ ReturnedOnlyIfNotSent'
  BY <1>3 DEF ReadForApproval, rowVars, providerVars, balanceVars, Inv, TypeOK, TaskFacts, Unsent, TransferredOnce, ReturnedOnlyIfNotSent, Returned, Goto, Idle
<1>4. ASSUME NEW h \in Handler, NEW w \in Withdrawal, ReadForPayment(h, w) PROVE TransferredOnce' /\ ReturnedOnlyIfNotSent'
  BY <1>4 DEF ReadForPayment, rowVars, providerVars, balanceVars, Inv, TypeOK, TaskFacts, Unsent, TransferredOnce, ReturnedOnlyIfNotSent, Returned, Goto, Idle
<1>5. ASSUME NEW h \in Handler, CheckBalance(h) PROVE TransferredOnce' /\ ReturnedOnlyIfNotSent'
  BY <1>5 DEF CheckBalance, Release, AfterCheck, rowVars, providerVars, Inv, TypeOK, TaskFacts, Unsent, TransferredOnce, ReturnedOnlyIfNotSent, Returned, Goto, Idle
<1>6. ASSUME NEW h \in Handler, ApproveManual(h) PROVE TransferredOnce' /\ ReturnedOnlyIfNotSent'
  BY <1>6 DEF ApproveManual, MovesFrom, SetStatus, providerVars, balanceVars, Inv, TypeOK, TaskFacts, Unsent, TransferredOnce, ReturnedOnlyIfNotSent, Returned, Goto, Idle
<1>7. ASSUME NEW h \in Handler, StoreRecipient(h) PROVE TransferredOnce' /\ ReturnedOnlyIfNotSent'
  BY <1>7 DEF StoreRecipient, rowVars, balanceVars, Inv, TypeOK, TaskFacts, Unsent, TransferredOnce, ReturnedOnlyIfNotSent, Returned, Goto, Idle
<1>8. ASSUME NEW h \in Handler, ClaimTransfer(h) PROVE TransferredOnce' /\ ReturnedOnlyIfNotSent'
  BY <1>8 DEF ClaimTransfer, MovesFrom, SetStatus, providerVars, balanceVars, Inv, TypeOK, TaskFacts, Unsent, TransferredOnce, ReturnedOnlyIfNotSent, Returned, Goto, Idle
<1>9. ASSUME NEW h \in Handler, TransferAnswers(h) PROVE TransferredOnce' /\ ReturnedOnlyIfNotSent'
  BY <1>9 DEF TransferAnswers, rowVars, balanceVars, Inv, TypeOK, TaskFacts, Unsent, TransferredOnce, ReturnedOnlyIfNotSent, Returned, Goto, Idle
<1>10. ASSUME NEW h \in Handler, TransferThrows(h) PROVE TransferredOnce' /\ ReturnedOnlyIfNotSent'
  BY <1>10 DEF TransferThrows, rowVars, providerVars, balanceVars, Inv, TypeOK, TaskFacts, Unsent, TransferredOnce, ReturnedOnlyIfNotSent, Returned, Goto, Idle
<1>11. ASSUME NEW h \in Handler, RecordTransfer(h) PROVE TransferredOnce' /\ ReturnedOnlyIfNotSent'
  BY <1>11 DEF RecordTransfer, ReportsFailure, providerVars, balanceVars, Inv, TypeOK, TaskFacts, Unsent, TransferredOnce, ReturnedOnlyIfNotSent, Returned, Goto, Idle
<1>12. ASSUME NEW h \in Handler, FailTransfer(h) PROVE TransferredOnce' /\ ReturnedOnlyIfNotSent'
  BY <1>12 DEF FailTransfer, MarkFailed, GiveBack, SetStatus, rowVars, providerVars, balanceVars, Inv, TypeOK, TaskFacts, Unsent, TransferredOnce, ReturnedOnlyIfNotSent, Returned, Goto, Idle
<1>13. ASSUME NEW h \in Handler, MarkPaid(h) PROVE TransferredOnce' /\ ReturnedOnlyIfNotSent'
  BY <1>13 DEF MarkPaid, MovesFrom, OPEN_STATUSES, SetStatus, providerVars, balanceVars, Inv, TypeOK, TaskFacts, Unsent, TransferredOnce, ReturnedOnlyIfNotSent, Returned, Goto, Idle
<1>14. ASSUME NEW w \in Withdrawal, Reject(w) PROVE TransferredOnce' /\ ReturnedOnlyIfNotSent'
  BY <1>14 DEF Reject, GiveBack, SetStatus, providerVars, Inv, TypeOK, TaskFacts, Unsent, TransferredOnce, ReturnedOnlyIfNotSent, Returned, Goto, Idle
<1>15. ASSUME NEW w \in Withdrawal, ProviderSettles(w) PROVE TransferredOnce' /\ ReturnedOnlyIfNotSent'
  BY <1>15 DEF ProviderSettles, rowVars, balanceVars, Inv, TypeOK, TaskFacts, Unsent, TransferredOnce, ReturnedOnlyIfNotSent, Returned, Goto, Idle
<1>16. ASSUME NEW w \in Withdrawal, TransferWebhook(w) PROVE TransferredOnce' /\ ReturnedOnlyIfNotSent'
  BY <1>16 DEF TransferWebhook, MarkFailed, GiveBack, SetStatus, rowVars, balanceVars, Inv, TypeOK, TaskFacts, Unsent, TransferredOnce, ReturnedOnlyIfNotSent, Returned, Goto, Idle
<1>17. ASSUME NEW w \in Withdrawal, WeekPasses(w) PROVE TransferredOnce' /\ ReturnedOnlyIfNotSent'
  BY <1>17 DEF WeekPasses, providerVars, balanceVars, Inv, TypeOK, TaskFacts, Unsent, TransferredOnce, ReturnedOnlyIfNotSent, Returned, Goto, Idle
<1>18. ASSUME NEW v \in Vendor, Credit(v) PROVE TransferredOnce' /\ ReturnedOnlyIfNotSent'
  BY <1>18 DEF Credit, rowVars, providerVars, Inv, TypeOK, TaskFacts, Unsent, TransferredOnce, ReturnedOnlyIfNotSent, Returned, Goto, Idle
<1>19. ASSUME NEW v \in Vendor, Mature(v) PROVE TransferredOnce' /\ ReturnedOnlyIfNotSent'
  BY <1>19 DEF Mature, rowVars, providerVars, Inv, TypeOK, TaskFacts, Unsent, TransferredOnce, ReturnedOnlyIfNotSent, Returned, Goto, Idle
<1>20. ASSUME NEW v \in Vendor, RefundOnHold(v) PROVE TransferredOnce' /\ ReturnedOnlyIfNotSent'
  BY <1>20 DEF RefundOnHold, rowVars, providerVars, Inv, TypeOK, TaskFacts, Unsent, TransferredOnce, ReturnedOnlyIfNotSent, Returned, Goto, Idle
<1>21. ASSUME NEW v \in Vendor, Debit(v) PROVE TransferredOnce' /\ ReturnedOnlyIfNotSent'
  BY <1>21 DEF Debit, rowVars, providerVars, Inv, TypeOK, TaskFacts, Unsent, TransferredOnce, ReturnedOnlyIfNotSent, Returned, Goto, Idle
<1>22. ASSUME ReleaseMatured PROVE TransferredOnce' /\ ReturnedOnlyIfNotSent'
  BY <1>22 DEF ReleaseMatured, rowVars, providerVars, Inv, TypeOK, TaskFacts, Unsent, TransferredOnce, ReturnedOnlyIfNotSent, Returned, Goto, Idle
<1>23. ASSUME NEW h \in Handler, TaskFails(h) PROVE TransferredOnce' /\ ReturnedOnlyIfNotSent'
  BY <1>23 DEF TaskFails, rowVars, providerVars, balanceVars, Inv, TypeOK, TaskFacts, Unsent, TransferredOnce, ReturnedOnlyIfNotSent, Returned, Goto, Idle
<1>24. ASSUME Crash PROVE TransferredOnce' /\ ReturnedOnlyIfNotSent'
  BY <1>24 DEF Crash, rowVars, providerVars, balanceVars, Inv, TypeOK, TaskFacts, Unsent, TransferredOnce, ReturnedOnlyIfNotSent, Returned, Goto, Idle
<1>25. ASSUME UNCHANGED vars PROVE TransferredOnce' /\ ReturnedOnlyIfNotSent'
  BY <1>25 DEF vars, rowVars, providerVars, balanceVars, Inv, TypeOK, TaskFacts, Unsent, TransferredOnce, ReturnedOnlyIfNotSent, Returned, Goto, Idle
<1> QED
  BY <1>1, <1>2, <1>3, <1>4, <1>5, <1>6, <1>7, <1>8, <1>9, <1>10, <1>11, <1>12, <1>13, <1>14, <1>15, <1>16, <1>17, <1>18, <1>19, <1>20, <1>21, <1>22, <1>23, <1>24, <1>25
  DEF Next, Step

\* Every step keeps the balance above what refunds took.
LEMMA BalanceStep == ASSUME Inv, [Next]_vars PROVE OverdrawnOnlyByRefunds'
<1> USE DEF At, IsIdle, Done
<1>1. ASSUME NEW h \in Handler, NEW w \in Withdrawal, Request(h, w) PROVE OverdrawnOnlyByRefunds'
  BY <1>1 DEF Request, Release, MayWithdraw, rowVars, providerVars, Inv, TypeOK, TaskFacts, OverdrawnOnlyByRefunds, Goto, Idle
<1>2. ASSUME NEW h \in Handler, PlaceHold(h) PROVE OverdrawnOnlyByRefunds'
  <2>1. task[h].w \in Withdrawal /\ Owner[task[h].w] \in Vendor /\ task[h].cents \in Nat
    BY <1>2, WithdrawalsAssumption DEF PlaceHold, Inv, TypeOK, TaskFacts, Task
  <2>2. task[h].cents <= available[Owner[task[h].w]] + taken[Owner[task[h].w]]
    BY <1>2 DEF PlaceHold, Inv, TaskFacts
  <2> QED
    BY <1>2, <2>1, <2>2 DEF PlaceHold, Inv, TypeOK, OverdrawnOnlyByRefunds
<1>3. ASSUME NEW h \in Handler, NEW w \in Withdrawal, ReadForApproval(h, w) PROVE OverdrawnOnlyByRefunds'
  BY <1>3 DEF ReadForApproval, rowVars, providerVars, balanceVars, Inv, TypeOK, TaskFacts, OverdrawnOnlyByRefunds, Goto, Idle
<1>4. ASSUME NEW h \in Handler, NEW w \in Withdrawal, ReadForPayment(h, w) PROVE OverdrawnOnlyByRefunds'
  BY <1>4 DEF ReadForPayment, rowVars, providerVars, balanceVars, Inv, TypeOK, TaskFacts, OverdrawnOnlyByRefunds, Goto, Idle
<1>5. ASSUME NEW h \in Handler, CheckBalance(h) PROVE OverdrawnOnlyByRefunds'
  BY <1>5 DEF CheckBalance, Release, AfterCheck, rowVars, providerVars, Inv, TypeOK, TaskFacts, OverdrawnOnlyByRefunds, Goto, Idle
<1>6. ASSUME NEW h \in Handler, ApproveManual(h) PROVE OverdrawnOnlyByRefunds'
  BY <1>6 DEF ApproveManual, MovesFrom, SetStatus, providerVars, balanceVars, Inv, TypeOK, TaskFacts, OverdrawnOnlyByRefunds, Goto, Idle
<1>7. ASSUME NEW h \in Handler, StoreRecipient(h) PROVE OverdrawnOnlyByRefunds'
  BY <1>7 DEF StoreRecipient, rowVars, balanceVars, Inv, TypeOK, TaskFacts, OverdrawnOnlyByRefunds, Goto, Idle
<1>8. ASSUME NEW h \in Handler, ClaimTransfer(h) PROVE OverdrawnOnlyByRefunds'
  BY <1>8 DEF ClaimTransfer, MovesFrom, SetStatus, providerVars, balanceVars, Inv, TypeOK, TaskFacts, OverdrawnOnlyByRefunds, Goto, Idle
<1>9. ASSUME NEW h \in Handler, TransferAnswers(h) PROVE OverdrawnOnlyByRefunds'
  BY <1>9 DEF TransferAnswers, rowVars, balanceVars, Inv, TypeOK, TaskFacts, OverdrawnOnlyByRefunds, Goto, Idle
<1>10. ASSUME NEW h \in Handler, TransferThrows(h) PROVE OverdrawnOnlyByRefunds'
  BY <1>10 DEF TransferThrows, rowVars, providerVars, balanceVars, Inv, TypeOK, TaskFacts, OverdrawnOnlyByRefunds, Goto, Idle
<1>11. ASSUME NEW h \in Handler, RecordTransfer(h) PROVE OverdrawnOnlyByRefunds'
  BY <1>11 DEF RecordTransfer, ReportsFailure, providerVars, balanceVars, Inv, TypeOK, TaskFacts, OverdrawnOnlyByRefunds, Goto, Idle
<1>12. ASSUME NEW h \in Handler, FailTransfer(h) PROVE OverdrawnOnlyByRefunds'
  BY <1>12 DEF FailTransfer, MarkFailed, GiveBack, SetStatus, rowVars, providerVars, balanceVars, Inv, TypeOK, TaskFacts, OverdrawnOnlyByRefunds, Goto, Idle
<1>13. ASSUME NEW h \in Handler, MarkPaid(h) PROVE OverdrawnOnlyByRefunds'
  BY <1>13 DEF MarkPaid, MovesFrom, OPEN_STATUSES, SetStatus, providerVars, balanceVars, Inv, TypeOK, TaskFacts, OverdrawnOnlyByRefunds, Goto, Idle
<1>14. ASSUME NEW w \in Withdrawal, Reject(w) PROVE OverdrawnOnlyByRefunds'
  BY <1>14 DEF Reject, GiveBack, SetStatus, providerVars, Inv, TypeOK, TaskFacts, OverdrawnOnlyByRefunds, Goto, Idle
<1>15. ASSUME NEW w \in Withdrawal, ProviderSettles(w) PROVE OverdrawnOnlyByRefunds'
  BY <1>15 DEF ProviderSettles, rowVars, balanceVars, Inv, TypeOK, TaskFacts, OverdrawnOnlyByRefunds, Goto, Idle
<1>16. ASSUME NEW w \in Withdrawal, TransferWebhook(w) PROVE OverdrawnOnlyByRefunds'
  BY <1>16 DEF TransferWebhook, MarkFailed, GiveBack, SetStatus, rowVars, balanceVars, Inv, TypeOK, TaskFacts, OverdrawnOnlyByRefunds, Goto, Idle
<1>17. ASSUME NEW w \in Withdrawal, WeekPasses(w) PROVE OverdrawnOnlyByRefunds'
  BY <1>17 DEF WeekPasses, providerVars, balanceVars, Inv, TypeOK, TaskFacts, OverdrawnOnlyByRefunds, Goto, Idle
<1>18. ASSUME NEW v \in Vendor, Credit(v) PROVE OverdrawnOnlyByRefunds'
  BY <1>18 DEF Credit, rowVars, providerVars, Inv, TypeOK, TaskFacts, OverdrawnOnlyByRefunds, Goto, Idle
<1>19. ASSUME NEW v \in Vendor, Mature(v) PROVE OverdrawnOnlyByRefunds'
  BY <1>19 DEF Mature, rowVars, providerVars, Inv, TypeOK, TaskFacts, OverdrawnOnlyByRefunds, Goto, Idle
<1>20. ASSUME NEW v \in Vendor, RefundOnHold(v) PROVE OverdrawnOnlyByRefunds'
  BY <1>20 DEF RefundOnHold, rowVars, providerVars, Inv, TypeOK, TaskFacts, OverdrawnOnlyByRefunds, Goto, Idle
<1>21. ASSUME NEW v \in Vendor, Debit(v) PROVE OverdrawnOnlyByRefunds'
  BY <1>21 DEF Debit, rowVars, providerVars, Inv, TypeOK, TaskFacts, OverdrawnOnlyByRefunds, Goto, Idle
<1>22. ASSUME ReleaseMatured PROVE OverdrawnOnlyByRefunds'
  BY <1>22 DEF ReleaseMatured, rowVars, providerVars, Inv, TypeOK, TaskFacts, OverdrawnOnlyByRefunds, Goto, Idle
<1>23. ASSUME NEW h \in Handler, TaskFails(h) PROVE OverdrawnOnlyByRefunds'
  BY <1>23 DEF TaskFails, rowVars, providerVars, balanceVars, Inv, TypeOK, TaskFacts, OverdrawnOnlyByRefunds, Goto, Idle
<1>24. ASSUME Crash PROVE OverdrawnOnlyByRefunds'
  BY <1>24 DEF Crash, rowVars, providerVars, balanceVars, Inv, TypeOK, TaskFacts, OverdrawnOnlyByRefunds, Goto, Idle
<1>25. ASSUME UNCHANGED vars PROVE OverdrawnOnlyByRefunds'
  BY <1>25 DEF vars, rowVars, providerVars, balanceVars, Inv, TypeOK, TaskFacts, OverdrawnOnlyByRefunds, Goto, Idle
<1> QED
  BY <1>1, <1>2, <1>3, <1>4, <1>5, <1>6, <1>7, <1>8, <1>9, <1>10, <1>11, <1>12, <1>13, <1>14, <1>15, <1>16, <1>17, <1>18, <1>19, <1>20, <1>21, <1>22, <1>23, <1>24, <1>25
  DEF Next, Step

\* No step moves a withdrawal that is paid, rejected or failed.
LEMMA FinalStep == ASSUME Inv, [Next]_vars PROVE KeepsFinal
<1> USE DEF At, IsIdle, Done
<1>1. ASSUME NEW h \in Handler, NEW w \in Withdrawal, Request(h, w) PROVE KeepsFinal
  BY <1>1 DEF Request, Release, MayWithdraw, rowVars, providerVars, KeepsFinal, Inv, TypeOK, TaskFacts, Goto, Idle
<1>2. ASSUME NEW h \in Handler, PlaceHold(h) PROVE KeepsFinal
  BY <1>2 DEF PlaceHold, SetStatus, providerVars, KeepsFinal, Inv, TypeOK, TaskFacts, Goto, Idle
<1>3. ASSUME NEW h \in Handler, NEW w \in Withdrawal, ReadForApproval(h, w) PROVE KeepsFinal
  BY <1>3 DEF ReadForApproval, rowVars, providerVars, balanceVars, KeepsFinal, Inv, TypeOK, TaskFacts, Goto, Idle
<1>4. ASSUME NEW h \in Handler, NEW w \in Withdrawal, ReadForPayment(h, w) PROVE KeepsFinal
  BY <1>4 DEF ReadForPayment, rowVars, providerVars, balanceVars, KeepsFinal, Inv, TypeOK, TaskFacts, Goto, Idle
<1>5. ASSUME NEW h \in Handler, CheckBalance(h) PROVE KeepsFinal
  BY <1>5 DEF CheckBalance, Release, AfterCheck, rowVars, providerVars, KeepsFinal, Inv, TypeOK, TaskFacts, Goto, Idle
<1>6. ASSUME NEW h \in Handler, ApproveManual(h) PROVE KeepsFinal
  BY <1>6 DEF ApproveManual, MovesFrom, SetStatus, providerVars, balanceVars, KeepsFinal, Inv, TypeOK, TaskFacts, Goto, Idle
<1>7. ASSUME NEW h \in Handler, StoreRecipient(h) PROVE KeepsFinal
  BY <1>7 DEF StoreRecipient, rowVars, balanceVars, KeepsFinal, Inv, TypeOK, TaskFacts, Goto, Idle
<1>8. ASSUME NEW h \in Handler, ClaimTransfer(h) PROVE KeepsFinal
  BY <1>8 DEF ClaimTransfer, MovesFrom, SetStatus, providerVars, balanceVars, KeepsFinal, Inv, TypeOK, TaskFacts, Goto, Idle
<1>9. ASSUME NEW h \in Handler, TransferAnswers(h) PROVE KeepsFinal
  BY <1>9 DEF TransferAnswers, rowVars, balanceVars, KeepsFinal, Inv, TypeOK, TaskFacts, Goto, Idle
<1>10. ASSUME NEW h \in Handler, TransferThrows(h) PROVE KeepsFinal
  BY <1>10 DEF TransferThrows, rowVars, providerVars, balanceVars, KeepsFinal, Inv, TypeOK, TaskFacts, Goto, Idle
<1>11. ASSUME NEW h \in Handler, RecordTransfer(h) PROVE KeepsFinal
  BY <1>11 DEF RecordTransfer, ReportsFailure, providerVars, balanceVars, KeepsFinal, Inv, TypeOK, TaskFacts, Goto, Idle
<1>12. ASSUME NEW h \in Handler, FailTransfer(h) PROVE KeepsFinal
  BY <1>12 DEF FailTransfer, MarkFailed, GiveBack, SetStatus, rowVars, providerVars, balanceVars, KeepsFinal, Inv, TypeOK, TaskFacts, Goto, Idle
<1>13. ASSUME NEW h \in Handler, MarkPaid(h) PROVE KeepsFinal
  BY <1>13 DEF MarkPaid, MovesFrom, OPEN_STATUSES, SetStatus, providerVars, balanceVars, KeepsFinal, Inv, TypeOK, TaskFacts, Goto, Idle
<1>14. ASSUME NEW w \in Withdrawal, Reject(w) PROVE KeepsFinal
  BY <1>14 DEF Reject, GiveBack, SetStatus, providerVars, KeepsFinal, Inv, TypeOK, TaskFacts, Goto, Idle
<1>15. ASSUME NEW w \in Withdrawal, ProviderSettles(w) PROVE KeepsFinal
  BY <1>15 DEF ProviderSettles, rowVars, balanceVars, KeepsFinal, Inv, TypeOK, TaskFacts, Goto, Idle
<1>16. ASSUME NEW w \in Withdrawal, TransferWebhook(w) PROVE KeepsFinal
  BY <1>16 DEF TransferWebhook, MarkFailed, GiveBack, SetStatus, rowVars, balanceVars, KeepsFinal, Inv, TypeOK, TaskFacts, Goto, Idle
<1>17. ASSUME NEW w \in Withdrawal, WeekPasses(w) PROVE KeepsFinal
  BY <1>17 DEF WeekPasses, providerVars, balanceVars, KeepsFinal, Inv, TypeOK, TaskFacts, Goto, Idle
<1>18. ASSUME NEW v \in Vendor, Credit(v) PROVE KeepsFinal
  BY <1>18 DEF Credit, rowVars, providerVars, KeepsFinal, Inv, TypeOK, TaskFacts, Goto, Idle
<1>19. ASSUME NEW v \in Vendor, Mature(v) PROVE KeepsFinal
  BY <1>19 DEF Mature, rowVars, providerVars, KeepsFinal, Inv, TypeOK, TaskFacts, Goto, Idle
<1>20. ASSUME NEW v \in Vendor, RefundOnHold(v) PROVE KeepsFinal
  BY <1>20 DEF RefundOnHold, rowVars, providerVars, KeepsFinal, Inv, TypeOK, TaskFacts, Goto, Idle
<1>21. ASSUME NEW v \in Vendor, Debit(v) PROVE KeepsFinal
  BY <1>21 DEF Debit, rowVars, providerVars, KeepsFinal, Inv, TypeOK, TaskFacts, Goto, Idle
<1>22. ASSUME ReleaseMatured PROVE KeepsFinal
  BY <1>22 DEF ReleaseMatured, rowVars, providerVars, KeepsFinal, Inv, TypeOK, TaskFacts, Goto, Idle
<1>23. ASSUME NEW h \in Handler, TaskFails(h) PROVE KeepsFinal
  BY <1>23 DEF TaskFails, rowVars, providerVars, balanceVars, KeepsFinal, Inv, TypeOK, TaskFacts, Goto, Idle
<1>24. ASSUME Crash PROVE KeepsFinal
  BY <1>24 DEF Crash, rowVars, providerVars, balanceVars, KeepsFinal, Inv, TypeOK, TaskFacts, Goto, Idle
<1>25. ASSUME UNCHANGED vars PROVE KeepsFinal
  BY <1>25 DEF vars, rowVars, providerVars, balanceVars, KeepsFinal, Inv, TypeOK, TaskFacts, Goto, Idle
<1> QED
  BY <1>1, <1>2, <1>3, <1>4, <1>5, <1>6, <1>7, <1>8, <1>9, <1>10, <1>11, <1>12, <1>13, <1>14, <1>15, <1>16, <1>17, <1>18, <1>19, <1>20, <1>21, <1>22, <1>23, <1>24, <1>25
  DEF Next, Step

\* The inductive invariant holds in every reachable state.
LEMMA InvCorrect == Spec => []Inv
<1>1. Init => Inv
  <2> SUFFICES ASSUME Init PROVE Inv
    OBVIOUS
  <2>1. TypeOK
    BY WithdrawalsAssumption DEF Init, TypeOK, Status, Task, Pc, Idle
  <2>2. TaskFacts /\ Alone
    BY DEF Init, TaskFacts, Alone, At, Idle, Claimed
  <2>3. Unsent /\ HoldReturnedOnce /\ TransferredOnce /\ ReturnedOnlyIfNotSent
    BY DEF Init, Unsent, HoldReturnedOnce, TransferredOnce, ReturnedOnlyIfNotSent, Returned
  <2>4. OverdrawnOnlyByRefunds
    BY DEF Init, OverdrawnOnlyByRefunds
  <2> QED
    BY <2>1, <2>2, <2>3, <2>4 DEF Inv
<1>2. Inv /\ [Next]_vars => Inv'
  BY TypeStep, TaskStep, AloneStep, UnsentStep, HoldStep, SentStep, BalanceStep DEF Inv
<1> QED
  BY <1>1, <1>2, PTL DEF Spec

\* A withdrawal is never both paid and released: its hold is given back once, and
\* exactly when it was rejected or failed, in every interleaving.
THEOREM NeverPaidAndReleased == Spec => []HoldReturnedOnce
<1>1. Inv => HoldReturnedOnce
  BY DEF Inv
<1> QED
  BY <1>1, InvCorrect, PTL

\* The claim before createTransfer: no withdrawal starts two transfers.
THEOREM TransfersAreSafe == Spec => []TransferredOnce
<1>1. Inv => TransferredOnce
  BY DEF Inv
<1> QED
  BY <1>1, InvCorrect, PTL

\* A hold is never given back for money that left, or still may.
THEOREM SentIsNotReturned == Spec => []ReturnedOnlyIfNotSent
<1>1. Inv => ReturnedOnlyIfNotSent
  BY DEF Inv
<1> QED
  BY <1>1, InvCorrect, PTL

\* Requests never overdraw a balance, however many run at once.
THEOREM NoOverdraft == Spec => []OverdrawnOnlyByRefunds
<1>1. Inv => OverdrawnOnlyByRefunds
  BY DEF Inv
<1> QED
  BY <1>1, InvCorrect, PTL

\* Every variable keeps its type.
THEOREM WithdrawalTypes == Spec => []TypeOK
<1>1. Inv => TypeOK
  BY DEF Inv
<1> QED
  BY <1>1, InvCorrect, PTL

\* PAID, REJECTED and FAILED are final: not even the unconditional update that stores
\* a transfer's result moves a withdrawal out of them.
THEOREM FinalIsFinal == Spec => FinalStaysFinal
<1>1. Inv /\ [Next]_vars =>
        [\A w \in Withdrawal :
            status[w] \in {"PAID", "REJECTED", "FAILED"} => status'[w] = status[w]]_vars
  BY FinalStep DEF KeepsFinal
<1> QED
  BY <1>1, InvCorrect, PTL DEF Spec, FinalStaysFinal

-----------------------------------------------------------------------------
(* The rules of a request: one open withdrawal, so many a week.            *)

\* Before a request commits, its seller still has none open and one to spare.
Quota ==
    /\ \A v \in Vendor :
          /\ \A x, y \in OpenOf(v) : x = y
          /\ IsFiniteSet(CountedThisWeek(v))
          /\ Cardinality(CountedThisWeek(v)) <= WithdrawalsPerWeek
    /\ \A h \in Handler : At(h, "hold") =>
          LET v == Owner[task[h].w]
          IN  /\ OpenOf(v) = {}
              /\ Cardinality(CountedThisWeek(v)) < WithdrawalsPerWeek

\* Only a request creates a row, and only then is a row recent.
RowsStay ==
    \A w \in Withdrawal :
        /\ status[w] = "NONE" => status'[w] = "NONE"
        /\ recent'[w] => recent[w]

LEMMA RowsStayStep ==
    ASSUME Inv, [Next]_vars, \A h \in Handler : ~PlaceHold(h)
    PROVE  RowsStay
<1> USE DEF RowsStay
<1>1. CASE UNCHANGED <<status, recent>>
  BY <1>1
<1>2. ASSUME NEW h \in Handler, ApproveManual(h) \/ ClaimTransfer(h) \/ MarkPaid(h)
      PROVE  RowsStay
  BY <1>2 DEF ApproveManual, ClaimTransfer, MarkPaid, MovesFrom, SetStatus, OPEN_STATUSES,
              Inv, TypeOK
<1>3. ASSUME NEW h \in Handler, RecordTransfer(h)
      PROVE  RowsStay
  BY <1>3 DEF RecordTransfer, Inv, TypeOK, TaskFacts, At
<1>4. ASSUME NEW w, MarkFailed(w)
      PROVE  RowsStay
  BY <1>4 DEF MarkFailed, GiveBack, SetStatus, rowVars, Inv, TypeOK
<1>5. ASSUME NEW w \in Withdrawal, Reject(w) \/ TransferWebhook(w) \/ WeekPasses(w)
      PROVE  RowsStay
  <2>1. CASE Reject(w)
    BY <2>1 DEF Reject, GiveBack, SetStatus, Inv, TypeOK
  <2>2. CASE TransferWebhook(w)
    BY <1>4, <2>2 DEF TransferWebhook, SetStatus, rowVars, Inv, TypeOK
  <2>3. CASE WeekPasses(w)
    BY <2>3 DEF WeekPasses, Inv, TypeOK
  <2> QED
    BY <1>5, <2>1, <2>2, <2>3
<1>6. ASSUME NEW h \in Handler, FailTransfer(h)
      PROVE  RowsStay
  BY <1>4, <1>6 DEF FailTransfer
<1>7. ASSUME NEW h \in Handler,
             \/ CheckBalance(h) \/ StoreRecipient(h) \/ TransferAnswers(h)
             \/ TransferThrows(h) \/ TaskFails(h)
             \/ \E w \in Withdrawal :
                   Request(h, w) \/ ReadForApproval(h, w) \/ ReadForPayment(h, w)
      PROVE  UNCHANGED <<status, recent>>
  BY <1>7 DEF CheckBalance, StoreRecipient, TransferAnswers, TransferThrows, TaskFails,
              Request, ReadForApproval, ReadForPayment, rowVars
<1>8. ASSUME ReleaseMatured \/ Crash \/ UNCHANGED vars
             \/ (\E w \in Withdrawal : ProviderSettles(w))
             \/ \E v \in Vendor : Credit(v) \/ Mature(v) \/ RefundOnHold(v) \/ Debit(v)
      PROVE  UNCHANGED <<status, recent>>
  BY <1>8 DEF ReleaseMatured, Crash, ProviderSettles, Credit, Mature, RefundOnHold, Debit,
              rowVars, vars
<1> QED
  BY <1>1, <1>2, <1>3, <1>5, <1>6, <1>7, <1>8 DEF Next, Step

\* What counts against a request only shrinks, but when a request commits.
LEMMA CountsShrink ==
    ASSUME Inv, [Next]_vars, \A h \in Handler : ~PlaceHold(h), NEW v \in Vendor
    PROVE  OpenOf(v)' \subseteq OpenOf(v) /\ CountedThisWeek(v)' \subseteq CountedThisWeek(v)
<1>1. RowsStay /\ KeepsFinal
  BY RowsStayStep, FinalStep
<1>2. \A w \in Withdrawal : status[w] \in Status
  BY DEF Inv, TypeOK
<1> QED
  BY <1>1, <1>2 DEF RowsStay, KeepsFinal, OpenOf, CountedThisWeek, Of, OPEN_STATUSES,
                    COUNTED_STATUSES, Status

\* The sets of one seller are not touched by the request of another one.
LEMMA PlaceCounts ==
    ASSUME Inv, NEW h \in Handler, PlaceHold(h), NEW v \in Vendor
    PROVE  /\ OpenOf(v)' \subseteq OpenOf(v) \union {task[h].w}
           /\ CountedThisWeek(v)' \subseteq CountedThisWeek(v) \union {task[h].w}
           /\ v # Owner[task[h].w] =>
                 OpenOf(v)' = OpenOf(v) /\ CountedThisWeek(v)' = CountedThisWeek(v)
<1>1. /\ status' = [status EXCEPT ![task[h].w] = "REQUESTED"]
      /\ recent' = [recent EXCEPT ![task[h].w] = TRUE]
  BY DEF PlaceHold, SetStatus
<1>2. status \in [Withdrawal -> Status] /\ recent \in [Withdrawal -> BOOLEAN]
  BY DEF Inv, TypeOK
<1>3. \A w \in Withdrawal : w # task[h].w => status'[w] = status[w] /\ recent'[w] = recent[w]
  BY <1>1, <1>2
<1> QED
  BY <1>3 DEF OpenOf, CountedThisWeek, Of

\* A request is about to commit only because it has just been evaluated.
LEMMA HoldsAreRequested ==
    ASSUME Inv, [Next]_vars, NEW h \in Handler, At(h, "hold")', task'[h] # task[h]
    PROVE  \E w \in Withdrawal : Request(h, w)
<1> USE DEF At
<1>a. TypeOK /\ task \in [Handler -> Task]
  BY DEF Inv, TypeOK
<1>1. ASSUME NEW g \in Handler, NEW w \in Withdrawal, Request(g, w)
      PROVE  \E x \in Withdrawal : Request(h, x)
  <2>1. g = h
    BY <1>1, <1>a DEF Request, Goto
  <2> QED
    BY <1>1, <2>1
<1>2. ASSUME NEW g \in Handler, NEW pc \in Pc \ {"hold"},
             \/ Goto(g, [task[g] EXCEPT !.pc = pc])
             \/ \E r \in TransferResults : Goto(g, [task[g] EXCEPT !.pc = pc, !.result = r])
             \/ \E w \in Withdrawal : Goto(g, [Idle EXCEPT !.pc = pc, !.w = w])
             \/ Goto(g, Idle)
      PROVE  FALSE
  <2>1. task[g] \in Task
    BY <1>a
  <2>2. task'[g].pc \in {pc, "idle"}
    <3>1. CASE Goto(g, [task[g] EXCEPT !.pc = pc])
      BY <3>1, <1>a, <2>1 DEF Goto, Task
    <3>2. ASSUME NEW r \in TransferResults, Goto(g, [task[g] EXCEPT !.pc = pc, !.result = r])
          PROVE  task'[g].pc = pc
      BY <3>2, <1>a, <2>1 DEF Goto, Task
    <3>3. ASSUME NEW w \in Withdrawal, Goto(g, [Idle EXCEPT !.pc = pc, !.w = w])
          PROVE  task'[g].pc = pc
      BY <3>3, <1>a DEF Goto, Idle
    <3>4. CASE Goto(g, Idle)
      BY <3>4, <1>a DEF Goto, Idle
    <3> QED
      BY <1>2, <3>1, <3>2, <3>3, <3>4
  <2>3. \A f \in Handler : f # g => task'[f] = task[f]
    BY <1>2, <1>a DEF Goto
  <2> QED
    BY <2>2, <2>3
<1>3. {"idle", "checkApprove", "checkPay", "recipient", "approve", "claim", "transfer", "record",
       "fail", "pay"} \subseteq Pc \ {"hold"}
  BY DEF Pc
<1>4. ASSUME NEW g \in Handler, Step(g) \/ TaskFails(g)
      PROVE  FALSE
  <2>1. CASE PlaceHold(g) \/ ApproveManual(g) \/ FailTransfer(g) \/ MarkPaid(g) \/ TaskFails(g)
    BY <1>2, <1>3, <2>1 DEF PlaceHold, ApproveManual, FailTransfer, MarkPaid, TaskFails, Done
  <2>2. CASE StoreRecipient(g) \/ TransferThrows(g) \/ ClaimTransfer(g) \/ RecordTransfer(g)
    BY <1>2, <1>3, <2>2 DEF StoreRecipient, TransferThrows, ClaimTransfer, RecordTransfer, Done
  <2>3. CASE TransferAnswers(g)
    BY <1>2, <1>3, <2>3 DEF TransferAnswers
  <2>4. CASE CheckBalance(g)
    <3>1. Goto(g, Idle) \/ \E pc \in Pc \ {"hold"} : Goto(g, [task[g] EXCEPT !.pc = pc])
      BY <1>3, <2>4 DEF CheckBalance, AfterCheck, Done
    <3> QED
      BY <1>2, <1>3, <3>1
  <2> QED
    BY <1>4, <2>1, <2>2, <2>3, <2>4 DEF Step
<1>5. ASSUME NEW g \in Handler, NEW w \in Withdrawal, ReadForApproval(g, w) \/ ReadForPayment(g, w)
      PROVE  FALSE
  BY <1>2, <1>3, <1>5 DEF ReadForApproval, ReadForPayment
<1>6. ASSUME ReleaseMatured \/ Crash \/ UNCHANGED vars
             \/ (\E w \in Withdrawal :
                    Reject(w) \/ ProviderSettles(w) \/ TransferWebhook(w) \/ WeekPasses(w))
             \/ \E v \in Vendor : Credit(v) \/ Mature(v) \/ RefundOnHold(v) \/ Debit(v)
      PROVE  FALSE
  BY <1>6, <1>a DEF ReleaseMatured, Crash, Reject, ProviderSettles, TransferWebhook, WeekPasses,
                    Credit, Mature, RefundOnHold, Debit, Idle, vars
<1> QED
  BY <1>1, <1>4, <1>5, <1>6 DEF Next

\* Every step keeps the rules.
LEMMA QuotaStep ==
    ASSUME Inv, Quota, [Next]_vars
    PROVE  Quota'
<1> DEFINE Rows == \A v \in Vendor :
                      /\ \A x, y \in OpenOf(v) : x = y
                      /\ IsFiniteSet(CountedThisWeek(v))
                      /\ Cardinality(CountedThisWeek(v)) <= WithdrawalsPerWeek
           Spare(v) == OpenOf(v) = {} /\ Cardinality(CountedThisWeek(v)) < WithdrawalsPerWeek
<1>a. WithdrawalsPerWeek \in Nat /\ Owner \in [Withdrawal -> Vendor]
  BY WithdrawalsAssumption
<1>b. Rows /\ \A h \in Handler : At(h, "hold") => Spare(Owner[task[h].w])
  BY DEF Quota
<1>c. \A h \in Handler : At(h, "hold") => task[h].w \in Withdrawal
  BY DEF Inv, TaskFacts, At
<1>1. ASSUME \A h \in Handler : ~PlaceHold(h)
      PROVE  Quota'
  <2>1. ASSUME NEW v \in Vendor
        PROVE  /\ OpenOf(v)' \subseteq OpenOf(v)
               /\ IsFiniteSet(CountedThisWeek(v)')
               /\ Cardinality(CountedThisWeek(v)') <= Cardinality(CountedThisWeek(v))
               /\ Cardinality(CountedThisWeek(v)) \in Nat /\ Cardinality(CountedThisWeek(v)') \in Nat
    BY <1>1, <1>b, CountsShrink, FS_Subset, FS_CardinalityType
  <2>2. Rows'
    BY <1>a, <1>b, <2>1
  <2>3. ASSUME NEW h \in Handler, At(h, "hold")'
        PROVE  Spare(Owner[task[h].w])'
    <3>1. PICK w \in Withdrawal : w = task'[h].w /\ Spare(Owner[w])
      <4>1. CASE task'[h] = task[h]
        BY <1>b, <1>c, <2>3, <4>1 DEF At
      <4>2. CASE task'[h] # task[h]
        <5>1. PICK w \in Withdrawal : Request(h, w)
          BY <1>1, <2>3, <4>2, HoldsAreRequested
        <5>2. task'[h].w = w
          BY <5>1 DEF Request, Goto, Idle, Inv, TypeOK
        <5>3. Spare(Owner[w])
          BY <5>1 DEF Request, MayWithdraw
        <5> QED
          BY <5>2, <5>3
      <4> QED
        BY <4>1, <4>2
    <3>2. Owner[w] \in Vendor
      BY <1>a
    <3>3. OpenOf(Owner[w])' = {} /\ Cardinality(CountedThisWeek(Owner[w])') < WithdrawalsPerWeek
      BY <1>a, <2>1, <3>1, <3>2
    <3> QED
      BY <3>1, <3>3
  <2> QED
    BY <2>2, <2>3 DEF Quota
<1>2. ASSUME NEW h \in Handler, PlaceHold(h)
      PROVE  Quota'
  <2> DEFINE w == task[h].w
  <2>1. w \in Withdrawal /\ At(h, "hold") /\ Spare(Owner[w])
    BY <1>2, <1>b, <1>c DEF PlaceHold
  <2>2. ASSUME NEW v \in Vendor
        PROVE  /\ \A x, y \in OpenOf(v)' : x = y
               /\ IsFiniteSet(CountedThisWeek(v)')
               /\ Cardinality(CountedThisWeek(v)') <= WithdrawalsPerWeek
    <3>1. CASE v # Owner[w]
      <4>1. OpenOf(v)' = OpenOf(v) /\ CountedThisWeek(v)' = CountedThisWeek(v)
        BY <1>2, <3>1, PlaceCounts
      <4> QED
        BY <1>b, <4>1
    <3>2. CASE v = Owner[w]
      <4>1. /\ OpenOf(v)' \subseteq {w}
            /\ CountedThisWeek(v)' \subseteq CountedThisWeek(v) \union {w}
        BY <1>2, <2>1, <3>2, PlaceCounts
      <4>2. /\ IsFiniteSet(CountedThisWeek(v)) /\ Cardinality(CountedThisWeek(v)) \in Nat
            /\ Cardinality(CountedThisWeek(v)) < WithdrawalsPerWeek
        BY <1>b, <2>1, <3>2, FS_CardinalityType
      <4>3. /\ IsFiniteSet(CountedThisWeek(v) \union {w})
            /\ \/ Cardinality(CountedThisWeek(v) \union {w}) = Cardinality(CountedThisWeek(v))
               \/ Cardinality(CountedThisWeek(v) \union {w}) = Cardinality(CountedThisWeek(v)) + 1
        BY <4>2, FS_AddElement, Zenon
      <4>4. /\ IsFiniteSet(CountedThisWeek(v) \union {w})
            /\ Cardinality(CountedThisWeek(v) \union {w}) \in Nat
            /\ Cardinality(CountedThisWeek(v) \union {w}) <= WithdrawalsPerWeek
        BY <1>a, <4>2, <4>3
      <4>5. /\ IsFiniteSet(CountedThisWeek(v)')
            /\ Cardinality(CountedThisWeek(v)') <= Cardinality(CountedThisWeek(v) \union {w})
        BY <4>1, <4>4, FS_Subset
      <4>6. Cardinality(CountedThisWeek(v)') \in Nat
        BY <4>5, FS_CardinalityType
      <4> QED
        BY <1>a, <4>1, <4>4, <4>5, <4>6
    <3> QED
      BY <3>1, <3>2
  <2>3. ASSUME NEW g \in Handler, At(g, "hold")'
        PROVE  Spare(Owner[task[g].w])'
    <3>1. g # h /\ task'[g] = task[g]
      BY <1>2, <2>3 DEF PlaceHold, Done, Goto, Idle, At, Inv, TypeOK
    <3>2. At(g, "hold") /\ task[g].w \in Withdrawal /\ Spare(Owner[task[g].w])
      BY <1>b, <1>c, <2>3, <3>1 DEF At
    <3>3. Owner[task[g].w] # Owner[w] /\ Owner[task[g].w] \in Vendor
      BY <1>a, <2>1, <3>1, <3>2 DEF Inv, Alone
    <3>4. PICK v \in Vendor : v = Owner[task[g].w] /\ v # Owner[w] /\ Spare(v)
      BY <3>2, <3>3
    <3>5. OpenOf(v)' = OpenOf(v) /\ CountedThisWeek(v)' = CountedThisWeek(v)
      BY <1>2, <3>4, PlaceCounts
    <3>6. Spare(v)'
      BY <3>4, <3>5
    <3>7. v = Owner[task'[g].w]
      BY <3>1, <3>4
    <3> QED
      BY <3>6, <3>7
  <2> QED
    BY <2>2, <2>3 DEF Quota
<1> QED
  BY <1>1, <1>2

LEMMA QuotaCorrect == Spec => [](Inv /\ Quota)
<1>1. Init => Quota
  <2> SUFFICES ASSUME Init PROVE Quota
    OBVIOUS
  <2>1. \A v \in Vendor : OpenOf(v) = {} /\ CountedThisWeek(v) = {}
    BY DEF Init, OpenOf, CountedThisWeek, OPEN_STATUSES, COUNTED_STATUSES, Of
  <2>2. \A h \in Handler : ~At(h, "hold")
    BY DEF Init, At, Idle
  <2> QED
    BY <2>1, <2>2, FS_EmptySet, WithdrawalsAssumption DEF Quota
<1>2. Inv /\ Quota /\ [Next]_vars => Quota'
  BY QuotaStep
<1> QED
  BY <1>1, <1>2, InvCorrect, PTL DEF Spec

\* However many requests of a seller run at once, the lock on the seller's row lets one
\* withdrawal be open.
THEOREM OneAtATime == Spec => []OneOpenWithdrawal
<1>1. Quota => OneOpenWithdrawal
  <2> SUFFICES ASSUME Quota, NEW v \in Vendor PROVE Cardinality(OpenOf(v)) <= 1
    BY DEF OneOpenWithdrawal
  <2>1. CASE OpenOf(v) = {}
    BY <2>1, FS_EmptySet
  <2>2. ASSUME NEW x \in OpenOf(v)
        PROVE  Cardinality(OpenOf(v)) <= 1
    <3>1. OpenOf(v) = {x}
      BY <2>2 DEF Quota
    <3> QED
      BY <3>1, FS_Singleton
  <2> QED
    BY <2>1, <2>2
<1> QED
  BY <1>1, QuotaCorrect, PTL

\* However many requests run at once, a seller has no more withdrawals in a week than
\* the plan allows, those that were paid meanwhile included.
THEOREM WeeklyLimitHolds == Spec => []WithinWeeklyLimit
<1>1. Inv /\ Quota => WithinWeeklyLimit
  <2> SUFFICES ASSUME Inv, Quota, NEW v \in Vendor
               PROVE  Cardinality({w \in Of(v) : recent[w] /\ status[w] \notin {"NONE"} \union Returned})
                          <= WithdrawalsPerWeek
    BY DEF WithinWeeklyLimit
  <2>1. {w \in Of(v) : recent[w] /\ status[w] \notin {"NONE"} \union Returned} = CountedThisWeek(v)
    BY DEF Inv, TypeOK, Status, Returned, COUNTED_STATUSES, CountedThisWeek, Of
  <2> QED
    BY <2>1 DEF Quota
<1> QED
  BY <1>1, QuotaCorrect, PTL

=============================================================================
