---------------------------- MODULE OrdersProofs ----------------------------
(***************************************************************************)
(* Theorems of Orders, for any number of orders, payments and concurrent   *)
(* requests, any hold period and any number of faults: the ledger of an    *)
(* order follows its status, the status follows the provider's money, the  *)
(* counter follows the sales that stand, no event is applied twice, and    *)
(* every step is one of the order's life cycle.                            *)
(***************************************************************************)
EXTENDS Orders, FiniteSetTheorems, TLAPS

\* A task that has started names its order, and a webhook its payment and event.
Hook == {"store", "dispatch"}
Named ==
    {t \in Task :
        /\ t.pc # "idle" => t.order \in Order
        /\ t.pc \in Hook => t.pay \in Payment /\ t.act \in PaymentStatus}

TypeInv == TypeOK /\ task \in [Worker -> Named]

-----------------------------------------------------------------------------
(* Type correctness.                                                       *)

\* The records a task may become.
LEMMA TaskForms ==
    /\ Idle \in Named
    /\ \A pc \in Pc \ Hook, o \in Order : [Idle EXCEPT !.pc = pc, !.order = o] \in Named
    /\ \A pc \in Pc \ Hook, o \in Order, a \in Act :
          [Idle EXCEPT !.pc = pc, !.order = o, !.act = a] \in Named
    /\ \A pc \in Pc \ Hook, o \in Order, p \in Payment, a \in Act :
          [Idle EXCEPT !.pc = pc, !.order = o, !.pay = p, !.act = a] \in Named
    /\ \A o \in Order, p \in Payment, a \in PaymentStatus :
          [Idle EXCEPT !.pc = "store", !.order = o, !.pay = p, !.act = a] \in Named
    /\ \A t \in Named, pc \in Pc \ Hook :
          t.pc # "idle" => [t EXCEPT !.pc = pc] \in Named
    /\ \A t \in Named : t.pc = "store" => [t EXCEPT !.pc = "dispatch"] \in Named
    /\ \A t \in Named, pc \in Pc \ Hook, a \in Act :
          t.pc # "idle" => [t EXCEPT !.pc = pc, !.act = a] \in Named
    /\ \A t \in Named, pc \in Pc \ Hook, a \in Act, p \in Payment \union {None} :
          t.pc # "idle" => [t EXCEPT !.pc = pc, !.act = a, !.pay = p] \in Named
<1> USE DEF Hook
<1>1. Idle \in Named
  BY DEF Idle, Named, Task, Pc, Act
<1>2. \A pc \in Pc \ Hook, o \in Order : [Idle EXCEPT !.pc = pc, !.order = o] \in Named
  BY DEF Idle, Named, Task, Act
<1>3. \A pc \in Pc \ Hook, o \in Order, a \in Act :
          [Idle EXCEPT !.pc = pc, !.order = o, !.act = a] \in Named
  BY DEF Idle, Named, Task
<1>4. \A pc \in Pc \ Hook, o \in Order, p \in Payment, a \in Act :
          [Idle EXCEPT !.pc = pc, !.order = o, !.pay = p, !.act = a] \in Named
  BY DEF Idle, Named, Task
<1>5. \A o \in Order, p \in Payment, a \in PaymentStatus :
          [Idle EXCEPT !.pc = "store", !.order = o, !.pay = p, !.act = a] \in Named
  BY DEF Idle, Named, Task, Pc, Act
<1>6. \A t \in Named, pc \in Pc \ Hook :
          t.pc # "idle" => [t EXCEPT !.pc = pc] \in Named
  BY DEF Named, Task
<1>7. \A t \in Named : t.pc = "store" => [t EXCEPT !.pc = "dispatch"] \in Named
  BY DEF Named, Task, Pc
<1>8. \A t \in Named, pc \in Pc \ Hook, a \in Act :
          t.pc # "idle" => [t EXCEPT !.pc = pc, !.act = a] \in Named
  BY DEF Named, Task
<1>9. \A t \in Named, pc \in Pc \ Hook, a \in Act, p \in Payment \union {None} :
          t.pc # "idle" => [t EXCEPT !.pc = pc, !.act = a, !.pay = p] \in Named
  BY DEF Named, Task
<1> QED
  BY <1>1, <1>2, <1>3, <1>4, <1>5, <1>6, <1>7, <1>8, <1>9

\* A worker that moves to a well-formed task leaves all tasks well formed.
LEMMA GotoType ==
    ASSUME TypeInv, NEW w \in Worker, NEW t \in Named, Goto(w, t)
    PROVE  task' \in [Worker -> Named]
BY DEF Goto, TypeInv

\* Counting a dispatch keeps the inbox well typed, whatever it counts.
LEMMA CountedType ==
    ASSUME InboxTypes, NEW e, Counted(e), UNCHANGED seen
    PROVE  InboxTypes'
<1>1. CASE e \in EventId
  BY <1>1 DEF InboxTypes, Counted
<1>2. CASE e \notin EventId
  BY <1>2 DEF InboxTypes, Counted
<1> QED
  BY <1>1, <1>2

\* Adding a ledger entry.
LEMMA AddedType ==
    ASSUME NEW x \in Entries, NEW s \in {"none", "PENDING", "AVAILABLE"}
    PROVE  Added(x, s) \in Entries
BY DEF Added, Entries

\* markPaid keeps the order and its ledger well typed.
LEMMA MarkPaidType ==
    ASSUME OrderTypes, LedgerTypes, NEW o \in Order, NEW p \in Payment \union {None},
           NEW m \in BOOLEAN, MarkPaid(o, p, m)
    PROVE  OrderTypes' /\ LedgerTypes'
<1>1. OrderTypes'
  <2>1. status' \in [Order -> {"NONE", "PENDING", "PAID", "FAILED", "REFUNDED"}]
    BY DEF MarkPaid, OrderTypes, orderVars
  <2>2. charge' \in [Order -> Payment \union {None}]
    BY DEF MarkPaid, OrderTypes, orderVars
  <2>3. mock' \in [Order -> BOOLEAN]
    BY DEF MarkPaid, OrderTypes, orderVars
  <2> QED
    BY <2>1, <2>2, <2>3 DEF MarkPaid, OrderTypes, orderVars
<1>2. LedgerTypes'
  <2>1. credit' \in [Order -> Entries]
    BY AddedType DEF MarkPaid, LedgerTypes, ledgerVars
  <2>2. matured' \in [Order -> BOOLEAN]
    BY DEF MarkPaid, LedgerTypes, ledgerVars
  <2>3. salesCount' \in Nat
    BY DEF MarkPaid, LedgerTypes, ledgerVars
  <2> QED
    BY <2>1, <2>2, <2>3 DEF MarkPaid, LedgerTypes, ledgerVars
<1> QED
  BY <1>1, <1>2

\* markFailed keeps the order and its ledger well typed.
LEMMA MarkFailedType ==
    ASSUME OrderTypes, LedgerTypes, NEW o \in Order, MarkFailed(o)
    PROVE  OrderTypes' /\ LedgerTypes'
BY DEF MarkFailed, OrderTypes, LedgerTypes, ledgerVars

\* A step that only moves a task.
LEMMA TaskOnlyType ==
    ASSUME TypeOK, task' \in [Worker -> Named],
           UNCHANGED <<orderVars, age, payStatus, inboxVars, ledgerVars, batch, faults>>
    PROVE  TypeInv'
<1>1. OrderTypes'
  BY DEF TypeOK, OrderTypes, orderVars
<1>2. LedgerTypes'
  BY DEF TypeOK, LedgerTypes, ledgerVars
<1>3. InboxTypes'
  BY DEF TypeOK, InboxTypes, inboxVars
<1>4. task' \in [Worker -> Task]
  BY DEF Named
<1> QED
  BY <1>1, <1>2, <1>3, <1>4 DEF TypeOK, TypeInv

\* What a task that has started knows.
LEMMA StartedTask ==
    ASSUME TypeInv, NEW w \in Worker, task[w].pc # "idle"
    PROVE  /\ task[w] \in Named /\ task[w] \in Task
           /\ task[w].order \in Order /\ task[w].act \in Act
           /\ task[w].pay \in Payment \union {None}
BY DEF TypeInv, Named, Task

\* The task that has claimed a refund.
LEMMA ClaimType ==
    ASSUME TypeInv, NEW o \in Order, NEW p \in Payment \union {None}, NEW a \in Act
    PROVE  [pc |-> "reversing", order |-> o, pay |-> p, act |-> a,
            onHold |-> credit[o].status = "PENDING"] \in Named
BY DEF Named, Task, Pc, Hook

\* Every step keeps the type invariant.
LEMMA TypeStep == ASSUME TypeInv, [Next]_vars PROVE TypeInv'
<1> USE DEF At, IsIdle, Done
<1>a. Handler \subseteq Worker /\ Job \in Worker
  BY DEF Worker
<1>b. /\ {"create", "link", "abort", "finish", "lookup", "apply",
          "ask", "reverse", "reversing"} \subseteq Pc \ Hook
      /\ "admin" \in Act /\ "paid" \in Act /\ "failed" \in Act
      /\ CheckoutResults \subseteq Act
  <2>1. {"pending", "paid", "failed"} \subseteq Act
    BY DEF Act, PaymentStatus
  <2> QED
    BY <2>1, OrdersAssumption DEF Pc, Act, Hook
<1>c. Idle \in Named
  BY TaskForms
<1>1. ASSUME NEW h \in Handler, NEW o \in Order, PlaceOrder(h, o)
      PROVE  TypeInv'
  <2>1. task' \in [Worker -> Named]
    BY <1>1, <1>a, <1>b, TaskForms, GotoType DEF PlaceOrder
  <2>2. OrderTypes'
    BY <1>1 DEF PlaceOrder, TypeInv, TypeOK, OrderTypes
  <2> QED
    BY <1>1, <2>1, <2>2 DEF PlaceOrder, TypeInv, TypeOK, LedgerTypes, ledgerVars,
                          InboxTypes, inboxVars, Named
<1>2. ASSUME NEW h \in Handler, NEW o \in Order, ReadOrder(h, o)
      PROVE  TypeInv'
  <2>1. task' \in [Worker -> Named]
    BY <1>2, <1>a, <1>b, <1>c, TaskForms, GotoType DEF ReadOrder, StartLookup
  <2> QED
    BY <1>2, <2>1, TaskOnlyType DEF ReadOrder, TypeInv
<1>3. ASSUME NEW h \in Handler, NEW o \in Order, RequestRefund(h, o)
      PROVE  TypeInv'
  <2>1. CASE mock[o]
    <3>1. task' \in [Worker -> Named]
      BY <1>3, <2>1, <1>a, <1>b, TaskForms, GotoType DEF RequestRefund
    <3> QED
      BY <1>3, <3>1, TaskOnlyType DEF RequestRefund, TypeInv
  <2>2. CASE ~mock[o]
    <3>1. charge[o] \in Payment
      BY <1>3, <2>2 DEF RequestRefund, TypeInv, TypeOK, OrderTypes
    <3>2. task' \in [Worker -> Named]
      BY <1>3, <2>2, <3>1, <1>a, <1>b, TaskForms, GotoType DEF RequestRefund
    <3> QED
      BY <1>3, <3>2, TaskOnlyType DEF RequestRefund, TypeInv
  <2> QED
    BY <2>1, <2>2
<1>4. ASSUME NEW h \in Handler, NEW p \in Payment, ParseWebhook(h, p)
      PROVE  TypeInv'
  <2>1. p[1] \in Order /\ payStatus[p] \in PaymentStatus
    BY <1>4 DEF ParseWebhook, TypeInv, TypeOK, Payment
  <2>2. task' \in [Worker -> Named]
    BY <1>4, <2>1, <1>a, <1>b, TaskForms, GotoType DEF ParseWebhook
  <2> QED
    BY <1>4, <2>2, TaskOnlyType DEF ParseWebhook, TypeInv
<1>5. ASSUME NEW w \in Worker, GatewayAnswers(w)
      PROVE  TypeInv'
  <2>1. task[w] \in Named /\ task[w].pc # "idle"
    BY <1>5, StartedTask DEF GatewayAnswers
  <2>2. task' \in [Worker -> Named]
    BY <1>5, <2>1, <1>b, <1>c, TaskForms, GotoType DEF GatewayAnswers
  <2> QED
    BY <1>5, <2>2, TaskOnlyType DEF GatewayAnswers, TypeInv
<1>6. ASSUME NEW w \in Worker, GatewayThrows(w)
      PROVE  TypeInv'
  <2>1. task[w] \in Named /\ task[w].pc # "idle"
    BY <1>6, StartedTask DEF GatewayThrows
  <2>2. task' \in [Worker -> Named]
    BY <1>6, <2>1, <1>b, <1>c, TaskForms, GotoType DEF GatewayThrows
  <2> QED
    BY <1>6, <2>2, TaskOnlyType DEF GatewayThrows, TypeInv
<1>7. ASSUME NEW w \in Worker, LookupThrows(w)
      PROVE  TypeInv'
  <2>1. task[w] \in Named /\ task[w].pc # "idle"
    BY <1>7, StartedTask DEF LookupThrows
  <2>2. task' \in [Worker -> Named]
    BY <1>7, <2>1, <1>b, <1>c, TaskForms, GotoType DEF LookupThrows
  <2> QED
    BY <1>7, <2>2, TaskOnlyType DEF LookupThrows, TypeInv
<1>8. ASSUME NEW w \in Worker, ProviderRefuses(w)
      PROVE  TypeInv'
  <2>1. task[w] \in Named /\ task[w].pc # "idle"
    BY <1>8, StartedTask DEF ProviderRefuses
  <2>2. task' \in [Worker -> Named]
    BY <1>8, <2>1, <1>b, <1>c, TaskForms, GotoType DEF ProviderRefuses
  <2> QED
    BY <1>8, <2>2, TaskOnlyType DEF ProviderRefuses, TypeInv
<1>9. ASSUME NEW w \in Worker, AbortCheckout(w)
      PROVE  TypeInv'
  <2>1. task[w].order \in Order /\ task[w].pay \in Payment \union {None}
    BY <1>9, StartedTask DEF AbortCheckout
  <2>2. task' \in [Worker -> Named]
    BY <1>9, <1>c, GotoType DEF AbortCheckout
  <2>3. OrderTypes' /\ LedgerTypes'
    BY <1>9, <2>1, MarkFailedType DEF AbortCheckout, TypeInv, TypeOK
  <2> QED
    BY <1>9, <2>2, <2>3 DEF AbortCheckout, TypeInv, TypeOK, InboxTypes, inboxVars, Named
<1>10. ASSUME NEW w \in Worker, LinkOrder(w)
      PROVE  TypeInv'
  <2>1. task[w] \in Named /\ task[w].pc # "idle"
    BY <1>10, StartedTask DEF LinkOrder
  <2>2. task' \in [Worker -> Named]
    BY <1>10, <2>1, <1>b, <1>c, TaskForms, GotoType DEF LinkOrder
  <2>3. OrderTypes'
    BY <1>10 DEF LinkOrder, TypeInv, TypeOK, OrderTypes
  <2> QED
    BY <1>10, <2>2, <2>3 DEF LinkOrder, TypeInv, TypeOK, LedgerTypes, ledgerVars,
                          InboxTypes, inboxVars, Named
<1>11. ASSUME NEW w \in Worker, FinishCheckout(w)
      PROVE  TypeInv'
  <2>1. task[w].order \in Order /\ task[w].pay \in Payment \union {None}
    BY <1>11, StartedTask DEF FinishCheckout
  <2>2. task' \in [Worker -> Named]
    BY <1>11, <1>c, GotoType DEF FinishCheckout
  <2>3. OrderTypes' /\ LedgerTypes'
    BY <1>11, <2>1, MarkPaidType, MarkFailedType DEF FinishCheckout, TypeInv, TypeOK
  <2> QED
    BY <1>11, <2>2, <2>3 DEF FinishCheckout, TypeInv, TypeOK, InboxTypes, inboxVars, Named
<1>12. ASSUME NEW w \in Worker, ApplyReconciliation(w)
      PROVE  TypeInv'
  <2>1. task[w].order \in Order /\ task[w].pay \in Payment \union {None}
    BY <1>12, StartedTask DEF ApplyReconciliation
  <2>2. task' \in [Worker -> Named]
    BY <1>12, <1>c, GotoType DEF ApplyReconciliation
  <2>3. OrderTypes' /\ LedgerTypes'
    BY <1>12, <2>1, MarkPaidType, MarkFailedType DEF ApplyReconciliation, TypeInv, TypeOK
  <2> QED
    BY <1>12, <2>2, <2>3 DEF ApplyReconciliation, TypeInv, TypeOK, InboxTypes, inboxVars, Named
<1>13. ASSUME NEW w \in Worker, StoreWebhook(w)
      PROVE  TypeInv'
  <2>1. task[w] \in Named /\ task[w].pc = "store"
    BY <1>13, StartedTask DEF StoreWebhook
  <2>2. task' \in [Worker -> Named]
    BY <1>13, <2>1, <1>b, <1>c, TaskForms, GotoType DEF StoreWebhook
  <2>3. EventOf(task[w]) \in EventId
    BY <2>1 DEF EventOf, EventId, Named, Hook
  <2>4. InboxTypes'
    BY <1>13, <2>3 DEF StoreWebhook, TypeInv, TypeOK, InboxTypes
  <2> QED
    BY <1>13, <2>2, <2>4 DEF StoreWebhook, TypeInv, TypeOK, OrderTypes, orderVars,
                          LedgerTypes, ledgerVars, Named
<1>14. ASSUME NEW w \in Worker, DispatchWebhook(w)
      PROVE  TypeInv'
  <2>1. task[w].order \in Order /\ task[w].pay \in Payment \union {None}
    BY <1>14, StartedTask DEF DispatchWebhook
  <2>2. task' \in [Worker -> Named]
    BY <1>14, <1>c, GotoType DEF DispatchWebhook
  <2>3. OrderTypes' /\ LedgerTypes'
    <3>1. \/ MarkPaid(task[w].order, task[w].pay, FALSE)
          \/ MarkFailed(task[w].order)
          \/ UNCHANGED <<orderVars, ledgerVars>>
      BY <1>14 DEF DispatchWebhook
    <3>2. CASE UNCHANGED <<orderVars, ledgerVars>>
      BY <3>2 DEF TypeInv, TypeOK, OrderTypes, orderVars, LedgerTypes, ledgerVars
    <3> QED
      BY <2>1, <3>1, <3>2, MarkPaidType, MarkFailedType DEF TypeInv, TypeOK
  <2>4. InboxTypes'
    BY <1>14, CountedType DEF DispatchWebhook, TypeInv, TypeOK
  <2> QED
    BY <1>14, <2>2, <2>3, <2>4 DEF DispatchWebhook, TypeInv, TypeOK, Named
<1>15. ASSUME NEW w \in Worker, DispatchRefund(w)
      PROVE  TypeInv'
  <2>1. task[w].order \in Order /\ task[w].pay \in Payment \union {None} /\ task[w].act \in Act
    BY <1>15, StartedTask DEF DispatchRefund
  <2>2. task' \in [Worker -> Named]
    BY <1>15, <2>1, <1>b, <1>c, ClaimType, GotoType DEF DispatchRefund, ClaimRefund
  <2> QED
    BY <1>15, <2>2, TaskOnlyType DEF DispatchRefund, ClaimRefund, TypeInv
<1>16. ASSUME NEW w \in Worker, ReverseOrder(w)
      PROVE  TypeInv'
  <2>1. task[w].order \in Order /\ task[w].pay \in Payment \union {None} /\ task[w].act \in Act
    BY <1>16, StartedTask DEF ReverseOrder
  <2>2. task' \in [Worker -> Named]
    BY <1>16, <2>1, <1>b, <1>c, ClaimType, GotoType DEF ReverseOrder, ClaimRefund
  <2> QED
    BY <1>16, <2>2, TaskOnlyType DEF ReverseOrder, ClaimRefund, TypeInv
<1>17. ASSUME NEW w \in Worker, LookupAnswers(w)
      PROVE  TypeInv'
  <2>1. task[w] \in Named /\ task[w].pc # "idle" /\ task[w].order \in Order
    BY <1>17, StartedTask DEF LookupAnswers
  <2>2. Approved(task[w].order) \subseteq Payment
    BY <2>1 DEF Approved, Attempts, Payment
  <2>3. task' \in [Worker -> Named]
    BY <1>17, <2>1, <2>2, <1>b, <1>c, TaskForms, GotoType DEF LookupAnswers
  <2> QED
    BY <1>17, <2>3, TaskOnlyType DEF LookupAnswers, TypeInv
<1>18. ASSUME NEW w \in Worker, ProviderRefunds(w)
      PROVE  TypeInv'
  <2>1. task[w] \in Named /\ task[w].pc # "idle"
    BY <1>18, StartedTask DEF ProviderRefunds
  <2>2. task' \in [Worker -> Named]
    BY <1>18, <2>1, <1>b, TaskForms, GotoType DEF ProviderRefunds
  <2>3. payStatus' \in [Payment -> PaymentStatus \union {"none"}]
    BY <1>18 DEF ProviderRefunds, TypeInv, TypeOK, PaymentStatus
  <2> QED
    BY <1>18, <2>2, <2>3 DEF ProviderRefunds, TypeInv, TypeOK, OrderTypes, orderVars,
                          LedgerTypes, ledgerVars, InboxTypes, inboxVars, Named
<1>19. ASSUME NEW w \in Worker, CommitRefund(w)
      PROVE  TypeInv'
  <2>1. task' \in [Worker -> Named]
    BY <1>19, <1>c, GotoType DEF CommitRefund
  <2>2. OrderTypes'
    BY <1>19 DEF CommitRefund, TypeInv, TypeOK, OrderTypes
  <2>3. debit' \in [Order -> Entries]
    BY <1>19, AddedType DEF CommitRefund, DebitStatus, TypeInv, TypeOK, LedgerTypes
  <2>4. salesCount' \in Nat
    BY <1>19 DEF CommitRefund, SaleLeaves, TypeInv, TypeOK, LedgerTypes
  <2>5. InboxTypes'
    BY <1>19, CountedType DEF CommitRefund, TypeInv, TypeOK, InboxTypes
  <2> QED
    BY <1>19, <2>1, <2>2, <2>3, <2>4, <2>5 DEF CommitRefund, TypeInv, TypeOK, LedgerTypes, Named
<1>20. ASSUME NEW w \in Worker, TaskFails(w)
      PROVE  TypeInv'
  <2>1. task' \in [Worker -> Named]
    BY <1>20, <1>c, GotoType DEF TaskFails
  <2>2. faults' \in 0..MaxFaults
    BY <1>20, OrdersAssumption DEF TaskFails, TypeInv, TypeOK
  <2> QED
    BY <1>20, <2>1, <2>2 DEF TaskFails, TypeInv, TypeOK, OrderTypes, orderVars,
                          LedgerTypes, ledgerVars, InboxTypes, inboxVars, Named
<1>21. ASSUME Crash
      PROVE  TypeInv'
  <2>1. task' \in [Worker -> Named]
    BY <1>21, <1>c DEF Crash
  <2>2. faults' \in 0..MaxFaults
    BY <1>21, OrdersAssumption DEF Crash, TypeInv, TypeOK
  <2> QED
    BY <1>21, <2>1, <2>2 DEF Crash, TypeInv, TypeOK, OrderTypes, orderVars,
                          LedgerTypes, ledgerVars, InboxTypes, inboxVars, Named
<1>22. ASSUME StartJob
      PROVE  TypeInv'
  BY <1>22 DEF StartJob, Due, TypeInv, TypeOK, OrderTypes, orderVars,
                 LedgerTypes, ledgerVars, InboxTypes, inboxVars
<1>23. ASSUME NEW o \in Order, JobNext(o)
      PROVE  TypeInv'
  <2>1. task' \in [Worker -> Named]
    BY <1>23, <1>a, <1>b, TaskForms, GotoType DEF JobNext, StartLookup, TypeInv
  <2> QED
    BY <1>23, <2>1 DEF JobNext, Named, TypeInv, TypeOK, OrderTypes, orderVars,
                 LedgerTypes, ledgerVars, InboxTypes, inboxVars
<1>24. ASSUME NEW o \in Order, Mature(o)
      PROVE  TypeInv'
  BY <1>24 DEF Mature, TypeInv, TypeOK, OrderTypes, orderVars,
                 LedgerTypes, ledgerVars, InboxTypes, inboxVars
<1>25. ASSUME NEW o \in Order, GrowOld(o)
      PROVE  TypeInv'
  BY <1>25 DEF GrowOld, TypeInv, TypeOK, OrderTypes, orderVars,
                 LedgerTypes, ledgerVars, InboxTypes, inboxVars
<1>26. ASSUME NEW p \in Payment, BuyerPays(p) \/ ProviderDecides(p) \/ ProviderReverses(p)
      PROVE  TypeInv'
  <2>1. payStatus' \in [Payment -> PaymentStatus \union {"none"}]
    BY <1>26 DEF BuyerPays, ProviderDecides, ProviderReverses, SetPayment, Returned,
              PaymentStatus, TypeInv, TypeOK
  <2> QED
    BY <1>26, <2>1 DEF BuyerPays, ProviderDecides, ProviderReverses, SetPayment, TypeInv, TypeOK, OrderTypes, orderVars,
                 LedgerTypes, ledgerVars, InboxTypes, inboxVars
<1>27. ASSUME ReleaseMatured
      PROVE  TypeInv'
  <2>1. \A o \in Order : Released(credit, o) \in Entries /\ Released(debit, o) \in Entries
    BY DEF Released, TypeInv, TypeOK, LedgerTypes, Entries
  <2> QED
    BY <1>27, <2>1 DEF ReleaseMatured, TypeInv, TypeOK, OrderTypes, orderVars,
                 LedgerTypes, ledgerVars, InboxTypes, inboxVars
<1>28. ASSUME JobFails
      PROVE  TypeInv'
  <2>1. faults' \in 0..MaxFaults
    BY <1>28, OrdersAssumption DEF JobFails, TypeInv, TypeOK
  <2> QED
    BY <1>28, <2>1 DEF JobFails, TypeInv, TypeOK, OrderTypes, orderVars,
                 LedgerTypes, ledgerVars, InboxTypes, inboxVars
<1>29. ASSUME UNCHANGED vars
      PROVE  TypeInv'
  BY <1>29 DEF vars, TypeInv, TypeOK, OrderTypes, orderVars,
                 LedgerTypes, ledgerVars, InboxTypes, inboxVars
<1> QED
  BY <1>1, <1>2, <1>3, <1>4, <1>5, <1>6, <1>7, <1>8, <1>9, <1>10, <1>11,
     <1>12, <1>13, <1>14, <1>15, <1>16, <1>17, <1>18, <1>19, <1>20, <1>21,
     <1>22, <1>23, <1>24, <1>25, <1>26, <1>27, <1>28, <1>29
  DEF Next, Step, Request

\* The initial state is well typed.
LEMMA InitType == Init => TypeInv
<1> SUFFICES ASSUME Init PROVE TypeInv
  OBVIOUS
<1>1. OrderTypes
  BY DEF Init, OrderTypes
<1>2. LedgerTypes
  BY DEF Init, LedgerTypes, NoEntries, Entries
<1>3. InboxTypes
  BY DEF Init, InboxTypes
<1>4. task \in [Worker -> Named]
  BY TaskForms DEF Init
<1>5. faults \in 0..MaxFaults
  BY OrdersAssumption DEF Init
<1> QED
  BY <1>1, <1>2, <1>3, <1>4, <1>5 DEF Init, TypeInv, TypeOK, Named

\* Every reachable state is well typed: in particular an event is always one of a
\* provider payment and a status, and a task always names an existing order.
THEOREM TypeCorrect == Spec => []TypeOK
<1>1. TypeInv => TypeOK
  BY DEF TypeInv
<1> QED
  BY <1>1, InitType, TypeStep, PTL DEF Spec

-----------------------------------------------------------------------------
(* The ledger.                                                             *)

\* A refund that has claimed its order holds the row: the order stays PAID, nobody
\* else claims it, and a credit it read as released is released.
ClaimsHold ==
    /\ \A w \in Worker : At(w, "reversing") =>
          /\ status[task[w].order] = "PAID"
          /\ task[w].onHold \/ credit[task[w].order].status = "AVAILABLE"
    /\ \A v, w \in Worker :
          At(v, "reversing") /\ At(w, "reversing") /\ task[v].order = task[w].order => v = w

\* A credit is available only once its hold has passed.
CreditsMature ==
    \A o \in Order :
        /\ credit[o].n > 0 => credit[o].status # "none"
        /\ credit[o].status = "AVAILABLE" => matured[o]

LedgerInv ==
    /\ TypeInv
    /\ ClaimsHold
    /\ CreditsMature
    /\ LedgerMatchesStatus
    /\ ReversedWhereItSits

ledger == <<status, credit, debit, matured>>

-----------------------------------------------------------------------------

\* Steps that touch no status and no ledger entry, and start no refund.
LEMMA QuietStep ==
    ASSUME LedgerInv, UNCHANGED ledger,
           \A w \in Worker : task'[w] = task[w] \/ task'[w].pc # "reversing"
    PROVE  ClaimsHold' /\ CreditsMature' /\ LedgerMatchesStatus' /\ ReversedWhereItSits'
<1>1. ClaimsHold'
  BY DEF LedgerInv, ClaimsHold, ledger, At
<1>2. CreditsMature'
  BY DEF LedgerInv, CreditsMature, ledger
<1>3. LedgerMatchesStatus'
  BY DEF LedgerInv, LedgerMatchesStatus, ledger
<1>4. ReversedWhereItSits'
  BY DEF LedgerInv, ReversedWhereItSits, ledger
<1> QED
  BY <1>1, <1>2, <1>3, <1>4

\* A worker that moves to a task that is not a claimed refund.
LEMMA QuietTask ==
    ASSUME LedgerInv, NEW w \in Worker, NEW t, t.pc # "reversing", Goto(w, t)
    PROVE  \A v \in Worker : task'[v] = task[v] \/ task'[v].pc # "reversing"
BY DEF Goto, LedgerInv, TypeInv

\* The claims that stand when one worker moves to a task that is not a claimed refund
\* and no claimed order changes its status or its credit.
LEMMA ClaimsStand ==
    ASSUME LedgerInv, NEW w \in Worker, Done(w),
           \A v \in Worker : v # w /\ At(v, "reversing") =>
               /\ status'[task[v].order] = status[task[v].order]
               /\ credit'[task[v].order] = credit[task[v].order]
    PROVE  ClaimsHold'
<1>1. \A v \in Worker : At(v, "reversing")' => v # w /\ At(v, "reversing") /\ task'[v] = task[v]
  BY DEF Done, Goto, At, Idle, LedgerInv, TypeInv
<1> QED
  BY <1>1 DEF LedgerInv, ClaimsHold, At

\* markPaid, by a worker that then is idle, keeps the ledger in step with the status.
LEMMA MarkPaidLedger ==
    ASSUME LedgerInv, NEW w \in Worker, Done(w), NEW o \in Order,
           NEW p \in Payment \union {None}, NEW m \in BOOLEAN, MarkPaid(o, p, m)
    PROVE  ClaimsHold' /\ CreditsMature' /\ LedgerMatchesStatus' /\ ReversedWhereItSits'
<1>1. CASE status[o] \notin PAYABLE_STATUSES
  BY <1>1, QuietStep, QuietTask DEF MarkPaid, orderVars, ledgerVars, ledger, Done, Idle
<1>2. CASE status[o] \in PAYABLE_STATUSES
  <2>1. /\ status' = [status EXCEPT ![o] = "PAID"]
        /\ credit' = [credit EXCEPT ![o] =
                         Added(@, IF HoldDays = 0 THEN "AVAILABLE" ELSE "PENDING")]
        /\ matured' = [matured EXCEPT ![o] = (HoldDays = 0)]
        /\ debit' = debit
    BY <1>2 DEF MarkPaid
  <2>2. /\ status \in [Order -> {"NONE", "PENDING", "PAID", "FAILED", "REFUNDED"}]
        /\ credit \in [Order -> Entries] /\ debit \in [Order -> Entries]
        /\ matured \in [Order -> BOOLEAN]
    BY DEF LedgerInv, TypeInv, TypeOK, OrderTypes, LedgerTypes
  <2>3. credit[o].n = 0 /\ debit[o].n = 0 /\ status[o] # "PAID"
    BY <1>2 DEF LedgerInv, LedgerMatchesStatus, PAYABLE_STATUSES
  <2>4. \A v \in Worker : At(v, "reversing") => task[v].order \in Order /\ task[v].order # o
    BY <2>3, StartedTask DEF LedgerInv, ClaimsHold, At
  <2>5. ClaimsHold'
    BY <2>1, <2>2, <2>4, ClaimsStand
  <2>6. CreditsMature'
    BY <2>1, <2>2 DEF LedgerInv, CreditsMature, Added, Entries
  <2>7. LedgerMatchesStatus'
    BY <2>1, <2>2, <2>3 DEF LedgerInv, LedgerMatchesStatus, Added, Entries
  <2>8. ReversedWhereItSits'
    BY <2>1, <2>2, <2>3 DEF LedgerInv, ReversedWhereItSits, Added, Entries
  <2> QED
    BY <2>5, <2>6, <2>7, <2>8
<1> QED
  BY <1>1, <1>2

\* markFailed, by a worker that then is idle: the order had no ledger entry.
LEMMA MarkFailedLedger ==
    ASSUME LedgerInv, NEW w \in Worker, Done(w), NEW o \in Order, MarkFailed(o)
    PROVE  ClaimsHold' /\ CreditsMature' /\ LedgerMatchesStatus' /\ ReversedWhereItSits'
<1>1. CASE status[o] # "PENDING"
  BY <1>1, QuietStep, QuietTask DEF MarkFailed, ledgerVars, ledger, Done, Idle
<1>2. CASE status[o] = "PENDING"
  <2>1. status' = [status EXCEPT ![o] = "FAILED"] /\ UNCHANGED ledgerVars
    BY <1>2 DEF MarkFailed
  <2>2. status \in [Order -> {"NONE", "PENDING", "PAID", "FAILED", "REFUNDED"}]
    BY DEF LedgerInv, TypeInv, TypeOK, OrderTypes
  <2>3. \A v \in Worker : At(v, "reversing") => task[v].order \in Order /\ task[v].order # o
    BY <1>2, StartedTask DEF LedgerInv, ClaimsHold, At
  <2>4. ClaimsHold'
    BY <2>1, <2>2, <2>3, ClaimsStand DEF ledgerVars
  <2>5. CreditsMature' /\ ReversedWhereItSits'
    BY <2>1 DEF LedgerInv, CreditsMature, ReversedWhereItSits, ledgerVars
  <2>6. LedgerMatchesStatus'
    BY <1>2, <2>1, <2>2 DEF LedgerInv, LedgerMatchesStatus, ledgerVars
  <2> QED
    BY <2>4, <2>5, <2>6
<1> QED
  BY <1>1, <1>2

\* The claim of a refund: it reads the credit under the row lock.
LEMMA ClaimLedger ==
    ASSUME LedgerInv, NEW w \in Worker, NEW o \in Order, NEW p, NEW a, ClaimRefund(w, o, p, a)
    PROVE  ClaimsHold' /\ CreditsMature' /\ LedgerMatchesStatus' /\ ReversedWhereItSits'
<1>1. /\ status[o] = "PAID" /\ ~Claimed(o)
      /\ task' = [task EXCEPT ![w] = [pc |-> "reversing", order |-> o, pay |-> p, act |-> a,
                                      onHold |-> credit[o].status = "PENDING"]]
      /\ UNCHANGED ledger
  BY DEF ClaimRefund, Goto, orderVars, ledgerVars, ledger
<1>2. task \in [Worker -> Named]
  BY DEF LedgerInv, TypeInv
<1>3. credit[o].status \in {"PENDING", "AVAILABLE"}
  <2>1. credit[o] \in Entries /\ credit[o].n = 1
    BY <1>1 DEF LedgerInv, LedgerMatchesStatus, TypeInv, TypeOK, LedgerTypes
  <2> QED
    BY <2>1 DEF LedgerInv, CreditsMature, Entries
<1>4. ClaimsHold'
  BY <1>1, <1>2, <1>3 DEF LedgerInv, ClaimsHold, Claimed, At, ledger
<1>5. CreditsMature' /\ LedgerMatchesStatus' /\ ReversedWhereItSits'
  BY <1>1 DEF LedgerInv, CreditsMature, LedgerMatchesStatus, ReversedWhereItSits, ledger
<1> QED
  BY <1>4, <1>5

\* The second half of a refund: one debit, where the credit was when it was claimed.
LEMMA CommitLedger ==
    ASSUME LedgerInv, NEW w \in Worker, CommitRefund(w)
    PROVE  ClaimsHold' /\ CreditsMature' /\ LedgerMatchesStatus' /\ ReversedWhereItSits'
<1> DEFINE o == task[w].order
<1>1. /\ status' = [status EXCEPT ![o] = "REFUNDED"]
      /\ debit' = [debit EXCEPT ![o] = Added(@, DebitStatus(task[w].onHold))]
      /\ UNCHANGED <<credit, matured>>
      /\ Done(w) /\ At(w, "reversing")
  BY DEF CommitRefund
<1>2. o \in Order
  BY <1>1, StartedTask DEF LedgerInv, At
<1>3. /\ status \in [Order -> {"NONE", "PENDING", "PAID", "FAILED", "REFUNDED"}]
      /\ credit \in [Order -> Entries] /\ debit \in [Order -> Entries]
      /\ matured \in [Order -> BOOLEAN]
  BY DEF LedgerInv, TypeInv, TypeOK, OrderTypes, LedgerTypes
<1>4. status[o] = "PAID" /\ (task[w].onHold \/ credit[o].status = "AVAILABLE")
  BY <1>1 DEF LedgerInv, ClaimsHold
<1>5. credit[o].n = 1 /\ debit[o].n = 0
  BY <1>2, <1>4 DEF LedgerInv, LedgerMatchesStatus
<1>6. ClaimsHold'
  <2>1. \A v \in Worker : v # w /\ At(v, "reversing") => task[v].order # o
    BY <1>1 DEF LedgerInv, ClaimsHold
  <2> QED
    BY <1>1, <1>3, <2>1, ClaimsStand
<1>7. CreditsMature'
  BY <1>1 DEF LedgerInv, CreditsMature
<1>8. LedgerMatchesStatus'
  BY <1>1, <1>2, <1>3, <1>5 DEF LedgerInv, LedgerMatchesStatus, Added, Entries
<1>9. ReversedWhereItSits'
  <2>1. credit[o].status \in {"PENDING", "AVAILABLE"}
    BY <1>2, <1>3, <1>5 DEF LedgerInv, CreditsMature, Entries
  <2>2. credit[o].status = "AVAILABLE" => matured[o]
    BY <1>2 DEF LedgerInv, CreditsMature
  <2> QED
    BY <1>1, <1>2, <1>3, <1>4, <1>5, <2>1, <2>2
    DEF LedgerInv, ReversedWhereItSits, Added, DebitStatus, Entries
<1> QED
  BY <1>6, <1>7, <1>8, <1>9

\* The release of everything whose hold has passed.
LEMMA ReleaseLedger ==
    ASSUME LedgerInv, ReleaseMatured
    PROVE  ClaimsHold' /\ CreditsMature' /\ LedgerMatchesStatus' /\ ReversedWhereItSits'
<1>1. /\ credit' = [o \in Order |-> Released(credit, o)]
      /\ debit' = [o \in Order |-> Released(debit, o)]
      /\ UNCHANGED <<status, matured, task>>
  BY DEF ReleaseMatured, orderVars
<1>2. /\ credit \in [Order -> Entries] /\ debit \in [Order -> Entries]
  BY DEF LedgerInv, TypeInv, TypeOK, LedgerTypes
<1>3. \A o \in Order :
        /\ credit'[o].n = credit[o].n /\ debit'[o].n = debit[o].n
        /\ credit[o].status = "AVAILABLE" => credit'[o].status = "AVAILABLE"
  BY <1>1, <1>2 DEF Released, Entries
<1>4. ClaimsHold'
  <2>1. \A w \in Worker : At(w, "reversing") => task[w].order \in Order
    BY StartedTask DEF LedgerInv, At
  <2> QED
    BY <1>1, <1>3, <2>1 DEF LedgerInv, ClaimsHold, At
<1>5. CreditsMature'
  BY <1>1, <1>2 DEF LedgerInv, CreditsMature, Released, Entries
<1>6. LedgerMatchesStatus'
  BY <1>1, <1>3 DEF LedgerInv, LedgerMatchesStatus
<1>7. ReversedWhereItSits'
  <2> SUFFICES ASSUME NEW o \in Order, debit'[o].n > 0
               PROVE  /\ debit'[o].status = "AVAILABLE" => credit'[o].status = "AVAILABLE"
                      /\ credit'[o].status # debit'[o].status => matured'[o]
    BY DEF ReversedWhereItSits
  <2>1. debit[o].n > 0
    BY <1>3
  <2>2. credit[o].n = 1
    BY <2>1 DEF LedgerInv, LedgerMatchesStatus
  <2>3. credit[o].status \in {"PENDING", "AVAILABLE"}
    BY <1>2, <2>2 DEF LedgerInv, CreditsMature, Entries
  <2>4. /\ debit[o].status = "AVAILABLE" => credit[o].status = "AVAILABLE"
        /\ credit[o].status # debit[o].status => matured[o]
    BY <2>1 DEF LedgerInv, ReversedWhereItSits
  <2> QED
    BY <1>1, <1>2, <2>3, <2>4 DEF Released, Entries
<1> QED
  BY <1>4, <1>5, <1>6, <1>7

\* Every step keeps the ledger invariant.
LEMMA LedgerStep ==
    ASSUME LedgerInv, [Next]_vars
    PROVE  LedgerInv'
<1> DEFINE Rest == ClaimsHold /\ CreditsMature /\ LedgerMatchesStatus /\ ReversedWhereItSits
<1> USE DEF At, IsIdle, Done
<1>a. Handler \subseteq Worker /\ Job \in Worker
  BY DEF Worker
<1>b. TypeInv' /\ TypeInv
  BY TypeStep DEF LedgerInv
<1>c. \A o \in Order, s \in {"create", "lookup", "store", "ask", "reverse"} :
         ([Idle EXCEPT !.pc = s, !.order = o]).pc # "reversing"
  BY DEF Idle
<1>d. ASSUME NEW w \in Worker, w \in Handler \/ w = Job,
             \/ GatewayAnswers(w) \/ GatewayThrows(w) \/ LinkOrder(w) \/ LookupAnswers(w)
             \/ LookupThrows(w) \/ ProviderRefuses(w) \/ ProviderRefunds(w) \/ StoreWebhook(w)
             \/ TaskFails(w)
      PROVE  Rest'
  <2>1. UNCHANGED ledger
    BY <1>d DEF GatewayAnswers, GatewayThrows, LinkOrder, LookupAnswers, LookupThrows,
                ProviderRefuses, ProviderRefunds, StoreWebhook, TaskFails,
                orderVars, ledgerVars, ledger
  <2>2. task[w] \in Task
    BY <1>b DEF TypeInv, Named
  <2>3. \E t : t.pc # "reversing" /\ Goto(w, t)
    <3>1. CASE GatewayAnswers(w)
      BY <2>2, <3>1 DEF GatewayAnswers, Task
    <3>2. CASE LinkOrder(w)
      BY <2>2, <3>2 DEF LinkOrder, Task, Idle
    <3>3. CASE LookupAnswers(w)
      BY <2>2, <3>3 DEF LookupAnswers, Task, Idle
    <3>4. CASE StoreWebhook(w)
      BY <2>2, <3>4 DEF StoreWebhook, Task, Idle
    <3>5. CASE ProviderRefunds(w) \/ GatewayThrows(w)
      BY <2>2, <3>5 DEF ProviderRefunds, GatewayThrows, Task
    <3>6. CASE LookupThrows(w) \/ ProviderRefuses(w) \/ TaskFails(w)
      BY <3>6 DEF LookupThrows, ProviderRefuses, TaskFails, Idle
    <3> QED
      BY <1>d, <3>1, <3>2, <3>3, <3>4, <3>5, <3>6
  <2> QED
    BY <2>1, <2>3, QuietStep, QuietTask
<1>1. ASSUME NEW h \in Handler, NEW o \in Order, PlaceOrder(h, o)
      PROVE  Rest'
  <2>1. /\ status' = [status EXCEPT ![o] = "PENDING"] /\ status[o] = "NONE"
        /\ UNCHANGED <<credit, debit, matured>>
    BY <1>1 DEF PlaceOrder, ledgerVars
  <2>2. status \in [Order -> {"NONE", "PENDING", "PAID", "FAILED", "REFUNDED"}]
    BY <1>b DEF TypeInv, TypeOK, OrderTypes
  <2>3. \A v \in Worker : At(v, "reversing")' => At(v, "reversing") /\ task'[v] = task[v]
    BY <1>1, <1>a, <1>b DEF PlaceOrder, Goto, Idle, TypeInv
  <2>4. \A v \in Worker : At(v, "reversing") => task[v].order # o
    BY <2>1 DEF LedgerInv, ClaimsHold
  <2>5. ClaimsHold'
    BY <2>1, <2>2, <2>3, <2>4 DEF LedgerInv, ClaimsHold
  <2>6. CreditsMature' /\ ReversedWhereItSits'
    BY <2>1 DEF LedgerInv, CreditsMature, ReversedWhereItSits
  <2>7. LedgerMatchesStatus'
    BY <2>1, <2>2 DEF LedgerInv, LedgerMatchesStatus
  <2> QED
    BY <2>5, <2>6, <2>7
<1>2. ASSUME NEW h \in Handler, NEW o \in Order, ReadOrder(h, o) \/ RequestRefund(h, o)
      PROVE  Rest'
  <2>1. UNCHANGED ledger
    BY <1>2 DEF ReadOrder, RequestRefund, orderVars, ledgerVars, ledger
  <2>2. \E t : t.pc # "reversing" /\ Goto(h, t)
    BY <1>2 DEF ReadOrder, RequestRefund, StartLookup, Idle
  <2> QED
    BY <1>a, <2>1, <2>2, QuietStep, QuietTask
<1>3. ASSUME NEW h \in Handler, NEW p \in Payment, ParseWebhook(h, p)
      PROVE  Rest'
  <2>1. UNCHANGED ledger
    BY <1>3 DEF ParseWebhook, orderVars, ledgerVars, ledger
  <2>2. \E t : t.pc # "reversing" /\ Goto(h, t)
    BY <1>3 DEF ParseWebhook, Idle
  <2> QED
    BY <1>a, <2>1, <2>2, QuietStep, QuietTask
<1>4. ASSUME NEW w \in Worker, AbortCheckout(w) \/ FinishCheckout(w) \/ ApplyReconciliation(w)
      PROVE  Rest'
  <2>1. task[w].order \in Order /\ task[w].pay \in Payment \union {None}
    BY <1>4, <1>b, StartedTask DEF AbortCheckout, FinishCheckout, ApplyReconciliation
  <2>2. /\ Done(w)
        /\ \/ MarkFailed(task[w].order)
           \/ MarkPaid(task[w].order, None, TRUE)
           \/ MarkPaid(task[w].order, task[w].pay, FALSE)
    BY <1>4 DEF AbortCheckout, FinishCheckout, ApplyReconciliation
  <2> QED
    BY <2>1, <2>2, MarkPaidLedger, MarkFailedLedger
<1>5. ASSUME NEW w \in Worker, DispatchWebhook(w)
      PROVE  Rest'
  <2>1. task[w].order \in Order /\ task[w].pay \in Payment \union {None}
    BY <1>5, <1>b, StartedTask DEF DispatchWebhook
  <2>2. /\ Done(w)
        /\ \/ MarkFailed(task[w].order)
           \/ MarkPaid(task[w].order, task[w].pay, FALSE)
           \/ UNCHANGED <<orderVars, ledgerVars>>
    BY <1>5 DEF DispatchWebhook
  <2>3. CASE UNCHANGED <<orderVars, ledgerVars>>
    <3>1. UNCHANGED ledger
      BY <2>3 DEF orderVars, ledgerVars, ledger
    <3> QED
      BY <2>2, <3>1, QuietStep, QuietTask DEF Idle
  <2> QED
    BY <2>1, <2>2, <2>3, MarkPaidLedger, MarkFailedLedger
<1>6. ASSUME NEW w \in Worker, DispatchRefund(w)
      PROVE  Rest'
  BY <1>6, <1>b, StartedTask, ClaimLedger DEF DispatchRefund
<1>7. ASSUME NEW w \in Worker, ReverseOrder(w)
      PROVE  Rest'
  <2>1. task[w].order \in Order
    BY <1>7, <1>b, StartedTask DEF ReverseOrder
  <2>2. CASE ClaimRefund(w, task[w].order, task[w].pay, "admin")
    BY <2>1, <2>2, ClaimLedger
  <2>3. CASE Done(w) /\ UNCHANGED <<orderVars, ledgerVars>>
    <3>1. UNCHANGED ledger
      BY <2>3 DEF orderVars, ledgerVars, ledger
    <3> QED
      BY <2>3, <3>1, QuietStep, QuietTask DEF Idle
  <2> QED
    BY <1>7, <2>2, <2>3 DEF ReverseOrder
<1>8. ASSUME NEW w \in Worker, CommitRefund(w)
      PROVE  Rest'
  BY <1>8, CommitLedger
<1>9. ASSUME ReleaseMatured
      PROVE  Rest'
  BY <1>9, ReleaseLedger
<1>10. ASSUME NEW o \in Order, Mature(o)
       PROVE  Rest'
  <2>1. /\ matured' = [matured EXCEPT ![o] = TRUE]
        /\ UNCHANGED <<status, credit, debit, task>>
    BY <1>10 DEF Mature, orderVars
  <2>2. matured \in [Order -> BOOLEAN]
    BY <1>b DEF TypeInv, TypeOK, LedgerTypes
  <2> QED
    BY <2>1, <2>2 DEF LedgerInv, ClaimsHold, CreditsMature, LedgerMatchesStatus, ReversedWhereItSits
<1>11. ASSUME NEW o \in Order, JobNext(o)
       PROVE  Rest'
  <2>1. UNCHANGED ledger
    BY <1>11 DEF JobNext, orderVars, ledgerVars, ledger
  <2>2. \A v \in Worker : task'[v] = task[v] \/ task'[v].pc # "reversing"
    BY <1>11, <1>b DEF JobNext, StartLookup, Goto, Idle, TypeInv
  <2> QED
    BY <2>1, <2>2, QuietStep
<1>12. ASSUME StartJob \/ JobFails \/ Crash \/ (\E o \in Order : GrowOld(o)) \/ UNCHANGED vars
              \/ \E p \in Payment : BuyerPays(p) \/ ProviderDecides(p) \/ ProviderReverses(p)
       PROVE  Rest'
  <2>1. UNCHANGED ledger
    BY <1>12 DEF StartJob, JobFails, Crash, GrowOld, BuyerPays, ProviderDecides,
                 ProviderReverses, SetPayment, vars, orderVars, ledgerVars, ledger
  <2>2. \A v \in Worker : task'[v] = task[v] \/ task'[v].pc # "reversing"
    BY <1>12 DEF StartJob, JobFails, Crash, GrowOld, BuyerPays, ProviderDecides,
                 ProviderReverses, SetPayment, vars, Idle
  <2> QED
    BY <2>1, <2>2, QuietStep
<1> QED
  BY <1>a, <1>b, <1>d, <1>1, <1>2, <1>3, <1>4, <1>5, <1>6, <1>7, <1>8, <1>9, <1>10, <1>11, <1>12
  DEF LedgerInv, Next, Step, Request, Worker

\* The ledger starts empty.
LEMMA InitLedger == Init => LedgerInv
<1> SUFFICES ASSUME Init PROVE LedgerInv
  OBVIOUS
<1>1. TypeInv
  BY InitType
<1>2. ClaimsHold
  BY DEF Init, ClaimsHold, At, Idle
<1>3. CreditsMature
  BY DEF Init, CreditsMature, NoEntries
<1>4. LedgerMatchesStatus
  BY DEF Init, LedgerMatchesStatus, NoEntries
<1>5. ReversedWhereItSits
  BY DEF Init, ReversedWhereItSits, NoEntries
<1> QED
  BY <1>1, <1>2, <1>3, <1>4, <1>5 DEF LedgerInv

\* The ledger invariant holds from the start on.
LEMMA LedgerCorrect == Spec => []LedgerInv
<1>1. Init => LedgerInv
  BY InitLedger
<1>2. LedgerInv /\ [Next]_vars => LedgerInv'
  BY LedgerStep
<1> QED
  BY <1>1, <1>2, PTL DEF Spec

\* Whoever confirms, refuses or refunds a payment, and in whatever interleaving, an
\* order has one SALE_CREDIT exactly when it is PAID or REFUNDED and one REFUND_DEBIT
\* exactly when it is REFUNDED.
THEOREM LedgerFollowsStatus == Spec => []LedgerMatchesStatus
<1>1. LedgerInv => LedgerMatchesStatus
  BY DEF LedgerInv
<1> QED
  BY <1>1, LedgerCorrect, PTL

\* A refund takes nothing a seller could not withdraw yet, also when the hold ends
\* between its read of the credit and its write of the debit.
THEOREM RefundReversesInPlace == Spec => []ReversedWhereItSits
<1>1. LedgerInv => ReversedWhereItSits
  BY DEF LedgerInv
<1> QED
  BY <1>1, LedgerCorrect, PTL

-----------------------------------------------------------------------------
(* Money: what a worker knows of the provider when it acts, and what an     *)
(* order's status says about the provider's payments.                       *)

\* The provider returned a payment of the order, or never had one.
MoneyBack(o) == mock[o] \/ \E p \in {o} \X Attempt : payStatus[p] \in Returned

\* What a worker may still rely on, however long ago it asked.
Knows(w) ==
    LET t == task[w]
    IN  /\ t.pc \in Hook =>
              /\ t.pay \in {t.order} \X Attempt
              /\ t.act \in Taken => payStatus[t.pay] \in Taken
              /\ t.act \in Returned => payStatus[t.pay] \in Returned
        /\ t.pc = "apply" /\ t.act = "paid" =>
              t.pay \in {t.order} \X Attempt /\ payStatus[t.pay] \in Taken
        /\ t.pc = "ask" => t.pay \in {t.order} \X Attempt
        /\ t.pc \in {"reverse", "reversing"} => MoneyBack(t.order)

MoneyInv ==
    /\ LedgerInv
    /\ \A w \in Worker : Knows(w)
    /\ \A o \in Order : mock[o] => status[o] \in {"PAID", "REFUNDED"}
    /\ PaidOnlyForTakenMoney
    /\ ReversedOnlyForReturnedMoney

\* What one step may do to an order: place it, fail it, pay it, refund it.
Placed(o) ==
    /\ status[o] = "NONE"
    /\ status' = [status EXCEPT ![o] = "PENDING"]
    /\ UNCHANGED <<charge, mock, salesCount>>
Failed(o) ==
    /\ status[o] = "PENDING"
    /\ status' = [status EXCEPT ![o] = "FAILED"]
    /\ UNCHANGED <<charge, mock, salesCount>>
PaidBy(o, p, m) ==
    /\ status[o] \in PAYABLE_STATUSES
    /\ status' = [status EXCEPT ![o] = "PAID"]
    /\ charge' = [charge EXCEPT ![o] = IF p = None THEN @ ELSE p]
    /\ mock' = [mock EXCEPT ![o] = m]
    /\ salesCount' = salesCount + 1
    /\ m \/ (p \in {o} \X Attempt /\ payStatus[p] \in Taken)
Refunded(o) ==
    /\ status[o] = "PAID"
    /\ MoneyBack(o)
    /\ status' = [status EXCEPT ![o] = "REFUNDED"]
    /\ salesCount' = SaleLeaves(salesCount)
    /\ UNCHANGED <<charge, mock>>
orderRow == <<status, charge, mock, salesCount>>
OrderMove ==
    \/ UNCHANGED orderRow
    \/ \E o \in Order :
          \/ Placed(o) \/ Failed(o) \/ Refunded(o)
          \/ \E p \in Payment \union {None}, m \in BOOLEAN : PaidBy(o, p, m)

\* A payment the provider took stays taken, one it returned stays returned.
LEMMA PaymentsStand ==
    ASSUME TypeInv, [Next]_vars, NEW p \in Payment
    PROVE  /\ payStatus[p] \in Taken => payStatus'[p] \in Taken
           /\ payStatus[p] \in Returned => payStatus'[p] \in Returned
<1> DEFINE Stands == /\ payStatus[p] \in Taken => payStatus'[p] \in Taken
                     /\ payStatus[p] \in Returned => payStatus'[p] \in Returned
<1>1. CASE UNCHANGED payStatus
  BY <1>1
<1>2. ASSUME NEW w \in Worker, ProviderRefunds(w)
      PROVE  Stands
  BY <1>2 DEF ProviderRefunds, Taken, Returned, TypeInv, TypeOK
<1>3. ASSUME NEW q \in Payment, BuyerPays(q) \/ ProviderDecides(q) \/ ProviderReverses(q)
      PROVE  Stands
  BY <1>3 DEF BuyerPays, ProviderDecides, ProviderReverses, SetPayment, Taken, Returned,
              TypeInv, TypeOK
<1>4. ASSUME NEW h \in Handler, Request(h)
      PROVE  UNCHANGED payStatus
  BY <1>4 DEF Request, PlaceOrder, ReadOrder, RequestRefund, ParseWebhook
<1>5. ASSUME NEW w \in Worker, Step(w) \/ TaskFails(w), ~ProviderRefunds(w)
      PROVE  UNCHANGED payStatus
  BY <1>5 DEF Step, TaskFails, GatewayAnswers, GatewayThrows, AbortCheckout, LinkOrder,
       FinishCheckout, StoreWebhook, DispatchWebhook, DispatchRefund, LookupAnswers, LookupThrows,
       ApplyReconciliation, ProviderRefuses, ReverseOrder, CommitRefund
<1>6. ASSUME StartJob \/ JobFails \/ ReleaseMatured \/ Crash \/ UNCHANGED vars
             \/ \E o \in Order : JobNext(o) \/ Mature(o) \/ GrowOld(o)
      PROVE  UNCHANGED payStatus
  BY <1>6 DEF StartJob, JobFails, ReleaseMatured, Crash, JobNext, Mature, GrowOld, vars
<1> QED
  BY <1>1, <1>2, <1>3, <1>4, <1>5, <1>6 DEF Next

\* markPaid and markFailed move the order they name, if it still may move.
LEMMA MarkPaidMove ==
    ASSUME NEW o \in Order, NEW p \in Payment \union {None}, NEW m \in BOOLEAN,
           MarkPaid(o, p, m), m \/ (p \in {o} \X Attempt /\ payStatus[p] \in Taken)
    PROVE  OrderMove
<1>1. CASE status[o] \in PAYABLE_STATUSES
  BY <1>1 DEF MarkPaid, OrderMove, PaidBy
<1>2. CASE status[o] \notin PAYABLE_STATUSES
  BY <1>2 DEF MarkPaid, OrderMove, orderRow, orderVars, ledgerVars
<1> QED
  BY <1>1, <1>2

LEMMA MarkFailedMove ==
    ASSUME NEW o \in Order, MarkFailed(o)
    PROVE  OrderMove
<1>1. CASE status[o] = "PENDING"
  BY <1>1 DEF MarkFailed, OrderMove, Failed, ledgerVars
<1>2. CASE status[o] # "PENDING"
  BY <1>2 DEF MarkFailed, OrderMove, orderRow, ledgerVars
<1> QED
  BY <1>1, <1>2

\* Every step places, fails, pays or refunds one order, with the money to show for it,
\* or leaves the orders as they are.
LEMMA StepMoves ==
    ASSUME MoneyInv, [Next]_vars
    PROVE  OrderMove
<1> USE DEF At
<1>a. TypeInv /\ LedgerInv
  BY DEF MoneyInv, LedgerInv
<1>b. Handler \subseteq Worker
  BY DEF Worker
<1>1. ASSUME NEW h \in Handler, NEW o \in Order, PlaceOrder(h, o)
      PROVE  OrderMove
  BY <1>1 DEF PlaceOrder, OrderMove, Placed, ledgerVars
<1>2. ASSUME NEW w \in Worker, AbortCheckout(w) \/ FinishCheckout(w)
      PROVE  OrderMove
  <2>1. task[w].order \in Order
    BY <1>2, <1>a, StartedTask DEF AbortCheckout, FinishCheckout
  <2>2. MarkFailed(task[w].order) \/ MarkPaid(task[w].order, None, TRUE)
    BY <1>2 DEF AbortCheckout, FinishCheckout
  <2> QED
    BY <2>1, <2>2, MarkPaidMove, MarkFailedMove
<1>3. ASSUME NEW w \in Worker, ApplyReconciliation(w)
      PROVE  OrderMove
  <2>1. task[w].order \in Order /\ task[w].pay \in Payment \union {None}
    BY <1>3, <1>a, StartedTask DEF ApplyReconciliation
  <2>2. CASE task[w].act = "paid"
    <3>1. task[w].pay \in {task[w].order} \X Attempt /\ payStatus[task[w].pay] \in Taken
      BY <1>3, <2>2 DEF ApplyReconciliation, MoneyInv, Knows
    <3>2. MarkPaid(task[w].order, task[w].pay, FALSE)
      BY <1>3, <2>2 DEF ApplyReconciliation
    <3> QED
      BY <2>1, <3>1, <3>2, MarkPaidMove
  <2>3. CASE task[w].act # "paid"
    BY <1>3, <2>1, <2>3, MarkFailedMove DEF ApplyReconciliation
  <2> QED
    BY <2>2, <2>3
<1>4. ASSUME NEW w \in Worker, DispatchWebhook(w)
      PROVE  OrderMove
  <2>1. task[w].order \in Order /\ task[w].pay \in Payment \union {None}
    BY <1>4, <1>a, StartedTask DEF DispatchWebhook
  <2>2. CASE task[w].act = "approved" /\ MarkPaid(task[w].order, task[w].pay, FALSE)
    <3>1. task[w].pay \in {task[w].order} \X Attempt /\ payStatus[task[w].pay] \in Taken
      BY <1>4, <2>2 DEF DispatchWebhook, MoneyInv, Knows, Hook, Taken
    <3> QED
      BY <2>1, <2>2, <3>1, MarkPaidMove
  <2>3. CASE UNCHANGED <<orderVars, ledgerVars>>
    BY <2>3 DEF OrderMove, orderRow, orderVars, ledgerVars
  <2>4. EventKind(task[w].act) = "order.paid" => task[w].act = "approved"
    BY DEF EventKind, FINAL_FAILURE_STATUSES, Returned
  <2>5. \/ task[w].act = "approved" /\ MarkPaid(task[w].order, task[w].pay, FALSE)
        \/ MarkFailed(task[w].order)
        \/ UNCHANGED <<orderVars, ledgerVars>>
    BY <1>4, <2>4 DEF DispatchWebhook
  <2> QED
    BY <2>1, <2>2, <2>3, <2>5, MarkFailedMove
<1>5. ASSUME NEW w \in Worker, CommitRefund(w)
      PROVE  OrderMove
  <2>1. task[w].order \in Order
    BY <1>5, <1>a, StartedTask DEF CommitRefund
  <2>2. status[task[w].order] = "PAID" /\ MoneyBack(task[w].order)
    BY <1>5, <1>a DEF CommitRefund, LedgerInv, ClaimsHold, MoneyInv, Knows
  <2> QED
    BY <1>5, <2>1, <2>2 DEF CommitRefund, OrderMove, Refunded
<1>6. ASSUME NEW w \in Worker,
             \/ GatewayAnswers(w) \/ GatewayThrows(w) \/ LinkOrder(w) \/ LookupAnswers(w)
             \/ LookupThrows(w) \/ ProviderRefuses(w) \/ ProviderRefunds(w) \/ StoreWebhook(w)
             \/ TaskFails(w) \/ DispatchRefund(w) \/ ReverseOrder(w)
      PROVE  UNCHANGED orderRow
  BY <1>6 DEF GatewayAnswers, GatewayThrows, LinkOrder, LookupAnswers, LookupThrows,
       ProviderRefuses, ProviderRefunds, StoreWebhook, TaskFails, DispatchRefund, ReverseOrder,
       ClaimRefund, orderVars, ledgerVars, orderRow
<1>7. ASSUME NEW h \in Handler, NEW o \in Order, ReadOrder(h, o) \/ RequestRefund(h, o)
      PROVE  UNCHANGED orderRow
  BY <1>7 DEF ReadOrder, RequestRefund, orderVars, ledgerVars, orderRow
<1>8. ASSUME NEW h \in Handler, NEW p \in Payment, ParseWebhook(h, p)
      PROVE  UNCHANGED orderRow
  BY <1>8 DEF ParseWebhook, orderVars, ledgerVars, orderRow
<1>9. ASSUME StartJob \/ JobFails \/ ReleaseMatured \/ Crash \/ UNCHANGED vars
             \/ (\E o \in Order : JobNext(o) \/ Mature(o) \/ GrowOld(o))
             \/ \E p \in Payment : BuyerPays(p) \/ ProviderDecides(p) \/ ProviderReverses(p)
      PROVE  UNCHANGED orderRow
  BY <1>9 DEF StartJob, JobFails, ReleaseMatured, Crash, JobNext, Mature, GrowOld, BuyerPays,
       ProviderDecides, ProviderReverses, SetPayment, vars, orderVars, ledgerVars, orderRow
<1> QED
  BY <1>1, <1>2, <1>3, <1>4, <1>5, <1>6, <1>7, <1>8, <1>9
  DEF Next, Step, Request, OrderMove

\* Money an order was refunded for stays returned.
LEMMA MoneyBackStays ==
    ASSUME MoneyInv, [Next]_vars, NEW o \in Order, MoneyBack(o)
    PROVE  MoneyBack(o)'
<1>1. TypeInv /\ OrderMove
  BY StepMoves DEF MoneyInv, LedgerInv
<1>2. CASE mock[o]
  <2>1. status[o] \in {"PAID", "REFUNDED"}
    BY <1>2 DEF MoneyInv
  <2>2. mock \in [Order -> BOOLEAN]
    BY <1>1 DEF TypeInv, TypeOK, OrderTypes
  <2>3. mock'[o]
    BY <1>1, <1>2, <2>1, <2>2
    DEF OrderMove, orderRow, Placed, Failed, Refunded, PaidBy, PAYABLE_STATUSES
  <2> QED
    BY <2>3 DEF MoneyBack
<1>3. ASSUME NEW p \in {o} \X Attempt, payStatus[p] \in Returned
      PROVE  MoneyBack(o)'
  <2>1. p \in Payment
    BY DEF Payment
  <2>2. payStatus'[p] \in Returned
    BY <1>1, <1>3, <2>1, PaymentsStand
  <2> QED
    BY <2>2 DEF MoneyBack
<1> QED
  BY <1>2, <1>3 DEF MoneyBack

\* A task that is not touched goes on knowing what it knew.
LEMMA KnowsStays ==
    ASSUME MoneyInv, [Next]_vars, NEW w \in Worker, task'[w] = task[w]
    PROVE  Knows(w)'
<1> DEFINE t == task[w]
<1>1. TypeInv /\ Knows(w)
  BY DEF MoneyInv, LedgerInv
<1>2. t.pc # "idle" => t.order \in Order
  BY <1>1, StartedTask
<1>3. \A p \in {t.order} \X Attempt : t.order \in Order =>
        /\ payStatus[p] \in Taken => payStatus'[p] \in Taken
        /\ payStatus[p] \in Returned => payStatus'[p] \in Returned
  BY <1>1, PaymentsStand DEF Payment
<1>4. t.pc \in {"reverse", "reversing"} => MoneyBack(t.order)'
  BY <1>1, <1>2, MoneyBackStays DEF Knows
<1> QED
  BY <1>1, <1>2, <1>3, <1>4 DEF Knows, Hook

\* Every step of a worker leaves it with what it has just learnt.
LEMMA KnowsStep ==
    ASSUME MoneyInv, [Next]_vars, NEW w \in Worker
    PROVE  Knows(w)'
<1> USE DEF At, IsIdle, Done
<1>a. TypeInv /\ (\A v \in Worker : Knows(v)) /\ Handler \subseteq Worker /\ Job \in Worker
  BY DEF MoneyInv, LedgerInv, Worker
<1>b. CASE task'[w] = task[w]
  BY <1>b, KnowsStays
<1>c. task \in [Worker -> Task]
  BY <1>a DEF TypeInv, Named
<1>d. CASE task'[w].pc \notin Hook \union {"apply", "ask", "reverse", "reversing"}
  BY <1>d DEF Knows
<1>e. ASSUME NEW v \in Worker, v # w, NEW t, Goto(v, t)
      PROVE  task'[w] = task[w]
  BY <1>e, <1>c DEF Goto
<1>f. ASSUME NEW t, Goto(w, t)
      PROVE  task'[w] = t
  BY <1>f, <1>c DEF Goto
<1>1. ASSUME NEW h \in Handler, NEW o \in Order, PlaceOrder(h, o) \/ ReadOrder(h, o)
      PROVE  Knows(w)'
  <2>1. CASE h = w
    BY <1>1, <2>1, <1>c, <1>d DEF PlaceOrder, ReadOrder, StartLookup, Goto, Idle, Hook
  <2> QED
    BY <1>1, <2>1, <1>a, <1>b, <1>c DEF PlaceOrder, ReadOrder, StartLookup, Goto
<1>2. ASSUME NEW h \in Handler, NEW o \in Order, RequestRefund(h, o)
      PROVE  Knows(w)'
  <2>1. CASE h = w /\ mock[o]
    <3>1. Goto(w, [Idle EXCEPT !.pc = "reverse", !.order = o, !.act = "admin"])
      BY <1>2, <2>1 DEF RequestRefund
    <3>2. task'[w].pc = "reverse" /\ task'[w].order = o
      BY <3>1, <1>c DEF Goto, Idle
    <3>3. mock' = mock
      BY <1>2 DEF RequestRefund, orderVars
    <3> QED
      BY <2>1, <3>2, <3>3 DEF Knows, MoneyBack, Hook
  <2>2. CASE h = w /\ ~mock[o]
    <3>1. task'[w].pc = "ask" /\ task'[w].order = o /\ task'[w].pay = charge[o]
      BY <1>2, <2>2, <1>c DEF RequestRefund, Goto, Idle
    <3>2. charge[o] \in {o} \X Attempt
      BY <1>2, <2>2 DEF RequestRefund, MoneyInv, PaidOnlyForTakenMoney
    <3> QED
      BY <3>1, <3>2 DEF Knows, Hook
  <2>3. CASE h # w
    BY <1>2, <2>3, <1>b, <1>c DEF RequestRefund, Goto
  <2> QED
    BY <2>1, <2>2, <2>3
<1>3. ASSUME NEW h \in Handler, NEW p \in Payment, ParseWebhook(h, p)
      PROVE  Knows(w)'
  <2>1. CASE h = w
    <3>1. /\ task'[w].pc = "store" /\ task'[w].order = p[1] /\ task'[w].pay = p
          /\ task'[w].act = payStatus[p] /\ payStatus' = payStatus
      BY <1>3, <2>1, <1>c DEF ParseWebhook, Goto, Idle
    <3>2. p \in {p[1]} \X Attempt
      BY DEF Payment
    <3> QED
      BY <3>1, <3>2 DEF Knows
  <2> QED
    BY <1>3, <2>1, <1>b, <1>c DEF ParseWebhook, Goto
<1>4. ASSUME NEW v \in Worker,
             \/ GatewayAnswers(v) \/ GatewayThrows(v) \/ LinkOrder(v)
             \/ LookupThrows(v) \/ ProviderRefuses(v) \/ TaskFails(v)
             \/ AbortCheckout(v) \/ FinishCheckout(v) \/ ApplyReconciliation(v)
             \/ DispatchWebhook(v) \/ CommitRefund(v)
      PROVE  Knows(w)'
  <2>1. CASE v = w
    <3>1. task[w] \in Task
      BY <1>c
    <3>2. CASE GatewayAnswers(w)
      BY <3>1, <3>2, <1>c, <1>d DEF GatewayAnswers, Goto, Task, Hook
    <3>3. CASE GatewayThrows(w)
      BY <3>1, <3>3, <1>c, <1>d DEF GatewayThrows, Goto, Task, Hook
    <3>4. CASE LinkOrder(w)
      BY <3>1, <3>4, <1>c, <1>d DEF LinkOrder, Goto, Idle, Task, Hook
    <3>5. CASE Goto(w, Idle)
      BY <3>5, <1>c, <1>d DEF Goto, Idle, Hook
    <3> QED
      BY <1>4, <2>1, <3>2, <3>3, <3>4, <3>5
      DEF LookupThrows, ProviderRefuses, TaskFails, AbortCheckout, FinishCheckout,
          ApplyReconciliation, DispatchWebhook, CommitRefund
  <2>2. CASE v # w
    <3>1. \E t : Goto(v, t)
      BY <1>4 DEF GatewayAnswers, GatewayThrows, LinkOrder, LookupThrows,
         ProviderRefuses, TaskFails, AbortCheckout, FinishCheckout, ApplyReconciliation,
         DispatchWebhook, CommitRefund
    <3> QED
      BY <2>2, <3>1, <1>b, <1>e
  <2> QED
    BY <2>1, <2>2
<1>5. ASSUME NEW v \in Worker, StoreWebhook(v)
      PROVE  Knows(w)'
  <2>1. CASE v = w /\ task'[w] = Idle
    BY <2>1, <1>d DEF Idle, Hook
  <2>2. CASE v = w /\ task'[w] = [task[w] EXCEPT !.pc = "dispatch"]
    <3>1. task[w] \in Task
      BY <1>c
    <3>2. /\ task'[w].pc = "dispatch" /\ task'[w].order = task[w].order
          /\ task'[w].pay = task[w].pay /\ task'[w].act = task[w].act
          /\ task[w].pc = "store" /\ payStatus' = payStatus
      BY <1>5, <2>2, <3>1 DEF StoreWebhook, Task
    <3> QED
      BY <1>a, <3>2 DEF Knows, Hook
  <2>3. CASE v = w
    BY <1>5, <2>1, <2>2, <2>3, <1>c DEF StoreWebhook, Goto
  <2>4. CASE v # w
    BY <1>5, <2>4, <1>b, <1>c DEF StoreWebhook, Goto
  <2> QED
    BY <2>3, <2>4
<1>6. ASSUME NEW v \in Worker, LookupAnswers(v)
      PROVE  Knows(w)'
  <2> DEFINE o == task[v].order
  <2>1. CASE v # w
    BY <1>6, <2>1, <1>b, <1>c DEF LookupAnswers, Goto
  <2>2. CASE v = w
    <3>1. task[w] \in Task /\ payStatus' = payStatus
      BY <1>6, <1>c DEF LookupAnswers
    <3>2. ASSUME NEW p \in Approved(o), Goto(w, [task[w] EXCEPT !.pc = "apply", !.act = "paid",
                                                               !.pay = p])
          PROVE  Knows(w)'
      <4>1. task'[w].pc = "apply" /\ task'[w].pay = p /\ task'[w].order = o
        BY <2>2, <3>1, <3>2, <1>c DEF Goto, Task
      <4>2. p \in {o} \X Attempt /\ payStatus[p] \in Taken
        BY DEF Approved, Attempts, Taken
      <4> QED
        BY <3>1, <4>1, <4>2 DEF Knows, Hook
    <3>3. ASSUME Goto(w, [task[w] EXCEPT !.pc = "apply", !.act = "failed", !.pay = None])
          PROVE  Knows(w)'
      <4>1. task'[w].pc = "apply" /\ task'[w].act = "failed"
        BY <3>1, <3>3, <1>c DEF Goto, Task
      <4> QED
        BY <4>1 DEF Knows, Hook
    <3>4. ASSUME Goto(w, Idle)
          PROVE  Knows(w)'
      BY <3>4, <1>c, <1>d DEF Goto, Idle, Hook
    <3> QED
      BY <1>6, <2>2, <3>2, <3>3, <3>4 DEF LookupAnswers
  <2> QED
    BY <2>1, <2>2
<1>7. ASSUME NEW v \in Worker, ProviderRefunds(v)
      PROVE  Knows(w)'
  <2>1. CASE v # w
    BY <1>7, <2>1, <1>b, <1>c DEF ProviderRefunds, Goto
  <2>2. CASE v = w
    <3> DEFINE q == task[w].pay
               o == task[w].order
    <3>1. task[w] \in Task /\ task[w].pc = "ask" /\ o \in Order
      BY <1>7, <2>2, <1>a, StartedTask DEF ProviderRefunds
    <3>2. q \in {o} \X Attempt
      BY <1>a, <3>1 DEF Knows
    <3>3. q \in Payment
      BY <3>1, <3>2 DEF Payment
    <3>4. payStatus'[q] \in Returned
      BY <1>7, <2>2, <3>3, <1>a DEF ProviderRefunds, Returned, TypeInv, TypeOK
    <3>5. task'[w].pc = "reverse" /\ task'[w].order = o
      BY <1>7, <2>2, <3>1, <1>c DEF ProviderRefunds, Goto, Task
    <3> QED
      BY <3>2, <3>4, <3>5 DEF Knows, Hook, MoneyBack
  <2> QED
    BY <2>1, <2>2
<1>8. ASSUME NEW v \in Worker, DispatchRefund(v) \/ ReverseOrder(v)
      PROVE  Knows(w)'
  <2>1. CASE v # w
    BY <1>8, <2>1, <1>b, <1>c DEF DispatchRefund, ReverseOrder, ClaimRefund, Goto
  <2>2. CASE v = w
    <3>0. PICK o \in Order : o = task[w].order
      BY <1>8, <2>2, <1>a, StartedTask DEF DispatchRefund, ReverseOrder
    <3>1. MoneyBack(o)
      <4>1. CASE DispatchRefund(w)
        <5>1. task[w].act \in Returned /\ task[w].pc = "dispatch"
          BY <4>1 DEF DispatchRefund, EventKind
        <5> QED
          BY <3>0, <5>1, <1>a DEF Knows, Hook, MoneyBack
      <4>2. CASE ReverseOrder(w)
        BY <3>0, <4>2, <1>a DEF ReverseOrder, Knows
      <4> QED
        BY <1>8, <2>2, <4>1, <4>2
    <3>2. MoneyBack(o)'
      BY <3>1, MoneyBackStays
    <3>3. \/ task'[w] = Idle
          \/ task'[w].pc = "reversing" /\ task'[w].order = o
      BY <3>0, <1>8, <2>2, <1>c DEF DispatchRefund, ReverseOrder, ClaimRefund, Goto
    <3> QED
      BY <3>2, <3>3, <1>d DEF Knows, Hook, Idle
  <2> QED
    BY <2>1, <2>2
<1>9. ASSUME NEW o \in Order, JobNext(o)
      PROVE  Knows(w)'
  <2>1. task'[w] = task[w] \/ task'[w].pc = "lookup"
    BY <1>9, <1>c DEF JobNext, StartLookup, Goto, Idle
  <2> QED
    BY <2>1, <1>b, <1>d DEF Hook
<1>10. ASSUME StartJob \/ JobFails \/ ReleaseMatured \/ Crash \/ UNCHANGED vars
              \/ (\E o \in Order : Mature(o) \/ GrowOld(o))
              \/ \E p \in Payment : BuyerPays(p) \/ ProviderDecides(p) \/ ProviderReverses(p)
       PROVE  Knows(w)'
  <2>1. task'[w] = task[w] \/ task'[w] = Idle
    BY <1>10 DEF StartJob, JobFails, ReleaseMatured, Crash, Mature, GrowOld, BuyerPays,
       ProviderDecides, ProviderReverses, SetPayment, vars
  <2> QED
    BY <2>1, <1>b, <1>d DEF Hook, Idle
<1> QED
  BY <1>1, <1>2, <1>3, <1>4, <1>5, <1>6, <1>7, <1>8, <1>9, <1>10
  DEF Next, Step, Request

\* Every step keeps the invariant of the money.
LEMMA MoneyStep ==
    ASSUME MoneyInv, [Next]_vars
    PROVE  MoneyInv'
<1>a. OrderMove /\ TypeInv /\ LedgerInv
  BY StepMoves DEF MoneyInv, LedgerInv
<1>b. /\ status \in [Order -> {"NONE", "PENDING", "PAID", "FAILED", "REFUNDED"}]
      /\ charge \in [Order -> Payment \union {None}]
      /\ mock \in [Order -> BOOLEAN]
  BY <1>a DEF TypeInv, TypeOK, OrderTypes
<1>1. LedgerInv'
  BY <1>a, LedgerStep
<1>2. \A w \in Worker : Knows(w)'
  BY KnowsStep
<1>3. ASSUME NEW o \in Order, mock'[o]
      PROVE  status'[o] \in {"PAID", "REFUNDED"}
  BY <1>3, <1>a, <1>b
  DEF OrderMove, orderRow, Placed, Failed, Refunded, PaidBy, PAYABLE_STATUSES, MoneyInv
<1>4. ASSUME NEW o \in Order, status'[o] \in {"PAID", "REFUNDED"}
      PROVE  mock'[o] \/ (charge'[o] \in {o} \X Attempt /\ payStatus'[charge'[o]] \in Taken)
  <2>1. ASSUME NEW p \in {o} \X Attempt, payStatus[p] \in Taken
        PROVE  payStatus'[p] \in Taken
    BY <1>a, <2>1, PaymentsStand DEF Payment
  <2>2. CASE status[o] \in {"PAID", "REFUNDED"}
    <3>1. mock'[o] = mock[o] /\ charge'[o] = charge[o]
      BY <2>2, <1>a, <1>b
      DEF OrderMove, orderRow, Placed, Failed, Refunded, PaidBy, PAYABLE_STATUSES
    <3> QED
      BY <2>1, <2>2, <3>1 DEF MoneyInv, PaidOnlyForTakenMoney
  <2>3. CASE status[o] \notin {"PAID", "REFUNDED"}
    <3>1. PICK p \in Payment \union {None}, m \in BOOLEAN : PaidBy(o, p, m)
      BY <1>4, <2>3, <1>a, <1>b DEF OrderMove, orderRow, Placed, Failed, Refunded, PaidBy
    <3>2. CASE m
      BY <1>b, <3>1, <3>2 DEF PaidBy
    <3>3. CASE ~m
      <4>1. p \in {o} \X Attempt /\ payStatus[p] \in Taken
        BY <3>1, <3>3 DEF PaidBy
      <4>2. p # None
        BY <4>1, OrdersAssumption DEF Payment
      <4>3. charge'[o] = p
        BY <3>1, <4>2, <1>b DEF PaidBy
      <4> QED
        BY <2>1, <4>1, <4>3
    <3> QED
      BY <3>2, <3>3
  <2> QED
    BY <2>2, <2>3
<1>5. ASSUME NEW o \in Order, status'[o] = "REFUNDED"
      PROVE  MoneyBack(o)'
  <2>1. CASE status[o] = "REFUNDED"
    BY <2>1, MoneyBackStays DEF MoneyInv, ReversedOnlyForReturnedMoney, MoneyBack
  <2>2. CASE status[o] # "REFUNDED"
    <3>1. Refunded(o)
      BY <1>5, <2>2, <1>a, <1>b DEF OrderMove, orderRow, Placed, Failed, Refunded, PaidBy
    <3> QED
      BY <3>1, MoneyBackStays DEF Refunded
  <2> QED
    BY <2>1, <2>2
<1> QED
  BY <1>1, <1>2, <1>3, <1>4, <1>5
  DEF MoneyInv, PaidOnlyForTakenMoney, ReversedOnlyForReturnedMoney, MoneyBack

\* The invariant of the money holds at the start.
LEMMA InitMoney == Init => MoneyInv
<1> SUFFICES ASSUME Init PROVE MoneyInv
  OBVIOUS
<1>1. LedgerInv
  BY InitLedger
<1>2. \A w \in Worker : Knows(w)
  BY DEF Init, Knows, Idle, Hook
<1>3. (\A o \in Order : ~mock[o] /\ status[o] = "NONE")
  BY DEF Init
<1> QED
  BY <1>1, <1>2, <1>3 DEF MoneyInv, PaidOnlyForTakenMoney, ReversedOnlyForReturnedMoney

LEMMA MoneyCorrect == Spec => []MoneyInv
<1>1. Init => MoneyInv
  BY InitMoney
<1>2. MoneyInv /\ [Next]_vars => MoneyInv'
  BY MoneyStep
<1> QED
  BY <1>1, <1>2, PTL DEF Spec

\* However late a notification, an answer of the provider or a retry is applied, an
\* order is PAID only by the mock gateway or for a payment the provider took.
THEOREM PaidForTakenMoney == Spec => []PaidOnlyForTakenMoney
<1>1. MoneyInv => PaidOnlyForTakenMoney
  BY DEF MoneyInv
<1> QED
  BY <1>1, MoneyCorrect, PTL

\* A seller's credit is reversed only for money the provider gave back, by whichever
\* of the refund's two ways the order gets there.
THEOREM ReversedForReturnedMoney == Spec => []ReversedOnlyForReturnedMoney
<1>1. MoneyInv => ReversedOnlyForReturnedMoney
  BY DEF MoneyInv
<1> QED
  BY <1>1, MoneyCorrect, PTL

-----------------------------------------------------------------------------
(* The sales counter, and the order's life cycle.                          *)

Standing == {o \in Order : status[o] = "PAID"}

SalesInv ==
    /\ MoneyInv
    /\ IsFiniteSet(Standing)
    /\ SalesCountMatches

\* The counter is never at zero while a sale stands, so a refund always lowers it.
LEMMA RefundLowers ==
    ASSUME SalesInv, NEW o \in Order, status[o] = "PAID"
    PROVE  salesCount > 0 /\ SaleLeaves(salesCount) = salesCount - 1
<1>1. o \in Standing /\ IsFiniteSet(Standing) /\ salesCount = Cardinality(Standing)
  BY DEF SalesInv, SalesCountMatches, Standing
<1>2. Cardinality(Standing) \in Nat /\ Cardinality(Standing) # 0
  BY <1>1, FS_CardinalityType, FS_EmptySet
<1> QED
  BY <1>1, <1>2 DEF SaleLeaves

\* Every step keeps the counter in step with the sales that stand.
LEMMA SalesStep ==
    ASSUME SalesInv, [Next]_vars
    PROVE  SalesInv'
<1>a. MoneyInv' /\ OrderMove
  BY MoneyStep, StepMoves DEF SalesInv
<1>b. status \in [Order -> {"NONE", "PENDING", "PAID", "FAILED", "REFUNDED"}]
  BY DEF SalesInv, MoneyInv, LedgerInv, TypeInv, TypeOK, OrderTypes
<1>c. IsFiniteSet(Standing) /\ salesCount = Cardinality(Standing)
  BY DEF SalesInv, SalesCountMatches, Standing
<1>d. salesCount \in Nat
  BY <1>c, FS_CardinalityType
<1>1. ASSUME NEW o \in Order, Placed(o) \/ Failed(o)
      PROVE  Standing' = Standing /\ salesCount' = salesCount
  BY <1>1, <1>b DEF Placed, Failed, Standing
<1>2. ASSUME NEW o \in Order, NEW p, NEW m, PaidBy(o, p, m)
      PROVE  IsFiniteSet(Standing)' /\ salesCount' = Cardinality(Standing)'
  <2>1. Standing' = Standing \union {o} /\ o \notin Standing /\ salesCount' = salesCount + 1
    BY <1>2, <1>b DEF PaidBy, Standing, PAYABLE_STATUSES
  <2> QED
    BY <2>1, <1>c, FS_AddElement
<1>3. ASSUME NEW o \in Order, Refunded(o)
      PROVE  IsFiniteSet(Standing)' /\ salesCount' = Cardinality(Standing)'
  <2>1. Standing' = Standing \ {o} /\ o \in Standing
    BY <1>3, <1>b DEF Refunded, Standing
  <2>2. salesCount' = salesCount - 1
    BY <1>3, RefundLowers DEF Refunded
  <2> QED
    BY <2>1, <2>2, <1>c, FS_RemoveElement
<1>4. IsFiniteSet(Standing)' /\ salesCount' = Cardinality(Standing)'
  <2>1. CASE UNCHANGED orderRow
    BY <2>1, <1>c DEF orderRow, Standing
  <2>2. CASE \E o \in Order : Placed(o) \/ Failed(o)
    BY <2>2, <1>1, <1>c
  <2> QED
    BY <2>1, <2>2, <1>2, <1>3, <1>a DEF OrderMove
<1> QED
  BY <1>a, <1>4 DEF SalesInv, SalesCountMatches, Standing

LEMMA InitSales == Init => SalesInv
<1> SUFFICES ASSUME Init PROVE SalesInv
  OBVIOUS
<1>1. Standing = {}
  BY DEF Init, Standing
<1>2. salesCount = 0
  BY DEF Init
<1> QED
  BY <1>1, <1>2, InitMoney, FS_EmptySet DEF SalesInv, SalesCountMatches, Standing

LEMMA SalesCorrect == Spec => []SalesInv
<1>1. SalesInv /\ [Next]_vars => SalesInv'
  BY SalesStep
<1> QED
  BY <1>1, InitSales, PTL DEF Spec

\* Product.salesCount is the number of sales that stand, whatever is confirmed late,
\* twice, or refunded by two callers.
THEOREM SalesAreCounted == Spec => []SalesCountMatches
<1>1. SalesInv => SalesCountMatches
  BY DEF SalesInv
<1> QED
  BY <1>1, SalesCorrect, PTL

\* What the ledger holds for an order is one sale while it is PAID.
LEMMA EarnedByStatus ==
    ASSUME LedgerMatchesStatus
    PROVE  [o \in Order |-> credit[o].n - debit[o].n]
               = [o \in Order |-> IF status[o] = "PAID" THEN 1 ELSE 0]
<1>1. ASSUME NEW o \in Order
      PROVE  credit[o].n - debit[o].n = IF status[o] = "PAID" THEN 1 ELSE 0
  BY DEF LedgerMatchesStatus
<1> QED
  BY <1>1

\* Every step of the service is a step of the order's life cycle or none of it.
LEMMA LifecycleStep ==
    ASSUME SalesInv, SalesInv', [Next]_vars
    PROVE  [Promise!Next]_(Promise!vars)
<1> DEFINE earned == [o \in Order |-> credit[o].n - debit[o].n]
<1>a. OrderMove /\ status \in [Order -> {"NONE", "PENDING", "PAID", "FAILED", "REFUNDED"}]
  BY StepMoves DEF SalesInv, MoneyInv, LedgerInv, TypeInv, TypeOK, OrderTypes
<1>b. earned = [o \in Order |-> IF status[o] = "PAID" THEN 1 ELSE 0]
  BY EarnedByStatus DEF SalesInv, MoneyInv, LedgerInv
<1>c. earned' = [o \in Order |-> IF status'[o] = "PAID" THEN 1 ELSE 0]
  <2>1. LedgerMatchesStatus'
    BY DEF SalesInv, MoneyInv, LedgerInv
  <2>2. ASSUME NEW o \in Order
        PROVE  credit'[o].n - debit'[o].n = IF status'[o] = "PAID" THEN 1 ELSE 0
    BY <2>1 DEF LedgerMatchesStatus
  <2> QED
    BY <2>2
<1> HIDE DEF earned
<1>1. CASE UNCHANGED orderRow
  <2>1. UNCHANGED <<status, earned, salesCount>>
    BY <1>1, <1>b, <1>c DEF orderRow
  <2> QED
    BY <2>1 DEF Promise!vars, earned
<1>2. ASSUME NEW o \in Order, Placed(o)
      PROVE  Promise!Place(o)
  <2>1. earned' = earned
    BY <1>2, <1>a, <1>b, <1>c DEF Placed
  <2> QED
    BY <1>2, <2>1 DEF Placed, Promise!Place, earned
<1>3. ASSUME NEW o \in Order, Failed(o)
      PROVE  Promise!Fail(o)
  <2>1. earned' = earned
    BY <1>3, <1>a, <1>b, <1>c DEF Failed
  <2> QED
    BY <1>3, <2>1 DEF Failed, Promise!Fail, earned
<1>4. ASSUME NEW o \in Order, NEW p, NEW m, PaidBy(o, p, m)
      PROVE  Promise!Pay(o)
  <2>1. earned' = [earned EXCEPT ![o] = 1]
    BY <1>4, <1>a, <1>b, <1>c DEF PaidBy
  <2> QED
    BY <1>4, <2>1 DEF PaidBy, Promise!Pay, earned, PAYABLE_STATUSES
<1>5. ASSUME NEW o \in Order, Refunded(o)
      PROVE  Promise!Refund(o)
  <2>1. earned' = [earned EXCEPT ![o] = 0]
    BY <1>5, <1>a, <1>b, <1>c DEF Refunded
  <2>2. salesCount' = salesCount - 1
    BY <1>5, RefundLowers DEF Refunded
  <2> QED
    BY <1>5, <2>1, <2>2 DEF Refunded, Promise!Refund, earned
<1> QED
  BY <1>a, <1>1, <1>2, <1>3, <1>4, <1>5 DEF OrderMove, Promise!Next

\* The service keeps the promise of OrderLifecycle: whatever callers, notifications and
\* faults interleave, an order moves along its life cycle, the seller earns its sale
\* once and loses it once, and the counter moves with it.
THEOREM KeepsThePromise == Spec => ImplementsLifecycle
<1>1. Init => Promise!Init
  <2> SUFFICES ASSUME Init PROVE Promise!Init
    OBVIOUS
  <2>1. \A o \in Order : credit[o].n - debit[o].n = 0
    BY DEF Init, NoEntries
  <2> QED
    BY <2>1 DEF Init, Promise!Init
<1>2. SalesInv /\ SalesInv' /\ [Next]_vars => [Promise!Next]_(Promise!vars)
  BY LifecycleStep
<1> QED
  BY <1>1, <1>2, SalesCorrect, PTL DEF Spec, ImplementsLifecycle, Promise!Spec

-----------------------------------------------------------------------------
(* The inbox: whoever stored an event is the only one to apply it.         *)

Owns(w) == At(w, "dispatch") \/ (At(w, "reversing") /\ task[w].act # "admin")

InboxInv ==
    /\ TypeInv
    /\ \A w \in Worker : Owns(w) =>
          EventOf(task[w]) \in seen /\ processed[EventOf(task[w])] = 0
    /\ \A v, w \in Worker :
          Owns(v) /\ Owns(w) /\ EventOf(task[v]) = EventOf(task[w]) => v = w
    /\ ProcessedAtMostOnce

Owners ==
    /\ \A w \in Worker : Owns(w) =>
          EventOf(task[w]) \in seen /\ processed[EventOf(task[w])] = 0
    /\ \A v, w \in Worker :
          Owns(v) /\ Owns(w) /\ EventOf(task[v]) = EventOf(task[w]) => v = w

\* A worker that owns an event after a step owned the same one before it.
KeepsOwner ==
    \A w \in Worker : Owns(w)' => Owns(w) /\ EventOf(task[w])' = EventOf(task[w])

\* Steps that neither store nor apply an event.
LEMMA QuietInbox ==
    ASSUME InboxInv, TypeInv', KeepsOwner, UNCHANGED inboxVars
    PROVE  InboxInv'
<1>1. UNCHANGED <<seen, processed>>
  BY DEF inboxVars
<1>2. Owners'
  BY <1>1 DEF InboxInv, Owners, KeepsOwner
<1>3. ProcessedAtMostOnce'
  BY <1>1 DEF InboxInv, ProcessedAtMostOnce
<1> QED
  BY <1>2, <1>3 DEF InboxInv, Owners

\* A worker that goes to a task that owns nothing, the others standing still.
LEMMA DropsOwner ==
    ASSUME NEW w \in Worker, \A v \in Worker : v # w => task'[v] = task[v],
           \/ task'[w].pc \notin {"dispatch", "reversing"}
           \/ task'[w].pc = "reversing" /\ task'[w].act = "admin"
    PROVE  KeepsOwner /\ ~Owns(w)'
BY DEF KeepsOwner, Owns, At, EventOf

\* The owner of an event applies it: it is counted once and owned no more.
LEMMA OwnerCounts ==
    ASSUME InboxInv, TypeInv', NEW w \in Worker, Owns(w), Done(w),
           Counted(EventOf(task[w])), UNCHANGED seen
    PROVE  InboxInv'
<1> DEFINE e == EventOf(task[w])
<1>1. e \in seen /\ e \in EventId /\ processed[e] = 0
  BY DEF InboxInv, TypeInv, TypeOK, InboxTypes
<1>2. processed \in [EventId -> Nat] /\ processed' = [processed EXCEPT ![e] = 1]
  BY <1>1 DEF InboxInv, TypeInv, TypeOK, InboxTypes, Counted
<1>3. KeepsOwner /\ ~Owns(w)'
  <2>1. task'[w] = Idle /\ \A v \in Worker : v # w => task'[v] = task[v]
    BY DEF InboxInv, TypeInv, Done, Goto
  <2> QED
    BY <2>1, DropsOwner DEF Idle
<1>4. ASSUME NEW v \in Worker, Owns(v)'
      PROVE  EventOf(task[v])' \in seen' /\ processed'[EventOf(task[v])'] = 0
  <2>1. v # w /\ Owns(v) /\ EventOf(task[v])' = EventOf(task[v])
    BY <1>3, <1>4 DEF KeepsOwner
  <2>2. EventOf(task[v]) # e /\ EventOf(task[v]) \in seen /\ processed[EventOf(task[v])] = 0
    BY <2>1 DEF InboxInv
  <2>3. EventOf(task[v]) \in EventId
    BY <2>2 DEF InboxInv, TypeInv, TypeOK, InboxTypes
  <2> QED
    BY <1>2, <2>1, <2>2, <2>3
<1>5. Owners'
  BY <1>3, <1>4 DEF Owners, KeepsOwner, InboxInv
<1>6. ProcessedAtMostOnce'
  BY <1>1, <1>2 DEF InboxInv, ProcessedAtMostOnce
<1> QED
  BY <1>5, <1>6 DEF InboxInv, Owners

\* Every step keeps the invariant of the inbox.
LEMMA InboxStep ==
    ASSUME InboxInv, [Next]_vars
    PROVE  InboxInv'
<1> USE DEF At, IsIdle, Done
<1>a. TypeInv /\ TypeInv' /\ Handler \subseteq Worker /\ Job \in Worker
  BY TypeStep DEF InboxInv, Worker
<1>b. task \in [Worker -> Task]
  BY <1>a DEF TypeInv, Named
<1>c. ASSUME NEW w \in Worker, NEW t, Goto(w, t), UNCHANGED inboxVars,
             \/ t.pc \notin {"dispatch", "reversing"}
             \/ t.pc = "reversing" /\ t.act = "admin"
      PROVE  InboxInv'
  <2>1. task'[w] = t /\ \A v \in Worker : v # w => task'[v] = task[v]
    BY <1>c, <1>b DEF Goto
  <2> QED
    BY <1>a, <1>c, <2>1, DropsOwner, QuietInbox
<1>d. ASSUME NEW w \in Worker, Goto(w, Idle), UNCHANGED inboxVars
      PROVE  InboxInv'
  BY <1>c, <1>d DEF Idle
<1>1. ASSUME NEW h \in Handler, Request(h)
      PROVE  InboxInv'
  <2>1. UNCHANGED inboxVars
    BY <1>1 DEF Request, PlaceOrder, ReadOrder, RequestRefund, ParseWebhook
  <2>2. ASSUME NEW o \in Order, PlaceOrder(h, o) \/ ReadOrder(h, o)
        PROVE  task'[h].pc \in {"create", "lookup"}
    BY <2>2, <1>a, <1>b DEF PlaceOrder, ReadOrder, StartLookup, Goto, Idle
  <2>3. ASSUME NEW o \in Order, RequestRefund(h, o)
        PROVE  task'[h].pc \in {"reverse", "ask"}
    <3>1. CASE mock[o]
      <4>1. Goto(h, [Idle EXCEPT !.pc = "reverse", !.order = o, !.act = "admin"])
        BY <2>3, <3>1 DEF RequestRefund
      <4> QED
        BY <4>1, <1>a, <1>b DEF Goto, Idle
    <3>2. CASE ~mock[o]
      <4>1. Goto(h, [Idle EXCEPT !.pc = "ask", !.order = o, !.pay = charge[o], !.act = "admin"])
        BY <2>3, <3>2 DEF RequestRefund
      <4> QED
        BY <4>1, <1>a, <1>b DEF Goto, Idle
    <3> QED
      BY <3>1, <3>2
  <2>4. ASSUME NEW p \in Payment, ParseWebhook(h, p)
        PROVE  task'[h].pc = "store"
    BY <2>4, <1>a, <1>b DEF ParseWebhook, Goto, Idle
  <2>5. \E t : Goto(h, t)
    BY <1>1 DEF Request, PlaceOrder, ReadOrder, StartLookup, RequestRefund, ParseWebhook
  <2>6. task'[h].pc \notin {"dispatch", "reversing"}
    BY <1>1, <2>2, <2>3, <2>4 DEF Request
  <2>7. \A v \in Worker : v # h => task'[v] = task[v]
    BY <2>5, <1>b DEF Goto
  <2>8. KeepsOwner
    BY <1>a, <2>6, <2>7, DropsOwner
  <2> QED
    BY <1>a, <2>1, <2>8, QuietInbox
<1>2. ASSUME NEW w \in Worker,
             \/ GatewayAnswers(w) \/ GatewayThrows(w) \/ AbortCheckout(w) \/ LinkOrder(w)
             \/ FinishCheckout(w) \/ LookupAnswers(w) \/ LookupThrows(w)
             \/ ApplyReconciliation(w) \/ ProviderRefunds(w) \/ ProviderRefuses(w)
             \/ ReverseOrder(w) \/ TaskFails(w)
      PROVE  InboxInv'
  <2>1. UNCHANGED inboxVars
    BY <1>2 DEF GatewayAnswers, GatewayThrows, AbortCheckout, LinkOrder, FinishCheckout,
       LookupAnswers, LookupThrows, ApplyReconciliation, ProviderRefunds, ProviderRefuses,
       ReverseOrder, TaskFails
  <2>2. task[w] \in Task
    BY <1>b
  <2>3. CASE GatewayAnswers(w)
    <3>1. PICK r \in CheckoutResults : Goto(w, [task[w] EXCEPT !.pc = "link", !.act = r])
      BY <2>3 DEF GatewayAnswers
    <3>2. [task[w] EXCEPT !.pc = "link", !.act = r].pc = "link"
      BY <2>2 DEF Task
    <3> QED
      BY <1>c, <2>1, <3>1, <3>2
  <2>4. CASE GatewayThrows(w) \/ LinkOrder(w) \/ ProviderRefunds(w)
    <3>1. \/ Goto(w, Idle)
          \/ \E pc \in {"abort", "finish", "reverse"} : Goto(w, [task[w] EXCEPT !.pc = pc])
      BY <2>4 DEF GatewayThrows, LinkOrder, ProviderRefunds
    <3>2. \A pc : [task[w] EXCEPT !.pc = pc].pc = pc
      BY <2>2 DEF Task
    <3> QED
      BY <1>c, <1>d, <2>1, <3>1, <3>2
  <2>5. CASE LookupAnswers(w)
    <3>1. \/ Goto(w, Idle)
          \/ \E a, p : Goto(w, [task[w] EXCEPT !.pc = "apply", !.act = a, !.pay = p])
      BY <2>5 DEF LookupAnswers
    <3>2. \A a, p : [task[w] EXCEPT !.pc = "apply", !.act = a, !.pay = p].pc = "apply"
      BY <2>2 DEF Task
    <3> QED
      BY <1>c, <1>d, <2>1, <3>1, <3>2
  <2>6. CASE ReverseOrder(w)
    <3>1. \/ Goto(w, Idle)
          \/ Goto(w, [pc |-> "reversing", order |-> task[w].order, pay |-> task[w].pay,
                      act |-> "admin", onHold |-> credit[task[w].order].status = "PENDING"])
      BY <2>6 DEF ReverseOrder, ClaimRefund
    <3> QED
      BY <1>c, <1>d, <2>1, <3>1
  <2>7. CASE Goto(w, Idle)
    BY <1>d, <2>1, <2>7
  <2> QED
    BY <1>2, <2>3, <2>4, <2>5, <2>6, <2>7
    DEF AbortCheckout, FinishCheckout, LookupThrows, ApplyReconciliation,
        ProviderRefuses, TaskFails
<1>3. ASSUME NEW w \in Worker, StoreWebhook(w)
      PROVE  InboxInv'
  <2> DEFINE e == EventOf(task[w])
  <2>1. CASE Duplicate(e)
    <3>1. Goto(w, Idle) /\ UNCHANGED inboxVars
      BY <1>3, <2>1 DEF StoreWebhook, inboxVars
    <3> QED
      BY <1>d, <3>1
  <2>2. CASE ~Duplicate(e)
    <3>1. /\ e \notin seen /\ seen' = seen \union {e} /\ processed' = processed
          /\ Goto(w, [task[w] EXCEPT !.pc = "dispatch"])
      BY <1>3, <2>2 DEF StoreWebhook, Duplicate
    <3>2. task[w] \in Named /\ task[w].pc = "store"
      BY <1>3, <1>a, StartedTask DEF StoreWebhook
    <3>3. e \in EventId
      BY <3>2 DEF EventOf, EventId, Named, Hook
    <3>4. EventOf(task[w])' = e /\ \A v \in Worker : v # w => task'[v] = task[v]
      BY <3>1, <1>b DEF Goto, EventOf, Task
    <3>5. processed \in [EventId -> Nat] /\ processed[e] = 0
      BY <3>1, <3>3 DEF InboxInv, ProcessedAtMostOnce, TypeInv, TypeOK, InboxTypes
    <3>6. \A v \in Worker : v # w /\ Owns(v)' =>
              Owns(v) /\ EventOf(task[v])' = EventOf(task[v]) /\ EventOf(task[v]) # e
      BY <3>1, <3>4 DEF InboxInv, Owns
    <3>7. Owners'
      BY <3>1, <3>4, <3>5, <3>6 DEF Owners, InboxInv
    <3>8. ProcessedAtMostOnce'
      BY <3>1 DEF InboxInv, ProcessedAtMostOnce
    <3> QED
      BY <1>a, <3>7, <3>8 DEF InboxInv, Owners
  <2> QED
    BY <2>1, <2>2
<1>4. ASSUME NEW w \in Worker, DispatchWebhook(w)
      PROVE  InboxInv'
  BY <1>4, <1>a, OwnerCounts DEF DispatchWebhook, Owns
<1>5. ASSUME NEW w \in Worker, DispatchRefund(w)
      PROVE  InboxInv'
  <2>1. /\ UNCHANGED inboxVars
        /\ Goto(w, [pc |-> "reversing", order |-> task[w].order, pay |-> task[w].pay,
                    act |-> task[w].act, onHold |-> credit[task[w].order].status = "PENDING"])
    BY <1>5 DEF DispatchRefund, ClaimRefund
  <2>2. task[w].pc = "dispatch"
    BY <1>5 DEF DispatchRefund
  <2>3. EventOf(task[w])' = EventOf(task[w]) /\ \A v \in Worker : v # w => task'[v] = task[v]
    BY <2>1, <1>b DEF Goto, EventOf
  <2>4. KeepsOwner
    BY <2>2, <2>3 DEF KeepsOwner, Owns
  <2> QED
    BY <1>a, <2>1, <2>4, QuietInbox
<1>6. ASSUME NEW w \in Worker, CommitRefund(w)
      PROVE  InboxInv'
  <2>1. CASE task[w].act = "admin"
    <3>1. Goto(w, Idle) /\ UNCHANGED inboxVars
      BY <1>6, <2>1 DEF CommitRefund, inboxVars
    <3> QED
      BY <1>d, <3>1
  <2>2. CASE task[w].act # "admin"
    BY <1>6, <2>2, <1>a, OwnerCounts DEF CommitRefund, Owns, EventOf
  <2> QED
    BY <2>1, <2>2
<1>7. ASSUME NEW o \in Order, JobNext(o)
      PROVE  InboxInv'
  <2>1. UNCHANGED inboxVars
    BY <1>7 DEF JobNext
  <2>2. task' = task \/ Goto(Job, [Idle EXCEPT !.pc = "lookup", !.order = o])
    BY <1>7 DEF JobNext, StartLookup
  <2>3. CASE task' = task
    <3>1. KeepsOwner
      BY <2>3 DEF KeepsOwner, Owns
    <3> QED
      BY <1>a, <2>1, <3>1, QuietInbox
  <2> QED
    BY <1>a, <1>c, <2>1, <2>2, <2>3 DEF Idle
<1>8. ASSUME StartJob \/ JobFails \/ ReleaseMatured \/ Crash \/ UNCHANGED vars
             \/ (\E o \in Order : Mature(o) \/ GrowOld(o))
             \/ \E p \in Payment : BuyerPays(p) \/ ProviderDecides(p) \/ ProviderReverses(p)
      PROVE  InboxInv'
  <2>1. UNCHANGED inboxVars /\ (task' = task \/ task' = [w \in Worker |-> Idle])
    BY <1>8 DEF StartJob, JobFails, ReleaseMatured, Crash, Mature, GrowOld, BuyerPays,
       ProviderDecides, ProviderReverses, SetPayment, vars, inboxVars
  <2>2. KeepsOwner
    BY <2>1 DEF KeepsOwner, Owns, Idle
  <2> QED
    BY <1>a, <2>1, <2>2, QuietInbox
<1> QED
  BY <1>1, <1>2, <1>3, <1>4, <1>5, <1>6, <1>7, <1>8 DEF Next, Step

\* No event is applied twice, whatever the provider redelivers and at the same time,
\* and none is applied without its row in the inbox.
THEOREM AppliedOnce == Spec => []ProcessedAtMostOnce
<1>1. Init => InboxInv
  <2> SUFFICES ASSUME Init PROVE InboxInv
    OBVIOUS
  <2>1. \A w \in Worker : ~Owns(w)
    BY DEF Init, Owns, At, Idle
  <2>2. ProcessedAtMostOnce
    BY DEF Init, ProcessedAtMostOnce
  <2> QED
    BY <2>1, <2>2, InitType DEF InboxInv
<1>2. InboxInv /\ [Next]_vars => InboxInv'
  BY InboxStep
<1>3. InboxInv => ProcessedAtMostOnce
  BY DEF InboxInv
<1> QED
  BY <1>1, <1>2, <1>3, PTL DEF Spec

=============================================================================
