------------------------ MODULE SubscriptionsProofs ------------------------
(***************************************************************************)
(* For any number of subscriptions, plans and requests that overlap: paid  *)
(* plans entitle only when they were accepted, started plans are not       *)
(* deleted, one plan is live beside those that raced, and a canceled one   *)
(* keeps its period unless a past-due event had looked it up before.       *)
(***************************************************************************)
EXTENDS Subscriptions, FiniteSetTheorems, TLAPS

\* What a row owes its past: a plan, and a payment if it has ever been ACTIVE.
RowFacts ==
    \A s \in Sub :
        /\ status[s] # "NONE" => planOf[s] \in Plan
        /\ status[s] = "ACTIVE" \/ period[s] = "running" => planOf[s] \in Instant \/ s \in accepted
        /\ prov[s] \in {"authorized", "paused"} => s \in accepted
        /\ s \in accepted => status[s] # "NONE"

Open(t) == t.pc \in {"replace", "close"}
Writes(t) == {t.sub} \union t.drop \union t.closed

\* What a request may rely on between its steps.
TaskFact(t) ==
    /\ t.pc # "idle" => t.sub \in Sub
    /\ t.pc \in {"create", "insert"} => t.kind = "subscribe"
    /\ Open(t) => t.kind \in {"subscribe", "activate"}
    /\ ~Open(t) => t.drop = {} /\ t.closed = {}
    /\ t.pc = "close" => t.other \in Sub /\ status[t.other] # "NONE"
    /\ t.kind = "subscribe" => t.plan \in Plan /\ t.sub \in Sub /\ status[t.sub] = "NONE"
    /\ t.kind = "activate" => t.sub \in accepted /\ t.drop = {}
    /\ \A s \in t.others \union t.closed : status[s] # "NONE"
    /\ \A s \in t.drop : status[s] = "PENDING"

\* Two requests create different rows, and what one deletes the other does not write.
PairFact(t, u) ==
    /\ t.kind = "subscribe" /\ u.kind = "subscribe" => t.sub # u.sub
    /\ Open(t) /\ Open(u) => t.drop \intersect Writes(u) = {}

TaskFacts == \A h \in Handler : TaskFact(task[h])
PairFacts == \A g, h \in Handler : g # h => PairFact(task[g], task[h])

\* The inductive invariant.
Inv == TypeOK /\ RowFacts /\ TaskFacts /\ PairFacts

-----------------------------------------------------------------------------

\* An idle request is a request, and no one minds it.
LEMMA IdleTask ==
    /\ Idle \in Task /\ Idle.pc = "idle" /\ TaskFact(Idle)
    /\ \A t : PairFact(t, Idle) /\ PairFact(Idle, t)
BY DEF Idle, Task, TaskFact, PairFact, Open

\* A step of one request that leaves the rows alone.
LEMMA Move ==
    ASSUME Inv, NEW h \in Handler, NEW t \in Task, Goto(h, t),
           UNCHANGED <<rowVars, vendor, accepted>>,
           prov' \in [Sub -> {"none", "pending", "authorized", "paused", "cancelled"}],
           \A s \in Sub : prov'[s] \in {"authorized", "paused"} => s \in accepted,
           stored' \subseteq EventId,
           TaskFact(t),
           \A g \in Handler \ {h} : PairFact(t, task[g]) /\ PairFact(task[g], t)
    PROVE  Inv'
<1>1. /\ task' \in [Handler -> Task] /\ task'[h] = t
      /\ \A g \in Handler \ {h} : task'[g] = task[g]
  BY DEF Goto, Inv, TypeOK
<1>2. TypeOK'
  BY <1>1 DEF Inv, TypeOK, rowVars, Rows
<1>3. RowFacts'
  BY DEF Inv, RowFacts, rowVars
<1>4. ASSUME NEW u, TaskFact(u) PROVE TaskFact(u)'
  BY <1>4 DEF TaskFact, rowVars
<1>5. TaskFacts'
  BY <1>1, <1>4 DEF Inv, TaskFacts
<1>6. PairFacts'
  BY <1>1 DEF Inv, PairFacts, PairFact, Open, Writes
<1> QED
  BY <1>2, <1>3, <1>5, <1>6 DEF Inv

\* The same, when nothing at the provider changes either.
LEMMA MoveOnly ==
    ASSUME Inv, NEW h \in Handler, NEW t \in Task, Goto(h, t),
           UNCHANGED <<rowVars, vendor, provVars>>, stored' \subseteq EventId, TaskFact(t),
           \A g \in Handler \ {h} : PairFact(t, task[g]) /\ PairFact(task[g], t)
    PROVE  Inv'
BY Move DEF Inv, TypeOK, RowFacts, provVars

\* A request ends.
LEMMA Finish ==
    ASSUME Inv, NEW h \in Handler, Done(h),
           UNCHANGED <<rowVars, vendor, provVars>>, stored' \subseteq EventId
    PROVE  Inv'
BY IdleTask, MoveOnly DEF Done

\* A request that creates and deletes nothing is in nobody's way.
LEMMA Harmless ==
    ASSUME NEW t, NEW u, ~Open(t), t.kind # "subscribe"
    PROVE  PairFact(t, u) /\ PairFact(u, t)
BY DEF PairFact

\* Cancelling at the provider.
LEMMA CallCancelTyped ==
    ASSUME Inv, NEW s \in Sub, CallCancel(s)
    PROVE  /\ prov' \in [Sub -> {"none", "pending", "authorized", "paused", "cancelled"}]
           /\ \A x \in Sub : prov'[x] \in {"authorized", "paused"} => x \in accepted
<1>1. CASE prov' = prov
  BY <1>1 DEF Inv, TypeOK, RowFacts
<1>2. CASE prov' = [prov EXCEPT ![s] = "cancelled"]
  BY <1>2 DEF Inv, TypeOK, RowFacts
<1> QED
  BY <1>1, <1>2 DEF CallCancel

-----------------------------------------------------------------------------

\* subscribe starts.
LEMMA SubscribeStep ==
    ASSUME Inv, NEW h \in Handler, NEW s \in Sub, NEW p \in Plan, Subscribe(h, p, s)
    PROVE  Inv'
<1> DEFINE t == [Idle EXCEPT !.pc = IF p \in Instant THEN "insert" ELSE "create",
                            !.kind = "subscribe", !.sub = s, !.plan = p]
<1>1. /\ t \in Task /\ ~Open(t) /\ t.pc \in {"insert", "create"} /\ t.kind = "subscribe"
      /\ t.sub = s /\ t.plan = p /\ t.drop = {} /\ t.closed = {} /\ t.others = {}
  BY DEF Idle, Task, Open
<1>2. Goto(h, t) /\ UNCHANGED <<rowVars, vendor, provVars, stored>> /\ Fresh(s)
  BY DEF Subscribe
<1> HIDE DEF t
<1>3. TaskFact(t)
  BY <1>1, <1>2 DEF TaskFact, Fresh
<1>4. \A g \in Handler : PairFact(t, task[g]) /\ PairFact(task[g], t)
  BY <1>1, <1>2 DEF PairFact, Fresh
<1> QED
  BY <1>1, <1>2, <1>3, <1>4, MoveOnly DEF Inv, TypeOK

\* The preapproval of the new row.
LEMMA CreatePreapprovalStep ==
    ASSUME Inv, NEW h \in Handler, CreatePreapproval(h) PROVE Inv'
<1> DEFINE t == [task[h] EXCEPT !.pc = "insert"]
<1>1. /\ task[h] \in Task /\ TaskFact(task[h]) /\ task[h].pc = "create"
      /\ \A g \in Handler \ {h} : PairFact(task[h], task[g]) /\ PairFact(task[g], task[h])
  BY DEF Inv, TypeOK, TaskFacts, PairFacts, CreatePreapproval, At
<1>2. /\ t \in Task /\ t.pc = "insert" /\ t.kind = task[h].kind /\ t.sub = task[h].sub
      /\ t.plan = task[h].plan /\ t.drop = task[h].drop /\ t.closed = task[h].closed
      /\ t.others = task[h].others
  BY <1>1 DEF Task
<1>3. Goto(h, t)
  BY DEF CreatePreapproval
<1> HIDE DEF t
<1>4. TaskFact(t)
  BY <1>1, <1>2 DEF TaskFact, Open
<1>5. \A g \in Handler \ {h} : PairFact(t, task[g]) /\ PairFact(task[g], t)
  BY <1>1, <1>2 DEF PairFact, Open
<1>6. /\ UNCHANGED <<rowVars, vendor, accepted>> /\ stored' \subseteq EventId
      /\ prov' \in [Sub -> {"none", "pending", "authorized", "paused", "cancelled"}]
      /\ \A s \in Sub : prov'[s] \in {"authorized", "paused"} => s \in accepted
  BY DEF CreatePreapproval, Inv, TypeOK, RowFacts
<1> QED
  BY <1>2, <1>3, <1>4, <1>5, <1>6, Move

\* The transaction of subscribe takes the locks of the rows it deletes.
LEMMA BeginInsertStep ==
    ASSUME Inv, NEW h \in Handler, BeginInsert(h) PROVE Inv'
<1>1. /\ task[h] \in Task /\ TaskFact(task[h]) /\ task[h].pc = "insert"
      /\ \A g \in Handler \ {h} : PairFact(task[h], task[g]) /\ PairFact(task[g], task[h])
  BY DEF Inv, TypeOK, TaskFacts, PairFacts, BeginInsert, At
<1>2. PICK others : /\ others \in SUBSET Sub /\ \A s \in others : status[s] # "NONE"
                    /\ Goto(h, [task[h] EXCEPT !.pc = "replace", !.drop = In({"PENDING"}),
                                               !.raced = Races(task[h]), !.others = others])
  <2> DEFINE o == IF task[h].plan \in Instant THEN ToReplace(task[h].sub) ELSE {}
  <2>1. o \in SUBSET Sub /\ \A s \in o : status[s] # "NONE"
    BY DEF ToReplace, Live, In
  <2> QED
    BY <2>1 DEF BeginInsert
<1> DEFINE t == [task[h] EXCEPT !.pc = "replace", !.drop = In({"PENDING"}),
                                !.raced = Races(task[h]), !.others = others]
<1>3. /\ t \in Task /\ t.pc = "replace" /\ t.kind = task[h].kind /\ t.sub = task[h].sub
      /\ t.plan = task[h].plan /\ t.drop = In({"PENDING"}) /\ t.closed = task[h].closed
      /\ t.others = others
  <2>1. Races(task[h]) \in BOOLEAN
    BY DEF Races
  <2> QED
    BY <1>1, <1>2, <2>1 DEF Task, In
<1>4. Goto(h, t) /\ UNCHANGED <<rowVars, vendor, provVars, stored>>
  BY <1>2 DEF BeginInsert
<1> HIDE DEF t
<1>5. /\ t.kind = "subscribe" /\ t.closed = {} /\ t.sub \in Sub /\ status[t.sub] = "NONE"
      /\ t.drop \subseteq Sub /\ \A s \in t.drop : status[s] = "PENDING"
  BY <1>1, <1>3 DEF TaskFact, Open, In
<1>6. TaskFact(t)
  BY <1>1, <1>2, <1>3, <1>5 DEF TaskFact, Open
<1>7. ASSUME NEW g \in Handler \ {h} PROVE PairFact(t, task[g]) /\ PairFact(task[g], t)
  <2>1. TaskFact(task[g])
    BY DEF Inv, TaskFacts
  <2>2. Open(task[g]) => t.drop \intersect Writes(task[g]) = {}
    BY <1>3 DEF BeginInsert, Locked, Open, Writes
  <2>3. Writes(t) = {t.sub} \union t.drop
    BY <1>5 DEF Writes
  <2>4. Open(task[g]) => task[g].drop \intersect Writes(t) = {}
    BY <1>5, <2>1, <2>2, <2>3 DEF TaskFact, Writes
  <2> QED
    BY <1>1, <1>3, <2>2, <2>4 DEF PairFact
<1> QED
  BY <1>3, <1>4, <1>6, <1>7, MoveOnly DEF Inv, TypeOK

\* A request that reads a row, and nothing else, before it writes.
LEMMA StartHarmless ==
    ASSUME Inv, NEW h \in Handler, NEW t \in Task, Goto(h, t),
           UNCHANGED <<rowVars, vendor, provVars>>, stored' \subseteq EventId,
           t.pc \in {"cancelCall", "lookup", "event", "apply"}, t.sub \in Sub,
           t.kind # "subscribe", t.drop = {}, t.others = {}, t.closed = {},
           t.kind = "activate" => t.sub \in accepted
    PROVE  Inv'
<1>1. TaskFact(t)
  BY DEF TaskFact, Open
<1>2. ~Open(t)
  BY DEF Open
<1> QED
  BY <1>1, <1>2, Harmless, MoveOnly

\* What is between two steps of a request that has not begun to write.
LEMMA Current ==
    ASSUME Inv, NEW h \in Handler
    PROVE  /\ task[h] \in Task /\ TaskFact(task[h])
           /\ \A g \in Handler \ {h} : PairFact(task[h], task[g]) /\ PairFact(task[g], task[h])
BY DEF Inv, TypeOK, TaskFacts, PairFacts

\* cancel starts.
LEMMA CancelStep == ASSUME Inv, NEW h \in Handler, Cancel(h) PROVE Inv'
<1>1. PICK s \in Sub : Goto(h, [Idle EXCEPT !.pc = "cancelCall", !.kind = "cancel", !.sub = s])
  BY DEF Cancel, Newest, Entitling
<1> DEFINE t == [Idle EXCEPT !.pc = "cancelCall", !.kind = "cancel", !.sub = s]
<1>2. /\ t \in Task /\ t.pc = "cancelCall" /\ t.kind = "cancel" /\ t.sub = s
      /\ t.drop = {} /\ t.others = {} /\ t.closed = {}
  BY DEF Idle, Task
<1>3. Goto(h, t) /\ UNCHANGED <<rowVars, vendor, provVars, stored>>
  BY <1>1 DEF Cancel
<1> HIDE DEF t
<1> QED
  BY <1>2, <1>3, StartHarmless DEF Inv, TypeOK

\* cancel calls the provider.
LEMMA CancelAtGatewayStep == ASSUME Inv, NEW h \in Handler, CancelAtGateway(h) PROVE Inv'
<1> DEFINE t == [task[h] EXCEPT !.pc = "apply"]
<1>1. /\ task[h] \in Task /\ TaskFact(task[h]) /\ task[h].pc = "cancelCall"
      /\ \A g \in Handler \ {h} : PairFact(task[h], task[g]) /\ PairFact(task[g], task[h])
  BY Current DEF CancelAtGateway, At
<1>2. /\ t \in Task /\ t.pc = "apply" /\ t.kind = task[h].kind /\ t.sub = task[h].sub
      /\ t.plan = task[h].plan /\ t.drop = task[h].drop /\ t.closed = task[h].closed
      /\ t.others = task[h].others
  BY <1>1 DEF Task
<1>3. Goto(h, t) /\ CallCancel(task[h].sub) /\ UNCHANGED <<rowVars, vendor, accepted, stored>>
  BY DEF CancelAtGateway
<1> HIDE DEF t
<1>4. TaskFact(t)
  BY <1>1, <1>2 DEF TaskFact, Open
<1>5. \A g \in Handler \ {h} : PairFact(t, task[g]) /\ PairFact(task[g], t)
  BY <1>1, <1>2 DEF PairFact, Open
<1>6. /\ prov' \in [Sub -> {"none", "pending", "authorized", "paused", "cancelled"}]
      /\ \A x \in Sub : prov'[x] \in {"authorized", "paused"} => x \in accepted
  BY <1>1, <1>3, CallCancelTyped DEF TaskFact
<1> QED
  BY <1>2, <1>3, <1>4, <1>5, <1>6, Move DEF Inv, TypeOK

\* markActive's transaction takes its row.
LEMMA BeginActivateStep == ASSUME Inv, NEW h \in Handler, BeginActivate(h) PROVE Inv'
<1> DEFINE t == [task[h] EXCEPT !.pc = "replace", !.raced = Races(task[h]),
                                !.others = ToReplace(task[h].sub)]
<1>1. /\ task[h] \in Task /\ TaskFact(task[h]) /\ task[h].pc = "apply" /\ task[h].kind = "activate"
      /\ \A g \in Handler \ {h} : PairFact(task[h], task[g]) /\ PairFact(task[g], task[h])
      /\ UNCHANGED <<rowVars, vendor, provVars, stored>> /\ stored' \subseteq EventId
  BY Current DEF BeginActivate, At, Inv, TypeOK
<1>2. CASE Done(h)
  BY <1>1, <1>2, Finish
<1>3. CASE Goto(h, t)
  <2>1. ToReplace(task[h].sub) \in SUBSET Sub /\ \A s \in ToReplace(task[h].sub) : status[s] # "NONE"
    BY DEF ToReplace, Live, In
  <2>2. /\ t \in Task /\ t.pc = "replace" /\ t.kind = task[h].kind /\ t.sub = task[h].sub
        /\ t.plan = task[h].plan /\ t.drop = task[h].drop /\ t.closed = task[h].closed
        /\ t.others = ToReplace(task[h].sub)
    <3>1. Races(task[h]) \in BOOLEAN
      BY DEF Races
    <3> QED
      BY <1>1, <2>1, <3>1 DEF Task
  <2> HIDE DEF t
  <2>3. TaskFact(t)
    BY <1>1, <2>1, <2>2 DEF TaskFact, Open
  <2>4. ASSUME NEW g \in Handler \ {h} PROVE PairFact(t, task[g]) /\ PairFact(task[g], t)
    <3>1. t.drop = {} /\ Writes(t) = {task[h].sub}
      BY <1>1, <2>2 DEF TaskFact, Open, Writes
    <3>2. Open(task[g]) => task[h].sub \notin task[g].drop
      BY DEF BeginActivate, Locked, Open
    <3> QED
      BY <1>1, <2>2, <3>1, <3>2 DEF PairFact
  <2> QED
    BY <1>1, <1>3, <2>2, <2>3, <2>4, MoveOnly
<1> QED
  BY <1>2, <1>3 DEF BeginActivate

\* replacePrevious calls the provider.
LEMMA CancelOtherStep == ASSUME Inv, NEW h \in Handler, CancelOther(h) PROVE Inv'
<1>1. /\ task[h] \in Task /\ TaskFact(task[h]) /\ task[h].pc = "replace"
      /\ \A g \in Handler \ {h} : PairFact(task[h], task[g]) /\ PairFact(task[g], task[h])
  BY Current DEF CancelOther, At
<1>2. PICK s \in task[h].others :
          CallCancel(s) /\ Goto(h, [task[h] EXCEPT !.pc = "close", !.other = s])
  BY DEF CancelOther
<1>3. s \in Sub /\ status[s] # "NONE"
  BY <1>1 DEF Task, TaskFact
<1> DEFINE t == [task[h] EXCEPT !.pc = "close", !.other = s]
<1>4. /\ t \in Task /\ t.pc = "close" /\ t.kind = task[h].kind /\ t.sub = task[h].sub
      /\ t.plan = task[h].plan /\ t.drop = task[h].drop /\ t.closed = task[h].closed
      /\ t.others = task[h].others /\ t.other = s
  BY <1>1, <1>3 DEF Task
<1>5. Goto(h, t) /\ UNCHANGED <<rowVars, vendor, accepted, stored>>
  BY <1>2 DEF CancelOther
<1> HIDE DEF t
<1>6. TaskFact(t)
  BY <1>1, <1>3, <1>4 DEF TaskFact, Open
<1>7. \A g \in Handler \ {h} : PairFact(t, task[g]) /\ PairFact(task[g], t)
  BY <1>1, <1>4 DEF PairFact, Open, Writes
<1>8. /\ prov' \in [Sub -> {"none", "pending", "authorized", "paused", "cancelled"}]
      /\ \A x \in Sub : prov'[x] \in {"authorized", "paused"} => x \in accepted
  BY <1>2, <1>3, CallCancelTyped
<1> QED
  BY <1>4, <1>5, <1>6, <1>7, <1>8, Move DEF Inv, TypeOK

\* ... and closes the row it has locked.
LEMMA CloseOtherStep == ASSUME Inv, NEW h \in Handler, CloseOther(h) PROVE Inv'
<1> DEFINE s == task[h].other
           t == [task[h] EXCEPT !.pc = "replace", !.other = None,
                                !.others = @ \ {s}, !.closed = @ \union {s}]
<1>1. /\ task[h] \in Task /\ TaskFact(task[h]) /\ task[h].pc = "close"
      /\ \A g \in Handler \ {h} : PairFact(task[h], task[g]) /\ PairFact(task[g], task[h])
  BY Current DEF CloseOther, At
<1>2. s \in Sub /\ status[s] # "NONE"
  BY <1>1 DEF TaskFact
<1>3. /\ t \in Task /\ t.pc = "replace" /\ t.kind = task[h].kind /\ t.sub = task[h].sub
      /\ t.plan = task[h].plan /\ t.drop = task[h].drop /\ t.closed = task[h].closed \union {s}
      /\ t.others \subseteq task[h].others
  BY <1>1, <1>2 DEF Task
<1>4. Goto(h, t) /\ UNCHANGED <<rowVars, vendor, provVars, stored>>
  BY DEF CloseOther
<1>5. /\ \A g \in Handler : Open(task[g]) => s \notin task[g].drop
      /\ s \notin task[h].drop
  BY <1>1 DEF CloseOther, Locked, Open
<1> HIDE DEF t
<1>6. TaskFact(t)
  BY <1>1, <1>2, <1>3 DEF TaskFact, Open
<1>7. \A g \in Handler \ {h} : PairFact(t, task[g]) /\ PairFact(task[g], t)
  BY <1>1, <1>3, <1>5 DEF PairFact, Open, Writes
<1> QED
  BY <1>3, <1>4, <1>6, <1>7, MoveOnly DEF Inv, TypeOK

-----------------------------------------------------------------------------

\* A notification about the preapproval.
LEMMA NotifyPreapprovalStep ==
    ASSUME Inv, NEW h \in Handler, NEW s \in Sub, NotifyPreapproval(h, s) PROVE Inv'
<1> DEFINE t == Event(EventOf(prov[s]), <<s, prov[s]>>, s)
<1>1. prov[s] \in {"authorized", "paused", "cancelled"}
  BY DEF NotifyPreapproval, Inv, TypeOK
<1>2. /\ EventOf(prov[s]) \in {"activate", "pastDue", "cancel"}
      /\ EventOf(prov[s]) = "activate" => s \in accepted
  BY <1>1 DEF EventOf, Inv, RowFacts
<1>3. <<s, prov[s]>> \in EventId
  BY <1>1 DEF EventId
<1>4. /\ t \in Task /\ t.pc = "event" /\ t.kind = EventOf(prov[s]) /\ t.sub = s
      /\ t.drop = {} /\ t.others = {} /\ t.closed = {}
  BY <1>2, <1>3 DEF Event, Idle, Task
<1>5. Goto(h, t) /\ UNCHANGED <<rowVars, vendor, provVars, stored>>
  BY DEF NotifyPreapproval
<1> HIDE DEF t
<1> QED
  BY <1>2, <1>4, <1>5, StartHarmless DEF Inv, TypeOK

\* A notification about a charge.
LEMMA NotifyChargeStep ==
    ASSUME Inv, NEW h \in Handler, NEW s \in Sub, NotifyCharge(h, s) PROVE Inv'
<1>1. PICK kind \in {"activate", "pastDue"} : Goto(h, Event(kind, None, s))
  BY DEF NotifyCharge
<1> DEFINE t == Event(kind, None, s)
<1>2. /\ t \in Task /\ t.pc = "event" /\ t.kind \in {"activate", "pastDue"} /\ t.sub = s
      /\ t.drop = {} /\ t.others = {} /\ t.closed = {}
  BY DEF Event, Idle, Task
<1>3. /\ Goto(h, t) /\ s \in accepted /\ UNCHANGED <<rowVars, vendor, provVars, stored>>
  BY <1>1 DEF NotifyCharge
<1> HIDE DEF t
<1> QED
  BY <1>2, <1>3, StartHarmless DEF Inv, TypeOK

\* reconcilePending picks a row.
LEMMA StartLookupStep == ASSUME Inv, NEW h \in Handler, StartLookup(h) PROVE Inv'
<1>1. PICK s \in Sub : Goto(h, [Idle EXCEPT !.pc = "lookup", !.sub = s])
  BY DEF StartLookup, Newest, In
<1> DEFINE t == [Idle EXCEPT !.pc = "lookup", !.sub = s]
<1>2. /\ t \in Task /\ t.pc = "lookup" /\ t.kind = "none" /\ t.sub = s
      /\ t.drop = {} /\ t.others = {} /\ t.closed = {}
  BY DEF Idle, Task
<1>3. Goto(h, t) /\ UNCHANGED <<rowVars, vendor, provVars, stored>>
  BY <1>1 DEF StartLookup
<1> HIDE DEF t
<1> QED
  BY <1>2, <1>3, StartHarmless DEF Inv, TypeOK

\* ... and has the provider's answer.
LEMMA LookupAnswersStep == ASSUME Inv, NEW h \in Handler, LookupAnswers(h) PROVE Inv'
<1> DEFINE s == task[h].sub
           t == Event(EventOf(prov[s]), None, s)
<1>1. s \in Sub /\ UNCHANGED <<rowVars, vendor, provVars, stored>> /\ stored' \subseteq EventId
  BY Current DEF LookupAnswers, At, TaskFact, Inv, TypeOK
<1>2. CASE Done(h)
  BY <1>1, <1>2, Finish
<1>3. CASE Goto(h, t) /\ EventOf(prov[s]) \in {"activate", "cancel"}
  <2>1. EventOf(prov[s]) = "activate" => s \in accepted
    BY <1>1 DEF EventOf, Inv, TypeOK, RowFacts
  <2>2. /\ t \in Task /\ t.pc = "event" /\ t.kind = EventOf(prov[s]) /\ t.sub = s
        /\ t.drop = {} /\ t.others = {} /\ t.closed = {}
    BY <1>1, <1>3 DEF Event, Idle, Task
  <2> HIDE DEF t
  <2> QED
    BY <1>1, <1>3, <2>1, <2>2, StartHarmless
<1> QED
  BY <1>2, <1>3 DEF LookupAnswers

\* An event is a duplicate, finds nothing to do, or goes on.
LEMMA DispatchStep == ASSUME Inv, NEW h \in Handler, Dispatch(h) PROVE Inv'
<1> DEFINE t == [task[h] EXCEPT
                    !.pc = "apply", !.id = None,
                    !.sawActive = task[h].kind = "pastDue" /\ status[task[h].sub] = "ACTIVE"]
<1>1. /\ task[h] \in Task /\ TaskFact(task[h]) /\ task[h].pc = "event"
      /\ \A g \in Handler \ {h} : PairFact(task[h], task[g]) /\ PairFact(task[g], task[h])
  BY Current DEF Dispatch, At
<1>2. UNCHANGED <<rowVars, vendor, provVars>> /\ stored' \subseteq EventId
  BY <1>1 DEF Dispatch, Inv, TypeOK, Task
<1>3. CASE Done(h)
  BY <1>2, <1>3, Finish
<1>4. CASE Goto(h, t)
  <2>1. /\ t \in Task /\ t.pc = "apply" /\ t.kind = task[h].kind /\ t.sub = task[h].sub
        /\ t.plan = task[h].plan /\ t.drop = task[h].drop /\ t.closed = task[h].closed
        /\ t.others = task[h].others
    BY <1>1 DEF Task
  <2> HIDE DEF t
  <2>2. TaskFact(t)
    BY <1>1, <2>1 DEF TaskFact, Open
  <2>3. \A g \in Handler \ {h} : PairFact(t, task[g]) /\ PairFact(task[g], t)
    BY <1>1, <2>1 DEF PairFact, Open
  <2> QED
    BY <1>2, <1>4, <2>1, <2>2, <2>3, MoveOnly
<1> QED
  BY <1>3, <1>4 DEF Dispatch

\* An error or a crash.
LEMMA TaskFailsStep == ASSUME Inv, NEW h \in Handler, TaskFails(h) PROVE Inv'
BY Finish DEF TaskFails, Inv, TypeOK

-----------------------------------------------------------------------------

\* What a request relies on survives a write of rows that creates nothing of its own,
\* and takes none of its pending rows.
LEMMA FactStays ==
    ASSUME NEW t \in Task, TaskFact(t), accepted \subseteq accepted',
           \A s \in Sub : status[s] # "NONE" => status'[s] # "NONE",
           t.kind = "subscribe" => status'[t.sub] = "NONE",
           \A s \in t.drop : status'[s] = "PENDING"
    PROVE  TaskFact(t)'
BY DEF TaskFact, Task

\* markPastDue, markCanceled and cancel write.
LEMMA SetStatusStep == ASSUME Inv, NEW h \in Handler, SetStatus(h) PROVE Inv'
<1> DEFINE s == task[h].sub
<1>1. /\ task[h] \in Task /\ TaskFact(task[h]) /\ s \in Sub
      /\ task[h].kind \in {"pastDue", "cancel"} /\ ~Open(task[h])
  BY Current DEF SetStatus, At, TaskFact, Open
<1>2. PICK new \in {"CANCELED", "PAST_DUE", status[s]} :
          /\ status' = [status EXCEPT ![s] = new]
          /\ s \notin Rows => new = status[s]
          /\ s \in Rows => new \in {"CANCELED", "PAST_DUE"}
  BY DEF SetStatus
<1>3. UNCHANGED <<planOf, createdAt, period, vendor, provVars, stored>> /\ Goto(h, Idle)
  BY DEF SetStatus, Done
<1>4. task' \in [Handler -> Task] /\ task'[h] = Idle /\ \A g \in Handler \ {h} : task'[g] = task[g]
  BY <1>3, IdleTask DEF Goto, Inv, TypeOK
<1>5. /\ status'[s] = new /\ \A x \in Sub \ {s} : status'[x] = status[x]
      /\ status' \in [Sub -> {"NONE", "PENDING", "ACTIVE", "PAST_DUE", "CANCELED", "EXPIRED", "GONE"}]
  BY <1>1, <1>2 DEF Inv, TypeOK
<1>6. TypeOK'
  <2>1. strays' \subseteq Sub
    BY <1>1 DEF SetStatus, Inv, TypeOK
  <2> QED
    BY <1>1, <1>2, <1>3, <1>4, <1>5, <2>1 DEF Inv, TypeOK, Rows, provVars
<1>7. RowFacts'
  BY <1>1, <1>2, <1>3, <1>5 DEF Inv, RowFacts, Rows, provVars
<1>8. ASSUME NEW g \in Handler \ {h} PROVE TaskFact(task[g])'
  <2>1. task[g] \in Task /\ TaskFact(task[g])
    BY DEF Inv, TypeOK, TaskFacts
  <2>2. s \notin task[g].drop
    BY <2>1 DEF SetStatus, Locked, TaskFact, Open
  <2>3. status[s] = "NONE" => status'[s] = "NONE"
    BY <1>1, <1>2, <1>5 DEF Rows
  <2>4. \A x \in Sub : status[x] # "NONE" <=> status'[x] # "NONE"
    BY <1>1, <1>2, <1>5, <2>3 DEF Rows
  <2>5. \A x \in task[g].drop : status'[x] = "PENDING"
    BY <1>5, <2>1, <2>2 DEF TaskFact, Task
  <2>6. task[g].kind = "subscribe" => status'[task[g].sub] = "NONE"
    BY <2>1, <2>4 DEF TaskFact
  <2> QED
    BY <1>3, <1>4, <2>1, <2>4, <2>5, <2>6, FactStays DEF provVars
<1>9. TaskFacts' /\ PairFacts'
  <2>1. TaskFact(Idle)'
    BY DEF Idle, TaskFact, Open
  <2> QED
    BY <1>4, <1>8, <2>1, IdleTask DEF Inv, TaskFacts, PairFacts
<1> QED
  BY <1>6, <1>7, <1>9 DEF Inv

\* The job expires canceled plans.
LEMMA ExpireStep == ASSUME Inv, Expire PROVE Inv'
<1> DEFINE lapsed == {s \in In({"CANCELED"}) : period[s] = "over"}
<1>1. /\ status' = [s \in Sub |-> IF s \in lapsed THEN "EXPIRED" ELSE status[s]]
      /\ UNCHANGED <<planOf, createdAt, period, strays, vendor, provVars, stored, task>>
  BY DEF Expire
<1>2. \A s \in Sub : \/ status'[s] = status[s]
                     \/ status[s] = "CANCELED" /\ status'[s] = "EXPIRED"
  BY <1>1 DEF In
<1>3. status' \in [Sub -> {"NONE", "PENDING", "ACTIVE", "PAST_DUE", "CANCELED", "EXPIRED", "GONE"}]
  BY <1>1 DEF Inv, TypeOK
<1> HIDE DEF lapsed
<1>4. TypeOK' /\ RowFacts'
  BY <1>1, <1>2, <1>3 DEF Inv, TypeOK, RowFacts, Rows, provVars
<1>5. ASSUME NEW h \in Handler PROVE TaskFact(task[h])'
  <2>1. task[h] \in Task /\ TaskFact(task[h])
    BY DEF Inv, TypeOK, TaskFacts
  <2>2. \A x \in task[h].drop : status'[x] = "PENDING"
    BY <1>2, <2>1 DEF TaskFact, Task
  <2>3. task[h].kind = "subscribe" => status'[task[h].sub] = "NONE"
    BY <1>2, <2>1 DEF TaskFact
  <2> QED
    BY <1>1, <1>2, <2>1, <2>2, <2>3, FactStays DEF provVars
<1> QED
  BY <1>1, <1>4, <1>5 DEF Inv, TaskFacts, PairFacts

\* The transaction commits: the row, the deletions and the closed plans together.
LEMMA CommitStep == ASSUME Inv, NEW h \in Handler, Commit(h) PROVE Inv'
<1>1. PICK t : t = task[h]
  OBVIOUS
<1>2. /\ t \in Task /\ TaskFact(t) /\ t.pc = "replace" /\ Open(t)
      /\ t.kind \in {"subscribe", "activate"} /\ t.sub \in Sub
      /\ \A g \in Handler \ {h} : PairFact(t, task[g]) /\ PairFact(task[g], t)
  <2>1. t.pc = "replace"
    BY <1>1 DEF Commit, At
  <2> QED
    BY <1>1, <2>1, Current DEF TaskFact, Open
<1>3. /\ UNCHANGED <<provVars, stored>> /\ vendor' \in {vendor, "ACTIVE"}
      /\ task' \in [Handler -> Task] /\ task'[h] = Idle
      /\ \A g \in Handler \ {h} : task'[g] = task[g]
  BY IdleTask DEF Commit, Done, Goto, Inv, TypeOK
<1>write. /\ status' = [s \in Sub |-> IF s = t.sub THEN FirstStatus(t)
                                  ELSE IF s \in t.drop THEN "GONE"
                                  ELSE IF s \in t.closed THEN "CANCELED" ELSE status[s]]
      /\ period' = [s \in Sub |-> IF s = t.sub THEN FirstPeriod(t)
                                  ELSE IF s \in t.closed THEN "over" ELSE period[s]]
  BY <1>1 DEF Commit
<1>4. /\ status'[t.sub] = IF Starts(t) THEN "ACTIVE" ELSE "PENDING"
      /\ period'[t.sub] = IF Starts(t) THEN "running" ELSE "none"
  BY <1>write, <1>2 DEF FirstStatus, FirstPeriod
<1>5. \A s \in Sub \ {t.sub} :
          \/ s \in t.drop /\ status'[s] = "GONE"
          \/ s \in t.closed /\ status'[s] = "CANCELED" /\ s \notin t.drop
          \/ status'[s] = status[s] /\ s \notin t.drop \union t.closed
  BY <1>write
<1>6. \A s \in Sub \ {t.sub} : period'[s] = IF s \in t.closed THEN "over" ELSE period[s]
  BY <1>write
<1>7. status' \in [Sub -> {"NONE", "PENDING", "ACTIVE", "PAST_DUE", "CANCELED", "EXPIRED", "GONE"}]
  BY <1>write DEF FirstStatus, Inv, TypeOK
<1>8. period' \in [Sub -> {"none", "running", "over"}]
  BY <1>write DEF FirstPeriod, Inv, TypeOK
<1>9. /\ planOf' \in [Sub -> Plan \union {None}]
      /\ \A s \in Sub \ {t.sub} : planOf'[s] = planOf[s]
      /\ t.kind = "subscribe" => planOf'[t.sub] = t.plan /\ t.plan \in Plan
      /\ t.kind = "activate" => planOf'[t.sub] = planOf[t.sub]
  <2>1. t.kind = "subscribe" => t.plan \in Plan
    BY <1>2 DEF TaskFact
  <2> QED
    BY <1>1, <1>2, <2>1 DEF Commit, Inv, TypeOK
<1>10. createdAt' \in [Sub -> Nat]
  <2>1. IsFiniteSet(Sub \ In({"NONE"}))
    BY SubscriptionsAssumption, FS_Subset
  <2>2. 1 + Cardinality(Sub \ In({"NONE"})) \in Nat
    BY <2>1, FS_CardinalityType
  <2> QED
    BY <2>2 DEF Commit, Inv, TypeOK
<1>11. /\ t.kind = "activate" => t.sub \in accepted
       /\ t.kind = "subscribe" => status[t.sub] = "NONE"
       /\ \A s \in t.drop : status[s] = "PENDING" /\ period[s] = "none"
       /\ \A s \in t.closed : status[s] # "NONE"
  <2>1. t.drop \in SUBSET Sub /\ \A s \in t.drop : status[s] = "PENDING"
    BY <1>2 DEF TaskFact, Task
  <2>2. \A s \in t.drop : period[s] = "none"
    BY <2>1 DEF Inv, TypeOK
  <2> QED
    BY <1>2, <2>1, <2>2 DEF TaskFact
<1>12. Starts(t) => t.kind = "activate" \/ (t.kind = "subscribe" /\ planOf'[t.sub] \in Instant)
  <2>1. t.kind = "activate" \/ (t.kind = "subscribe" /\ planOf'[t.sub] = t.plan)
    BY <1>2, <1>9
  <2> QED
    BY <2>1 DEF Starts
<1>13. RowFacts'
  <2>1. /\ t.sub \in accepted => status[t.sub] # "NONE"
        /\ prov[t.sub] \in {"authorized", "paused"} => t.sub \in accepted
        /\ status[t.sub] # "NONE" => planOf[t.sub] \in Plan
    BY <1>2 DEF Inv, RowFacts
  <2>2. /\ planOf'[t.sub] \in Plan /\ status'[t.sub] # "NONE"
        /\ status'[t.sub] = "ACTIVE" \/ period'[t.sub] = "running"
               => planOf'[t.sub] \in Instant \/ t.sub \in accepted
    BY <1>2, <1>4, <1>9, <1>11, <1>12, <2>1
  <2>3. ASSUME NEW s \in Sub \ {t.sub}
        PROVE  /\ status'[s] # "NONE" => planOf'[s] \in Plan
               /\ status'[s] = "ACTIVE" \/ period'[s] = "running"
                      => planOf'[s] \in Instant \/ s \in accepted
               /\ s \in accepted => status'[s] # "NONE"
    BY <1>5, <1>6, <1>9, <1>11 DEF Inv, RowFacts
  <2> QED
    BY <1>3, <2>1, <2>2, <2>3 DEF Inv, RowFacts, provVars
<1>14. TypeOK'
  <2>1. \A s \in Sub : status'[s] = "PENDING" => period'[s] = "none"
    BY <1>4, <1>5, <1>6 DEF Inv, TypeOK
  <2>2. \A s \in Rows' : planOf'[s] \in Plan
    BY <1>13 DEF RowFacts, Rows
  <2>3. vendor' \in VendorStatus
    BY <1>3 DEF Inv, TypeOK, VendorStatus
  <2>4. strays' \subseteq Sub
    BY <1>1, <1>2 DEF Commit, Inv, TypeOK
  <2> QED
    BY <1>3, <1>7, <1>8, <1>9, <1>10, <2>1, <2>2, <2>3, <2>4 DEF Inv, TypeOK, provVars
<1>15. ASSUME NEW g \in Handler \ {h} PROVE TaskFact(task[g])'
  <2>1. /\ task[g] \in Task /\ TaskFact(task[g])
        /\ PairFact(t, task[g]) /\ PairFact(task[g], t)
    BY <1>2 DEF Inv, TypeOK, TaskFacts
  <2>2. \A s \in Sub : status[s] # "NONE" => status'[s] # "NONE"
    BY <1>4, <1>5
  <2>3. task[g].kind = "subscribe" => status'[task[g].sub] = "NONE"
    <3>1. SUFFICES ASSUME task[g].kind = "subscribe" PROVE status'[task[g].sub] = "NONE"
      OBVIOUS
    <3>2. task[g].sub \in Sub /\ status[task[g].sub] = "NONE"
      BY <2>1, <3>1 DEF TaskFact
    <3>3. task[g].sub # t.sub
      BY <1>2, <1>11, <2>1, <3>1, <3>2 DEF PairFact, Inv, RowFacts
    <3> QED
      BY <1>5, <1>11, <3>2, <3>3
  <2>4. \A s \in task[g].drop : status'[s] = "PENDING"
    <3>1. \A s \in task[g].drop : Open(task[g]) /\ s \in Sub /\ status[s] = "PENDING"
      BY <2>1 DEF TaskFact, Task
    <3>2. \A s \in task[g].drop : s \notin Writes(t)
      BY <1>2, <2>1, <3>1 DEF PairFact
    <3> QED
      BY <1>5, <3>1, <3>2 DEF Writes
  <2> QED
    BY <1>3, <2>1, <2>2, <2>3, <2>4, FactStays DEF provVars
<1>16. TaskFacts' /\ PairFacts'
  <2>1. TaskFact(Idle)'
    BY DEF Idle, TaskFact, Open
  <2> QED
    BY <1>3, <1>15, <2>1, IdleTask DEF Inv, TaskFacts, PairFacts
<1> QED
  BY <1>13, <1>14, <1>16 DEF Inv

\* The calendar, the provider and the admin leave every request where it is.
LEMMA OutsideStep ==
    ASSUME Inv, UNCHANGED task, RowFacts', TypeOK', UNCHANGED status, accepted \subseteq accepted'
    PROVE  Inv'
<1>1. ASSUME NEW h \in Handler PROVE TaskFact(task[h])'
  <2>1. task[h] \in Task /\ TaskFact(task[h])
    BY DEF Inv, TypeOK, TaskFacts
  <2> QED
    BY <2>1, FactStays DEF TaskFact
<1> QED
  BY <1>1 DEF Inv, TaskFacts, PairFacts

\* A paid period ends.
LEMMA PeriodEndsStep == ASSUME Inv, NEW s \in Sub, PeriodEnds(s) PROVE Inv'
<1>1. TypeOK' /\ RowFacts' /\ UNCHANGED <<task, status, accepted>>
  BY DEF PeriodEnds, Inv, TypeOK, RowFacts, Rows, provVars
<1> QED
  BY <1>1, OutsideStep

\* The seller pays.
LEMMA SellerPaysStep == ASSUME Inv, NEW s \in Sub, SellerPays(s) PROVE Inv'
<1>1. TypeOK' /\ RowFacts' /\ UNCHANGED <<task, status>> /\ accepted \subseteq accepted'
  BY DEF SellerPays, Inv, TypeOK, RowFacts, Rows, rowVars
<1> QED
  BY <1>1, OutsideStep

\* The provider changes the preapproval.
LEMMA ProviderMovesStep == ASSUME Inv, NEW s \in Sub, ProviderMoves(s) PROVE Inv'
<1>1. TypeOK' /\ RowFacts' /\ UNCHANGED <<task, status, accepted>>
  BY DEF ProviderMoves, Inv, TypeOK, RowFacts, Rows, rowVars
<1> QED
  BY <1>1, OutsideStep

\* An admin changes the seller.
LEMMA SetVendorStatusStep == ASSUME Inv, SetVendorStatus PROVE Inv'
<1>1. TypeOK' /\ RowFacts' /\ UNCHANGED <<task, status, accepted>>
  BY SubscriptionsAssumption
     DEF SetVendorStatus, Inv, TypeOK, RowFacts, Rows, rowVars, provVars, VendorStatus
<1> QED
  BY <1>1, OutsideStep

-----------------------------------------------------------------------------

\* There is nothing yet.
LEMMA InvInit == Init => Inv
<1> SUFFICES ASSUME Init PROVE Inv
  OBVIOUS
<1>1. TypeOK /\ RowFacts
  BY IdleTask DEF Init, TypeOK, RowFacts, Rows, VendorStatus
<1>2. TaskFacts /\ PairFacts
  BY IdleTask DEF Init, TaskFacts, PairFacts
<1> QED
  BY <1>1, <1>2 DEF Inv

\* Every step keeps the invariant.
LEMMA NextStep == Inv /\ [Next]_vars => Inv'
<1> SUFFICES ASSUME Inv, [Next]_vars PROVE Inv'
  OBVIOUS
<1>1. CASE UNCHANGED vars
  BY <1>1 DEF vars, rowVars, provVars, Inv, TypeOK, Rows, RowFacts, TaskFacts, TaskFact, PairFacts
<1>2. CASE Next
  <2>1. ASSUME NEW h \in Handler, Step(h) PROVE Inv'
    BY <2>1, CreatePreapprovalStep, BeginInsertStep, CancelAtGatewayStep, BeginActivateStep,
       CancelOtherStep, CloseOtherStep, CommitStep, LookupAnswersStep, DispatchStep,
       SetStatusStep DEF Step
  <2>2. ASSUME NEW h \in Handler, Cancel(h) \/ StartLookup(h) \/ TaskFails(h) PROVE Inv'
    BY <2>2, CancelStep, StartLookupStep, TaskFailsStep
  <2>3. ASSUME NEW h \in Handler, NEW s \in Sub,
               NotifyPreapproval(h, s) \/ NotifyCharge(h, s) PROVE Inv'
    BY <2>3, NotifyPreapprovalStep, NotifyChargeStep
  <2>4. ASSUME NEW h \in Handler, NEW s \in Sub, NEW p \in Plan, Subscribe(h, p, s) PROVE Inv'
    BY <2>4, SubscribeStep
  <2>5. ASSUME NEW s \in Sub, PeriodEnds(s) \/ SellerPays(s) \/ ProviderMoves(s) PROVE Inv'
    BY <2>5, PeriodEndsStep, SellerPaysStep, ProviderMovesStep
  <2>6. ASSUME Expire \/ SetVendorStatus PROVE Inv'
    BY <2>6, ExpireStep, SetVendorStatusStep
  <2> QED
    BY <1>2, <2>1, <2>2, <2>3, <2>4, <2>5, <2>6 DEF Next
<1> QED
  BY <1>1, <1>2

\* The inductive invariant holds throughout.
LEMMA Always == Spec => []Inv
BY InvInit, NextStep, PTL DEF Spec

-----------------------------------------------------------------------------

\* Rows, preapprovals and requests have their types, a row has a plan, and a pending one
\* no dates: SubscriptionsService with any number of requests at the same time.
THEOREM PlanTypes == Spec => []TypeOK
<1>1. Inv => TypeOK
  BY DEF Inv
<1> QED
  BY <1>1, Always, PTL

\* A paid plan entitles its seller only once the seller has accepted and paid it, however
\* events, lookups, cancellations and errors overlap.
THEOREM NeverUnpaid == Spec => []NobodySellsUnpaid
<1>1. Inv => NobodySellsUnpaid
  BY DEF Inv, RowFacts, NobodySellsUnpaid, Entitling, Entitles
<1> QED
  BY <1>1, Always, PTL

\* A started plan loses its rows to no other checkout: subscribe deletes pending rows
\* only, and holds their locks until it has.
THEOREM StartedStays == Spec => StartedPlanStays
<1> DEFINE Stays == \A s \in Sub :
              status[s] \in {"ACTIVE", "PAST_DUE", "CANCELED", "EXPIRED"} => status'[s] # "GONE"
<1>1. Inv /\ [Next]_vars => [Stays]_vars
  <2> SUFFICES ASSUME Inv, Next, NEW s \in Sub,
                      status[s] \in {"ACTIVE", "PAST_DUE", "CANCELED", "EXPIRED"}
               PROVE  status'[s] # "GONE"
    BY DEF Stays
  <2>1. CASE UNCHANGED status
    BY <2>1
  <2>2. ASSUME NEW h \in Handler, Commit(h) PROVE status'[s] # "GONE"
    <3>1. s \notin task[h].drop
      BY Current DEF TaskFact
    <3> QED
      BY <2>2, <3>1 DEF Commit, FirstStatus
  <2>3. ASSUME NEW h \in Handler, SetStatus(h) PROVE status'[s] # "GONE"
    BY <2>3 DEF SetStatus, Inv, TypeOK
  <2>4. CASE Expire
    BY <2>4 DEF Expire
  <2>5. ASSUME NEW h \in Handler, Step(h), ~Commit(h), ~SetStatus(h) PROVE UNCHANGED status
    BY <2>5 DEF Step, CreatePreapproval, BeginInsert, CancelAtGateway, BeginActivate,
               CancelOther, CloseOther, LookupAnswers, Dispatch, rowVars
  <2>6. \/ UNCHANGED status \/ Expire \/ \E h \in Handler : Step(h)
    BY DEF Next, Cancel, StartLookup, TaskFails, NotifyPreapproval, NotifyCharge, Subscribe,
           PeriodEnds, SellerPays, ProviderMoves, SetVendorStatus, rowVars
  <2> QED
    BY <2>1, <2>2, <2>3, <2>4, <2>5, <2>6
<1> QED
  BY <1>1, Always, PTL DEF Spec, StartedPlanStays

-----------------------------------------------------------------------------
(* One live plan, beside the strays, and the period of a canceled one.     *)

Steady == Live \ strays

\* Its transaction makes a plan ACTIVE.
Starting(t) == Open(t) /\ Starts(t)

\* A transaction that did not race has closed, or has still to close, every other steady
\* plan; a past-due update found its row ACTIVE.
LiveFact(t) ==
    /\ t.pc = "cancelCall" => t.kind = "cancel"
    /\ t.pc = "apply" /\ t.kind = "pastDue" => t.sawActive
    /\ Starting(t) /\ ~t.raced => Steady \subseteq {t.sub} \union t.others \union t.closed

\* Of two transactions that start a plan, the later one raced.
RaceFact(t, u) == Starting(t) /\ Starting(u) => t.raced \/ u.raced

\* The inductive invariant of the live plans, beside Inv.
LiveInv ==
    /\ \A a, b \in Steady : a = b
    /\ \A h \in Handler : LiveFact(task[h])
    /\ \A g, h \in Handler : g # h => RaceFact(task[g], task[h])

\* An idle request relies on nothing.
LEMMA IdleLive ==
    /\ LiveFact(Idle) /\ LiveFact(Idle)'
    /\ \A t : RaceFact(t, Idle) /\ RaceFact(Idle, t)
BY DEF LiveFact, RaceFact, Starting, Idle, Open

\* What a request relies on survives any step that adds no steady plan.
LEMMA LiveFactStays ==
    ASSUME NEW t, LiveFact(t), Steady' \subseteq Steady PROVE LiveFact(t)'
BY DEF LiveFact, Starting, Open, Starts

\* A step of one request that adds no steady plan.
LEMMA LiveMove ==
    ASSUME Inv, LiveInv, NEW h \in Handler, NEW t, Goto(h, t), Steady' \subseteq Steady,
           LiveFact(t)',
           \A g \in Handler \ {h} : RaceFact(t, task[g]) /\ RaceFact(task[g], t)
    PROVE  LiveInv'
<1>1. task'[h] = t /\ \A g \in Handler \ {h} : task'[g] = task[g]
  BY DEF Goto, Inv, TypeOK
<1>2. \A a, b \in Steady' : a = b
  BY DEF LiveInv
<1>3. ASSUME NEW g \in Handler PROVE LiveFact(task[g])'
  <2>1. CASE g = h
    BY <1>1, <2>1
  <2>2. CASE g # h
    <3>1. LiveFact(task[g])
      BY DEF LiveInv
    <3>2. task'[g] = task[g]
      BY <1>1, <2>2
    <3> QED
      BY <3>1, <3>2, LiveFactStays DEF LiveFact, Starting, Open, Starts
  <2> QED
    BY <2>1, <2>2
<1>4. ASSUME NEW f \in Handler, NEW g \in Handler, f # g PROVE RaceFact(task'[f], task'[g])
  BY <1>1, <1>4 DEF LiveInv
<1> QED
  BY <1>2, <1>3, <1>4 DEF LiveInv, RaceFact, Starting, Open, Starts

\* The rows stay as they are.
LEMMA SteadyStays ==
    ASSUME UNCHANGED <<status, strays>> PROVE Steady' = Steady
BY DEF Steady, Live, In

\* A request that is not in a transaction races with none.
LEMMA NotOpen ==
    ASSUME NEW t, NEW u, ~Open(t) PROVE RaceFact(t, u) /\ RaceFact(u, t)
BY DEF RaceFact, Starting

\* A request ends, and has added no steady plan.
LEMMA LiveEnd ==
    ASSUME Inv, LiveInv, NEW h \in Handler, Done(h), Steady' \subseteq Steady PROVE LiveInv'
BY IdleLive, LiveMove DEF Done

\* subscribe, cancel, a notification and a lookup start.
LEMMA LiveStarts ==
    ASSUME Inv, LiveInv, NEW h \in Handler,
           \/ Cancel(h) \/ StartLookup(h)
           \/ \E s \in Sub : NotifyPreapproval(h, s) \/ NotifyCharge(h, s)
           \/ \E s \in Sub, p \in Plan : Subscribe(h, p, s)
    PROVE  LiveInv'
<1>1. UNCHANGED <<status, strays>> /\ Steady' \subseteq Steady
  BY SteadyStays DEF Cancel, StartLookup, NotifyPreapproval, NotifyCharge, Subscribe, rowVars
<1>2. PICK t : /\ Goto(h, t)
               /\ t.pc \in {"cancelCall", "lookup", "event", "insert", "create"}
               /\ t.pc = "cancelCall" => t.kind = "cancel"
  <2>1. CASE Cancel(h)
    <3>1. PICK s \in Sub : Goto(h, [Idle EXCEPT !.pc = "cancelCall", !.kind = "cancel", !.sub = s])
      BY <2>1 DEF Cancel, Newest, Entitling
    <3> DEFINE t == [Idle EXCEPT !.pc = "cancelCall", !.kind = "cancel", !.sub = s]
    <3>2. t.pc = "cancelCall" /\ t.kind = "cancel"
      BY DEF Idle
    <3> QED
      BY <3>1, <3>2
  <2>2. CASE StartLookup(h)
    <3>1. PICK s \in Sub : Goto(h, [Idle EXCEPT !.pc = "lookup", !.sub = s])
      BY <2>2 DEF StartLookup, Newest, In
    <3>2. [Idle EXCEPT !.pc = "lookup", !.sub = s].pc = "lookup"
      BY DEF Idle
    <3> QED
      BY <3>1, <3>2
  <2>3. CASE \E s \in Sub : NotifyPreapproval(h, s) \/ NotifyCharge(h, s)
    <3>1. \E kind, id, s : Goto(h, Event(kind, id, s))
      BY <2>3 DEF NotifyPreapproval, NotifyCharge
    <3>2. \A kind, id, s : Event(kind, id, s).pc = "event"
      BY DEF Event, Idle
    <3> QED
      BY <3>1, <3>2
  <2>4. CASE \E s \in Sub, p \in Plan : Subscribe(h, p, s)
    <3>1. PICK s \in Sub, p \in Plan : Subscribe(h, p, s)
      BY <2>4
    <3> DEFINE t == [Idle EXCEPT !.pc = IF p \in Instant THEN "insert" ELSE "create",
                                !.kind = "subscribe", !.sub = s, !.plan = p]
    <3>2. t.pc \in {"insert", "create"} /\ Goto(h, t)
      BY <3>1 DEF Idle, Subscribe
    <3> QED
      BY <3>2
  <2> QED
    BY <2>1, <2>2, <2>3, <2>4
<1>3. ~Open(t) /\ LiveFact(t)
  BY <1>2 DEF LiveFact, Starting, Open
<1> QED
  BY <1>1, <1>2, <1>3, LiveFactStays, NotOpen, LiveMove

\* The steps of a request before it writes.
LEMMA LiveBefore ==
    ASSUME Inv, LiveInv, NEW h \in Handler,
           CreatePreapproval(h) \/ CancelAtGateway(h) \/ LookupAnswers(h) \/ Dispatch(h)
    PROVE  LiveInv'
<1>1. task[h] \in Task /\ LiveFact(task[h])
  BY Current DEF LiveInv
<1>2. UNCHANGED <<status, strays>> /\ Steady' \subseteq Steady
  BY SteadyStays DEF CreatePreapproval, CancelAtGateway, LookupAnswers, Dispatch, rowVars
<1>3. Done(h) \/ \E t : Goto(h, t) /\ ~Open(t) /\ LiveFact(t)
  <2>1. CASE CreatePreapproval(h)
    <3> DEFINE t == [task[h] EXCEPT !.pc = "insert"]
    <3>1. t.pc = "insert" /\ Goto(h, t)
      BY <1>1, <2>1 DEF Task, CreatePreapproval
    <3> QED
      BY <3>1 DEF LiveFact, Starting, Open
  <2>2. CASE CancelAtGateway(h)
    <3> DEFINE t == [task[h] EXCEPT !.pc = "apply"]
    <3>1. t.pc = "apply" /\ t.kind = "cancel" /\ Goto(h, t)
      BY <1>1, <2>2 DEF Task, CancelAtGateway, At, LiveFact
    <3> QED
      BY <3>1 DEF LiveFact, Starting, Open
  <2>3. CASE LookupAnswers(h)
    <3> DEFINE t == Event(EventOf(prov[task[h].sub]), None, task[h].sub)
    <3>1. t.pc = "event" /\ (Done(h) \/ Goto(h, t))
      BY <2>3 DEF Event, Idle, LookupAnswers
    <3> QED
      BY <3>1 DEF LiveFact, Starting, Open
  <2>4. CASE Dispatch(h)
    <3> DEFINE t == [task[h] EXCEPT
                        !.pc = "apply", !.id = None,
                        !.sawActive = task[h].kind = "pastDue" /\ status[task[h].sub] = "ACTIVE"]
    <3>1. \/ Done(h)
          \/ Goto(h, t) /\ task[h].sub \in AppliesTo(task[h].kind)
      BY <2>4 DEF Dispatch
    <3>2. task[h].sub \in AppliesTo(task[h].kind) /\ task[h].kind = "pastDue" => t.sawActive
      BY <1>1 DEF Task, AppliesTo, In
    <3>3. t.pc = "apply" /\ t.kind = task[h].kind
      BY <1>1 DEF Task
    <3> HIDE DEF t
    <3> QED
      BY <3>1, <3>2, <3>3 DEF LiveFact, Starting, Open
  <2> QED
    BY <2>1, <2>2, <2>3, <2>4
<1> QED
  BY <1>2, <1>3, LiveEnd, LiveFactStays, NotOpen, LiveMove

\* A transaction begins: the first that starts a plan has read every other one, and a later
\* one knows that it raced.
LEMMA LiveBegins ==
    ASSUME Inv, LiveInv, NEW h \in Handler, NEW t \in Task, Goto(h, t),
           UNCHANGED <<status, strays>>, t.pc = "replace",
           Starts(t) => t.others = ToReplace(t.sub) /\ (t.raced <=> Races(t))
    PROVE  LiveInv'
<1>1. Steady' \subseteq Steady
  BY SteadyStays
<1>2. LiveFact(t)
  BY DEF LiveFact, Starting, ToReplace, Steady
<1>3. ASSUME NEW g \in Handler PROVE RaceFact(t, task[g]) /\ RaceFact(task[g], t)
  <2>1. Starts(t) /\ Starting(task[g]) => t.raced
    BY DEF Races, Starting, Open
  <2> QED
    BY <2>1 DEF RaceFact, Starting
<1> QED
  BY <1>1, <1>2, <1>3, LiveFactStays, LiveMove

\* A step within a transaction moves a plan from the others to the closed ones at most.
LEMMA LiveReplaces ==
    ASSUME Inv, LiveInv, NEW h \in Handler, NEW t \in Task, Goto(h, t),
           UNCHANGED <<status, strays>>, t.pc \in {"replace", "close"}, Open(task[h]),
           t.kind = task[h].kind, t.plan = task[h].plan, t.sub = task[h].sub,
           t.raced = task[h].raced,
           task[h].others \union task[h].closed \subseteq t.others \union t.closed
    PROVE  LiveInv'
<1>1. Steady' \subseteq Steady
  BY SteadyStays
<1>2. Starting(t) <=> Starting(task[h])
  BY DEF Starting, Open, Starts
<1>3. LiveFact(t)
  BY <1>2 DEF LiveInv, LiveFact
<1>4. \A g \in Handler \ {h} : RaceFact(t, task[g]) /\ RaceFact(task[g], t)
  BY <1>2 DEF LiveInv, RaceFact
<1> QED
  BY <1>1, <1>3, <1>4, LiveFactStays, LiveMove

\* The steps of a transaction before it commits.
LEMMA LiveTransaction ==
    ASSUME Inv, LiveInv, NEW h \in Handler,
           BeginInsert(h) \/ BeginActivate(h) \/ CancelOther(h) \/ CloseOther(h)
    PROVE  LiveInv'
<1>1. task[h] \in Task /\ TaskFact(task[h])
  BY Current
<1>2. UNCHANGED <<status, strays>>
  BY DEF BeginInsert, BeginActivate, CancelOther, CloseOther, rowVars
<1>3. Races(task[h]) \in BOOLEAN /\ ToReplace(task[h].sub) \subseteq Sub
  BY DEF Races, ToReplace, Live, In
<1>4. CASE BeginInsert(h)
  <2> DEFINE o == IF task[h].plan \in Instant THEN ToReplace(task[h].sub) ELSE {}
             t == [task[h] EXCEPT !.pc = "replace", !.drop = In({"PENDING"}),
                                  !.raced = Races(task[h]), !.others = o]
  <2>1. /\ t \in Task /\ t.pc = "replace" /\ t.sub = task[h].sub /\ t.plan = task[h].plan
        /\ t.kind = task[h].kind /\ t.raced = Races(task[h]) /\ t.others = o
    BY <1>1, <1>3 DEF Task, In
  <2>2. Goto(h, t) /\ task[h].kind = "subscribe"
    BY <1>1, <1>4 DEF BeginInsert, At, TaskFact
  <2> HIDE DEF t
  <2>3. Starts(t) => t.others = ToReplace(t.sub) /\ (t.raced <=> Races(t))
    BY <2>1, <2>2 DEF Starts, Races
  <2> QED
    BY <1>2, <2>1, <2>2, <2>3, LiveBegins
<1>5. CASE BeginActivate(h)
  <2> DEFINE t == [task[h] EXCEPT !.pc = "replace", !.raced = Races(task[h]),
                                  !.others = ToReplace(task[h].sub)]
  <2>1. /\ t \in Task /\ t.pc = "replace" /\ t.sub = task[h].sub /\ t.plan = task[h].plan
        /\ t.kind = task[h].kind /\ t.raced = Races(task[h])
        /\ t.others = ToReplace(task[h].sub)
    BY <1>1, <1>3 DEF Task
  <2>2. Done(h) \/ Goto(h, t)
    BY <1>5 DEF BeginActivate
  <2> HIDE DEF t
  <2>3. t.raced <=> Races(t)
    BY <2>1 DEF Starts, Races
  <2>4. Steady' \subseteq Steady
    BY <1>2, SteadyStays
  <2> QED
    BY <1>2, <2>1, <2>2, <2>3, <2>4, LiveBegins, LiveEnd
<1>6. CASE CancelOther(h)
  <2>1. PICK s \in task[h].others : Goto(h, [task[h] EXCEPT !.pc = "close", !.other = s])
    BY <1>6 DEF CancelOther
  <2> DEFINE t == [task[h] EXCEPT !.pc = "close", !.other = s]
  <2>2. /\ t \in Task /\ t.pc = "close" /\ t.kind = task[h].kind /\ t.plan = task[h].plan
        /\ t.sub = task[h].sub /\ t.raced = task[h].raced
        /\ t.others = task[h].others /\ t.closed = task[h].closed
    BY <1>1 DEF Task
  <2>3. Goto(h, t) /\ Open(task[h])
    BY <1>6, <2>1 DEF CancelOther, At, Open
  <2> HIDE DEF t
  <2> QED
    BY <1>2, <2>2, <2>3, LiveReplaces
<1>7. CASE CloseOther(h)
  <2> DEFINE s == task[h].other
             t == [task[h] EXCEPT !.pc = "replace", !.other = None,
                                  !.others = @ \ {s}, !.closed = @ \union {s}]
  <2>1. Goto(h, t) /\ task[h].pc = "close"
    BY <1>7 DEF CloseOther, At
  <2>2. s \in Sub
    BY <1>1, <2>1 DEF TaskFact
  <2>3. /\ t \in Task /\ t.pc = "replace" /\ t.kind = task[h].kind /\ t.plan = task[h].plan
        /\ t.sub = task[h].sub /\ t.raced = task[h].raced
        /\ t.others = task[h].others \ {s} /\ t.closed = task[h].closed \union {s}
    BY <1>1, <2>2 DEF Task
  <2> HIDE DEF t
  <2> QED
    BY <1>2, <2>1, <2>3, LiveReplaces DEF Open
<1> QED
  BY <1>4, <1>5, <1>6, <1>7

\* When it commits, the plans it has closed are CANCELED; if it did not race those were all
\* the steady ones, and no other transaction relies on them.
LEMMA LiveCommit ==
    ASSUME Inv, LiveInv, NEW h \in Handler, Commit(h)
    PROVE  LiveInv'
<1>1. PICK t : t = task[h]
  OBVIOUS
<1>2. /\ t.pc = "replace" /\ t.others = {} /\ LiveFact(t) /\ Done(h) /\ t.sub \in Sub
      /\ \A g \in Handler \ {h} : RaceFact(t, task[g])
  BY <1>1, Current DEF Commit, At, LiveInv, TaskFact
<1>3. /\ status' = [s \in Sub |-> IF s = t.sub THEN FirstStatus(t)
                                  ELSE IF s \in t.drop THEN "GONE"
                                  ELSE IF s \in t.closed THEN "CANCELED" ELSE status[s]]
      /\ strays' = (strays \ ({t.sub} \union t.closed))
                      \union (IF Starts(t) /\ t.raced THEN {t.sub} ELSE {})
  BY <1>1 DEF Commit
<1>4. ASSUME NEW s \in Steady', s # t.sub PROVE s \in Steady \ t.closed
  BY <1>3, <1>4 DEF Steady, Live, In
<1>5. CASE ~Starts(t) \/ t.raced
  <2>1. t.sub \notin Steady'
    BY <1>2, <1>3, <1>5 DEF Steady, Live, In, FirstStatus
  <2> QED
    BY <1>2, <1>4, <2>1, LiveEnd
<1>6. CASE Starts(t) /\ ~t.raced
  <2>1. Steady \subseteq {t.sub} \union t.closed
    BY <1>2, <1>6 DEF LiveFact, Starting, Open
  <2>2. Steady' \subseteq {t.sub}
    BY <1>4, <2>1
  <2>3. /\ task'[h] = Idle
        /\ \A g \in Handler \ {h} : task'[g] = task[g]
    BY <1>2 DEF Done, Goto, Inv, TypeOK
  <2>4. ASSUME NEW g \in Handler \ {h} PROVE LiveFact(task[g])'
    <3>1. Starting(task[g]) => task[g].raced
      BY <1>2, <1>6 DEF RaceFact, Starting, Open
    <3>2. LiveFact(task[g])
      BY DEF LiveInv
    <3> QED
      BY <2>3, <3>1, <3>2 DEF LiveFact, Starting, Open, Starts
  <2>5. \A f, g \in Handler : f # g => RaceFact(task'[f], task'[g])
    BY <2>3, IdleLive DEF LiveInv
  <2>6. \A g \in Handler : LiveFact(task[g])'
    BY <2>3, <2>4, IdleLive DEF LiveFact, Starting, Open, Starts
  <2> QED
    BY <2>2, <2>5, <2>6 DEF LiveInv, RaceFact, Starting, Open, Starts
<1> QED
  BY <1>5, <1>6

\* The update of markPastDue, markCanceled and cancel: what it makes live is a stray.
LEMMA LiveSetStatus ==
    ASSUME Inv, LiveInv, NEW h \in Handler, SetStatus(h)
    PROVE  LiveInv'
<1>1. /\ LiveFact(task[h]) /\ Done(h) /\ task[h].pc = "apply"
      /\ task[h].kind \in {"pastDue", "cancel"}
  BY DEF LiveInv, SetStatus, At
<1>2. CASE task[h].kind = "cancel"
  <2>1. strays' = strays \ {task[h].sub} /\ status'[task[h].sub] \notin {"ACTIVE", "PAST_DUE"}
    BY <1>2, Current DEF SetStatus, At, TaskFact, Rows, Inv, TypeOK
  <2>2. \A s \in Sub \ {task[h].sub} : status'[s] = status[s]
    BY DEF SetStatus, Inv, TypeOK
  <2>3. Steady' \subseteq Steady
    BY <2>1, <2>2 DEF Steady, Live, In
  <2> QED
    BY <1>1, <2>3, LiveEnd
<1>3. CASE task[h].kind = "pastDue"
  <2>1. task[h].sawActive
    BY <1>1, <1>3 DEF LiveFact
  <2>2. Steady' \subseteq Steady
    BY <1>3, <2>1 DEF SetStatus, Steady, Live, In, Inv, TypeOK
  <2> QED
    BY <1>1, <2>2, LiveEnd
<1> QED
  BY <1>1, <1>2, <1>3

\* The job expires canceled plans only.
LEMMA LiveExpire ==
    ASSUME Inv, LiveInv, Expire PROVE LiveInv'
<1>1. Steady' \subseteq Steady /\ UNCHANGED task
  BY DEF Expire, Steady, Live, In
<1>2. \A h \in Handler : LiveFact(task[h])'
  BY <1>1, LiveFactStays DEF LiveInv, LiveFact, Starting, Open, Starts
<1> QED
  BY <1>1, <1>2 DEF LiveInv, RaceFact, Starting, Open, Starts

\* Every step keeps the invariant of the live plans.
LEMMA LiveStep == Inv /\ LiveInv /\ [Next]_vars => LiveInv'
<1> SUFFICES ASSUME Inv, LiveInv, [Next]_vars PROVE LiveInv'
  OBVIOUS
<1>1. CASE UNCHANGED <<status, strays, task>>
  BY <1>1 DEF LiveInv, LiveFact, RaceFact, Starting, Open, Starts, Steady, Live, In
<1>2. ASSUME NEW h \in Handler, Step(h) PROVE LiveInv'
  BY <1>2, LiveBefore, LiveTransaction, LiveCommit, LiveSetStatus DEF Step
<1>3. ASSUME NEW h \in Handler, TaskFails(h) PROVE LiveInv'
  BY <1>3, SteadyStays, LiveEnd DEF TaskFails, rowVars
<1>4. \/ UNCHANGED <<status, strays, task>> \/ Expire
      \/ \E h \in Handler :
            \/ Step(h) \/ TaskFails(h) \/ Cancel(h) \/ StartLookup(h)
            \/ \E s \in Sub : NotifyPreapproval(h, s) \/ NotifyCharge(h, s)
            \/ \E s \in Sub, p \in Plan : Subscribe(h, p, s)
  BY DEF Next, PeriodEnds, SellerPays, ProviderMoves, SetVendorStatus, vars, rowVars
<1> QED
  BY <1>1, <1>2, <1>3, <1>4, LiveExpire, LiveStarts

\* There is nothing yet.
LEMMA LiveInit == Init => LiveInv
BY IdleLive DEF Init, LiveInv, Steady, Live, In

\* Both invariants hold throughout.
LEMMA AlwaysLive == Spec => [](Inv /\ LiveInv)
BY InvInit, NextStep, LiveInit, LiveStep, PTL DEF Spec

\* A seller has one live plan at most, beside the strays, for any number of plans, checkouts
\* and requests that overlap: replacePrevious closes every other one before markActive
\* commits, unless its transaction raced another.
THEOREM OneLivePlanHolds == Spec => []OneLivePlan
<1>1. LiveInv => OneLivePlan
  <2> SUFFICES ASSUME LiveInv PROVE Cardinality(Steady) <= 1
    BY DEF OneLivePlan, Steady
  <2>1. CASE Steady = {}
    BY <2>1, FS_EmptySet
  <2>2. CASE Steady # {}
    <3>1. PICK s : Steady = {s}
      BY <2>2 DEF LiveInv
    <3>2. Cardinality({s}) = 1
      BY FS_Singleton
    <3> QED
      BY <3>1, <3>2
  <2> QED
    BY <2>1, <2>2
<1> QED
  BY <1>1, AlwaysLive, PTL

\* A canceled plan keeps its paid period, whatever overlaps: the only update that can take
\* it away is a markPastDue that had found the row ACTIVE.
THEOREM CanceledKeepsAccess == Spec => KeepsAccess
<1> DEFINE Keeps == \A s \in Sub :
              status[s] = "CANCELED" /\ period[s] = "running" /\ ~PastDueUnderWay(s)
                  => status'[s] \in {"CANCELED", "ACTIVE"}
<1>1. Inv /\ LiveInv /\ [Next]_vars => [Keeps]_vars
  <2> SUFFICES ASSUME Inv, LiveInv, Next, NEW s \in Sub,
                      status[s] = "CANCELED", period[s] = "running", ~PastDueUnderWay(s)
               PROVE  status'[s] \in {"CANCELED", "ACTIVE"}
    BY DEF Keeps
  <2>1. CASE UNCHANGED status
    BY <2>1
  <2>2. ASSUME NEW h \in Handler, Commit(h) PROVE status'[s] \in {"CANCELED", "ACTIVE"}
    <3>1. /\ s \notin task[h].drop
          /\ s = task[h].sub => Starts(task[h])
      BY <2>2, Current DEF TaskFact, Commit, At, Open, Starts
    <3> QED
      BY <2>2, <3>1 DEF Commit, FirstStatus
  <2>3. ASSUME NEW h \in Handler, SetStatus(h) PROVE status'[s] \in {"CANCELED", "ACTIVE"}
    <3>1. LiveFact(task[h])
      BY DEF LiveInv
    <3>2. task[h].kind = "pastDue" => task[h].sub # s
      BY <2>3, <3>1 DEF SetStatus, At, LiveFact, PastDueUnderWay
    <3> QED
      BY <2>3, <3>2 DEF SetStatus, Inv, TypeOK
  <2>4. CASE Expire
    BY <2>4 DEF Expire
  <2>5. ASSUME NEW h \in Handler, Step(h), ~Commit(h), ~SetStatus(h) PROVE UNCHANGED status
    BY <2>5 DEF Step, CreatePreapproval, BeginInsert, CancelAtGateway, BeginActivate,
               CancelOther, CloseOther, LookupAnswers, Dispatch, rowVars
  <2>6. \/ UNCHANGED status \/ Expire \/ \E h \in Handler : Step(h)
    BY DEF Next, Cancel, StartLookup, TaskFails, NotifyPreapproval, NotifyCharge, Subscribe,
           PeriodEnds, SellerPays, ProviderMoves, SetVendorStatus, rowVars
  <2> QED
    BY <2>1, <2>2, <2>3, <2>4, <2>5, <2>6
<1> QED
  BY <1>1, AlwaysLive, PTL DEF Spec, KeepsAccess

=============================================================================
