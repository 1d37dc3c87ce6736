--------------------------- MODULE Subscriptions ---------------------------
(***************************************************************************)
(* The plans of one seller: SubscriptionsService, the subscription events  *)
(* of the webhooks, the subscription job, and Mercado Pago's preapprovals. *)
(* Every query of the service is about one seller, so one is enough.       *)
(*                                                                         *)
(* A subscription is one row and one preapproval; Sub names both.  Dates   *)
(* are abstracted to whether the paid period is running or over; an event  *)
(* of an authorized preapproval has its next payment date.                 *)
(***************************************************************************)
EXTENDS Integers, FiniteSets

CONSTANTS
    Sub,           \* subscriptions: rows, and their preapprovals at the provider
    Plan,
    Instant,       \* plans that start at once: free ones, and all with the mock gateway
    Handler,       \* HTTP requests, webhooks and job runs served at the same time
    None,          \* SQL NULL
    AdminSets,     \* bound: what admins set the seller's status to
    Lapsing,       \* bound: subscriptions whose paid period ends
    MaxStored      \* bound: different preapproval events that are stored, but for overlaps

ASSUME SubscriptionsAssumption ==
    /\ IsFiniteSet(Sub)
    /\ Instant \subseteq Plan
    /\ None \notin Sub \union Plan
    /\ AdminSets \subseteq {"PENDING", "ACTIVE", "SUSPENDED"}
    /\ MaxStored \in Nat

VARIABLES
    status,      \* Subscription.status; "NONE" before the row exists, "GONE" once deleted
    planOf,      \* Subscription.planId
    createdAt,   \* rank of Subscription.createdAt
    period,      \* currentPeriodEnd: NULL, in the future, or in the past
    vendor,      \* Vendor.status
    prov,        \* status of the preapproval
    accepted,    \* preapprovals the seller has accepted and given a card for
    stored,      \* WebhookEvent rows
    task,        \* what each request is doing
    strays       \* live rows that started while another did, or that came back canceled

rowVars == <<status, planOf, createdAt, period, strays>>
provVars == <<prov, accepted>>
vars == <<rowVars, vendor, provVars, stored, task>>

Rows == {s \in Sub : status[s] \notin {"NONE", "GONE"}}
In(statuses) == {s \in Sub : status[s] \in statuses}
Live == In({"ACTIVE", "PAST_DUE"})
VendorStatus == {"PENDING", "ACTIVE", "SUSPENDED"}

EventId == Sub \X {"authorized", "paused", "cancelled"}

Task == [pc : {"idle", "create", "insert", "cancelCall", "lookup", "event", "apply", "replace", "close"},
         kind : {"none", "subscribe", "activate", "pastDue", "cancel"},
         id : EventId \union {None}, sub : Sub \union {None}, plan : Plan \union {None},
         drop : SUBSET Sub, others : SUBSET Sub,
         other : Sub \union {None}, closed : SUBSET Sub, raced : BOOLEAN, sawActive : BOOLEAN]
Idle == [pc |-> "idle", kind |-> "none", id |-> None, sub |-> None, plan |-> None,
         drop |-> {}, others |-> {}, other |-> None, closed |-> {}, raced |-> FALSE,
         sawActive |-> FALSE]

\* A row has a plan, and no dates before it has started.
TypeOK ==
    /\ status \in [Sub -> {"NONE", "PENDING", "ACTIVE", "PAST_DUE", "CANCELED", "EXPIRED", "GONE"}]
    /\ planOf \in [Sub -> Plan \union {None}]
    /\ createdAt \in [Sub -> Nat]
    /\ period \in [Sub -> {"none", "running", "over"}]
    /\ vendor \in VendorStatus
    /\ prov \in [Sub -> {"none", "pending", "authorized", "paused", "cancelled"}]
    /\ accepted \subseteq Sub
    /\ stored \subseteq EventId
    /\ task \in [Handler -> Task]
    /\ strays \subseteq Sub
    /\ \A s \in Rows : planOf[s] \in Plan
    /\ \A s \in Sub : status[s] = "PENDING" => period[s] = "none"

Init ==
    /\ status = [s \in Sub |-> "NONE"]
    /\ planOf = [s \in Sub |-> None]
    /\ createdAt = [s \in Sub |-> 0]
    /\ period = [s \in Sub |-> "none"]
    /\ vendor = "PENDING"
    /\ prov = [s \in Sub |-> "none"]
    /\ accepted = {}
    /\ stored = {}
    /\ task = [h \in Handler |-> Idle]
    /\ strays = {}

-----------------------------------------------------------------------------

Goto(h, t) == task' = [task EXCEPT ![h] = t]
Done(h) == Goto(h, Idle)
IsIdle(h) == task[h] = Idle
At(h, pc) == task[h].pc = pc

\* orderBy createdAt desc, the first row if there is one.
Newest(S) == {s \in S : \A t \in S : createdAt[t] <= createdAt[s]}

\* ACTIVE entitles, CANCELED until the paid period ends.
Entitles(s) == status[s] = "ACTIVE" \/ (status[s] = "CANCELED" /\ period[s] = "running")
Entitling == {s \in Sub : Entitles(s)}

NeverLocked(s) == FALSE                            \* mutant: the transactions do not wait
\* Rows an open transaction has written, which another one waits for.
Locked(s) ==
    \E h \in Handler :
        /\ task[h].pc \in {"replace", "close"}
        /\ s \in {task[h].sub} \union task[h].drop \union task[h].closed

\* Errors of cancelSubscription are logged and swallowed; local plans are not at the provider.
CallCancel(s) ==
    IF prov[s] = "none" THEN UNCHANGED prov
    ELSE prov' \in {prov, [prov EXCEPT ![s] = "cancelled"]}

-----------------------------------------------------------------------------
(* The seller.                                                             *)

Fresh(s) == status[s] = "NONE" /\ prov[s] = "none" /\ \A h \in Handler : task[h].sub # s

AlreadyOn(p) == \E s \in Newest(Entitling) : status[s] = "ACTIVE" /\ planOf[s] = p

Subscribe(h, p, s) ==
    /\ IsIdle(h)
    /\ vendor # "SUSPENDED"
    /\ ~AlreadyOn(p)
    /\ Fresh(s)
    /\ Goto(h, [Idle EXCEPT !.pc = IF p \in Instant THEN "insert" ELSE "create",
                            !.kind = "subscribe", !.sub = s, !.plan = p])
    /\ UNCHANGED <<rowVars, vendor, provVars, stored>>

\* createSubscription; the seller gets the payment link when the request is answered.
CreatePreapproval(h) ==
    /\ At(h, "create")
    /\ prov' = [prov EXCEPT ![task[h].sub] = "pending"]
    /\ Goto(h, [task[h] EXCEPT !.pc = "insert"])
    /\ UNCHANGED <<rowVars, vendor, accepted, stored>>

NotPastDue(s) == In({"ACTIVE"}) \ {s}              \* mutant: PAST_DUE ones are left
\* The other live plans, read by the transaction that makes s ACTIVE.
ToReplace(s) == Live \ {s}

Starts(t) == t.kind = "activate" \/ t.plan \in Instant

\* It makes a plan ACTIVE, and so does an open transaction.
Races(t) ==
    Starts(t) /\ \E h \in Handler : task[h].pc \in {"replace", "close"} /\ Starts(task[h])

\* The transaction of subscribe deletes the abandoned checkouts.
BeginInsert(h) ==
    /\ At(h, "insert")
    /\ \A s \in In({"PENDING"}) : ~Locked(s)
    /\ Goto(h, [task[h] EXCEPT
                   !.pc = "replace", !.drop = In({"PENDING"}), !.raced = Races(task[h]),
                   !.others = IF task[h].plan \in Instant THEN ToReplace(task[h].sub) ELSE {}])
    /\ UNCHANGED <<rowVars, vendor, provVars, stored>>

Cancel(h) ==
    /\ IsIdle(h)
    /\ \E s \in Newest(Entitling) :
          /\ status[s] = "ACTIVE"
          /\ Goto(h, [Idle EXCEPT !.pc = "cancelCall", !.kind = "cancel", !.sub = s])
    /\ UNCHANGED <<rowVars, vendor, provVars, stored>>

CancelAtGateway(h) ==
    /\ At(h, "cancelCall")
    /\ CallCancel(task[h].sub)
    /\ Goto(h, [task[h] EXCEPT !.pc = "apply"])
    /\ UNCHANGED <<rowVars, vendor, accepted, stored>>

-----------------------------------------------------------------------------
(* Making a plan ACTIVE.                                                   *)

\* markActive's transaction updates its row first; update throws if it was deleted.
BeginActivate(h) ==
    LET s == task[h].sub
    IN  /\ At(h, "apply")
        /\ task[h].kind = "activate"
        /\ ~Locked(s)
        /\ IF s \in Rows
           THEN Goto(h, [task[h] EXCEPT !.pc = "replace", !.raced = Races(task[h]),
                                        !.others = ToReplace(s)])
           ELSE Done(h)
        /\ UNCHANGED <<rowVars, vendor, provVars, stored>>

\* replacePrevious, for each of the others: the provider ...
CancelOther(h) ==
    /\ At(h, "replace")
    /\ \E s \in task[h].others :
          /\ CallCancel(s)
          /\ Goto(h, [task[h] EXCEPT !.pc = "close", !.other = s])
    /\ UNCHANGED <<rowVars, vendor, accepted, stored>>

\* ... and the row, which is CANCELED with its period over when this commits.
CloseOther(h) ==
    LET s == task[h].other
    IN  /\ At(h, "close")
        /\ ~Locked(s)
        /\ Goto(h, [task[h] EXCEPT !.pc = "replace", !.other = None,
                                   !.others = @ \ {s}, !.closed = @ \union {s}])
        /\ UNCHANGED <<rowVars, vendor, provVars, stored>>

FirstStatus(t) == IF Starts(t) THEN "ACTIVE" ELSE "PENDING"

PeriodFromTheStart(t) == "running"                 \* mutant: a PENDING plan has dates
FirstPeriod(t) == IF Starts(t) THEN "running" ELSE "none"

Commit(h) ==
    LET t == task[h]
    IN  /\ At(h, "replace")
        /\ t.others = {}
        /\ status' = [s \in Sub |->
                IF s = t.sub THEN FirstStatus(t)
                ELSE IF s \in t.drop THEN "GONE"
                ELSE IF s \in t.closed THEN "CANCELED" ELSE status[s]]
        /\ period' = [s \in Sub |-> IF s = t.sub THEN FirstPeriod(t)
                                    ELSE IF s \in t.closed THEN "over" ELSE period[s]]
        /\ IF t.kind = "subscribe"
           THEN /\ planOf' = [planOf EXCEPT ![t.sub] = t.plan]
                /\ createdAt' = [createdAt EXCEPT ![t.sub] = 1 + Cardinality(Sub \ In({"NONE"}))]
           ELSE UNCHANGED <<planOf, createdAt>>
        /\ vendor' = IF Starts(t) /\ vendor = "PENDING" THEN "ACTIVE" ELSE vendor
        /\ strays' = (strays \ ({t.sub} \union t.closed))
                        \union (IF Starts(t) /\ t.raced THEN {t.sub} ELSE {})
        /\ Done(h)
        /\ UNCHANGED <<provVars, stored>>

-----------------------------------------------------------------------------
(* What the provider says.                                                 *)

\* mutant: a preapproval counts as paid from the start.
EventPendingIsPaid(state) ==
    CASE state \in {"pending", "authorized"} -> "activate"
      [] state = "paused"     -> "pastDue"
      [] state = "cancelled"  -> "cancel"
      [] OTHER                -> "none"

\* preapprovalEvent: the state of the preapproval when it is fetched.
EventOf(state) ==
    CASE state = "authorized" -> "activate"
      [] state = "paused"     -> "pastDue"
      [] state = "cancelled"  -> "cancel"
      [] OTHER                -> "none"

Event(kind, id, s) == [Idle EXCEPT !.pc = "event", !.kind = kind, !.id = id, !.sub = s]

\* A subscription_preapproval notification, repeated or late as the provider likes.
NotifyPreapproval(h, s) ==
    /\ IsIdle(h)
    /\ prov[s] \notin {"none", "pending"}
    /\ <<s, prov[s]>> \in stored \/ Cardinality(stored) < MaxStored
    /\ Goto(h, Event(EventOf(prov[s]), <<s, prov[s]>>, s))
    /\ UNCHANGED <<rowVars, vendor, provVars, stored>>

\* A subscription_authorized_payment one: authorizedPaymentEvent.  A preapproval is
\* charged any number of times once it is accepted; every payment is an event of its own.
NotifyCharge(h, s) ==
    /\ IsIdle(h)
    /\ s \in accepted
    /\ \E kind \in {"activate", "pastDue"} : Goto(h, Event(kind, None, s))
    /\ UNCHANGED <<rowVars, vendor, provVars, stored>>

\* mutant: only the page's view, which shows no pending plan beside a current one.
StartLookupIfNone(h) ==
    /\ IsIdle(h)
    /\ Entitling = {}
    /\ \E s \in Newest(In({"PENDING"})) : Goto(h, [Idle EXCEPT !.pc = "lookup", !.sub = s])
    /\ UNCHANGED <<rowVars, vendor, provVars, stored>>

\* reconcilePending, from the seller's page and from the hourly job.
StartLookup(h) ==
    /\ IsIdle(h)
    /\ \E s \in Newest(In({"PENDING"})) : Goto(h, [Idle EXCEPT !.pc = "lookup", !.sub = s])
    /\ UNCHANGED <<rowVars, vendor, provVars, stored>>

LookupAnswers(h) ==
    LET kind == EventOf(prov[task[h].sub])
    IN  /\ At(h, "lookup")
        /\ IF kind \in {"activate", "cancel"}
           THEN Goto(h, Event(kind, None, task[h].sub)) ELSE Done(h)
        /\ UNCHANGED <<rowVars, vendor, provVars, stored>>

\* mutant: markPastDue does not look.
PastDueAny(kind) ==
    CASE kind \in {"activate", "pastDue"} -> Rows
      [] kind = "cancel"   -> In({"ACTIVE", "PAST_DUE", "PENDING"})
      [] OTHER             -> {}

\* markActive takes any row; markPastDue and markCanceled look at its status first.
AppliesTo(kind) ==
    CASE kind = "activate" -> Rows
      [] kind = "pastDue"  -> In({"ACTIVE"})
      [] kind = "cancel"   -> In({"ACTIVE", "PAST_DUE", "PENDING"})
      [] OTHER             -> {}

\* An event is stored unless it is a duplicate, and its row is read.
Dispatch(h) ==
    LET t == task[h]
    IN  /\ At(h, "event")
        /\ stored' = stored \union ({t.id} \ {None})
        /\ IF t.id \in stored \/ t.sub \notin AppliesTo(t.kind) THEN Done(h)
           ELSE Goto(h, [t EXCEPT !.pc = "apply", !.id = None,
                                  !.sawActive = t.kind = "pastDue" /\ status[t.sub] = "ACTIVE"])
        /\ UNCHANGED <<rowVars, vendor, provVars>>

\* The update of markPastDue, markCanceled and cancel: by id, whatever the status is now.
SetStatus(h) ==
    LET s == task[h].sub
    IN  /\ At(h, "apply")
        /\ task[h].kind \in {"pastDue", "cancel"}
        /\ ~Locked(s)
        /\ status' = [status EXCEPT ![s] =
                         IF s \notin Rows THEN @
                         ELSE IF task[h].kind = "cancel" THEN "CANCELED" ELSE "PAST_DUE"]
        /\ strays' = IF task[h].kind = "cancel" THEN strays \ {s}
                     ELSE IF task[h].sawActive /\ s \notin Live THEN strays \union {s}
                     ELSE strays
        /\ Done(h)
        /\ UNCHANGED <<planOf, createdAt, period, vendor, provVars, stored>>

\* expireLapsedSubscriptions.
Expire ==
    LET lapsed == {s \in In({"CANCELED"}) : period[s] = "over"}
    IN  /\ lapsed # {}
        /\ \A s \in lapsed : ~Locked(s)
        /\ status' = [s \in Sub |-> IF s \in lapsed THEN "EXPIRED" ELSE status[s]]
        /\ UNCHANGED <<planOf, createdAt, period, strays, vendor, provVars, stored, task>>

\* An error rolls back; a crash does, too.
TaskFails(h) ==
    /\ ~IsIdle(h)
    /\ Done(h)
    /\ UNCHANGED <<rowVars, vendor, provVars, stored>>

-----------------------------------------------------------------------------
(* Outside: the provider, the calendar and the admin.                      *)

PeriodEnds(s) ==
    /\ s \in Lapsing
    /\ period[s] = "running"
    /\ period' = [period EXCEPT ![s] = "over"]
    /\ UNCHANGED <<status, planOf, createdAt, strays, vendor, provVars, stored, task>>

\* The seller pays, on the provider's page, with any link ever given.
SellerPays(s) ==
    /\ status[s] # "NONE"
    /\ prov[s] = "pending"
    /\ prov' = [prov EXCEPT ![s] = "authorized"]
    /\ accepted' = accepted \union {s}
    /\ UNCHANGED <<rowVars, vendor, stored, task>>

\* Payments fail and recover, and the seller or the provider cancels.
ProviderMoves(s) ==
    /\ \/ prov[s] = "authorized" /\ prov' = [prov EXCEPT ![s] = "paused"]
       \/ prov[s] = "paused" /\ prov' = [prov EXCEPT ![s] = "authorized"]
       \/ prov[s] \in {"pending", "authorized", "paused"} /\ prov' = [prov EXCEPT ![s] = "cancelled"]
    /\ UNCHANGED <<rowVars, vendor, accepted, stored, task>>

\* setStatus of VendorsService.
SetVendorStatus ==
    /\ vendor' \in AdminSets
    /\ UNCHANGED <<rowVars, provVars, stored, task>>

\* What a request does after it has started.
Step(h) ==
    \/ CreatePreapproval(h) \/ BeginInsert(h) \/ CancelAtGateway(h) \/ BeginActivate(h)
    \/ CancelOther(h) \/ CloseOther(h) \/ Commit(h) \/ LookupAnswers(h) \/ Dispatch(h)
    \/ SetStatus(h)

Next ==
    \/ \E h \in Handler : Step(h) \/ Cancel(h) \/ StartLookup(h) \/ TaskFails(h)
    \/ \E h \in Handler, s \in Sub : NotifyPreapproval(h, s) \/ NotifyCharge(h, s)
    \/ \E h \in Handler, s \in Sub, p \in Plan : Subscribe(h, p, s)
    \/ \E s \in Sub : PeriodEnds(s) \/ SellerPays(s) \/ ProviderMoves(s)
    \/ Expire \/ SetVendorStatus

Spec == Init /\ [][Next]_vars

\* Requests that have started finish, the job asks about pending plans every hour, and
\* errors and crashes come to an end.
JobSpec ==
    /\ Spec
    /\ \A h \in Handler : WF_vars(Step(h)) /\ SF_vars(StartLookup(h))
    /\ <>[][\A h \in Handler : ~TaskFails(h)]_vars

-----------------------------------------------------------------------------
(* Safety and liveness.                                                    *)

\* Nobody sells on a paid plan nobody ever paid, whatever is late, lost or overlaps.
NobodySellsUnpaid == \A s \in Entitling : planOf[s] \in Instant \/ s \in accepted

\* A plan that has started is not deleted, although abandoned checkouts are, and one of
\* them may be starting at this moment.
StartedPlanStays ==
    [][\A s \in Sub :
          status[s] \in {"ACTIVE", "PAST_DUE", "CANCELED", "EXPIRED"} => status'[s] # "GONE"]_vars

\* A seller has one live plan at most: switching closes the previous one, through late and
\* repeated events, errors and failed calls to the provider.  Beside it there may be strays,
\* until a switch or a cancellation closes them: plans whose transaction read the others while
\* another plan was starting, and canceled ones that markPastDue had read ACTIVE before.
OneLivePlan == Cardinality(Live \ strays) <= 1

\* A past-due update that found its row ACTIVE and has yet to be written.
PastDueUnderWay(s) ==
    \E h \in Handler : At(h, "apply") /\ task[h].sawActive /\ task[h].sub = s

\* A canceled plan entitles until its paid period ends: what the provider still reports of
\* it cannot take that away, unless it was looked up before the cancellation was written.
KeepsAccess ==
    [][\A s \in Sub :
          status[s] = "CANCELED" /\ period[s] = "running" /\ ~PastDueUnderWay(s)
              => status'[s] \in {"CANCELED", "ACTIVE"}]_vars

\* A plan that was paid leaves PENDING although its notification is lost.
PaidPlanStarts ==
    \A s \in Sub : (status[s] = "PENDING" /\ prov[s] = "authorized")
                       ~> (status[s] # "PENDING" \/ prov[s] # "authorized")

=============================================================================
