--------------------------- MODULE SessionsProofs ---------------------------
(***************************************************************************)
(* A password change ends the user's sessions, a session has one valid     *)
(* token and one more for each overlap, a browser keeps its session, and a *)
(* reset link works once but for the requests that overlap, for any number *)
(* of tokens, browsers, tabs, requests and links.                          *)
(***************************************************************************)
EXTENDS Sessions, FiniteSetTheorems, TLAPS

Issued == {t \in Token : session[t] # None}

\* A session has the name of a token that has been issued.
NamesIssued ==
    /\ \A t \in Issued : session[t] \in Issued
    /\ ended \subseteq Issued

\* What a rotation whose token has been accepted carries on.
CarriedOn == \A q \in Serving : Presented(q) \in ended => Presented(q) \in escaped

SessionsInv == SessionsTypeOK /\ NamesIssued /\ CarriedOn /\ EndedUnlessUnderWay

\* The part of the type invariant that is about requests.
RequestsTyped ==
    /\ refresh \in [Request -> RefreshRequest]
    /\ \A q \in Request : refresh[q] # NoRequest =>
            /\ refresh[q].pc # "none" /\ IsIssued(refresh[q].token)
            /\ refresh[q].pc = "answered" => IsIssued(refresh[q].issued)
            /\ refresh[q].pc \in {"answered", "refused"} => refresh[q].from # None

\* The part that is about what browsers store.
StoredTyped ==
    /\ stored \in [Browser -> Token \union {None}]
    /\ \A b \in Browser : stored[b] # None => IsIssued(stored[b])

Pages == {"home", "login", "clear", "hash", "changed"}

-----------------------------------------------------------------------------
\* How a step moves a request.

Becomes(q, pc, t, n, w) ==
    /\ refresh' \in [Request -> RefreshRequest]
    /\ refresh'[q] = [pc |-> pc, token |-> t, issued |-> n, from |-> w]
    /\ \A p \in Request : p # q => refresh'[p] = refresh[p]

Leaves(q) == Becomes(q, "none", None, None, None)

LEMMA RequestFields ==
    ASSUME SessionsTypeOK, NEW q \in Request, refresh[q].pc # "none"
    PROVE  /\ refresh[q] # NoRequest
           /\ refresh[q].token \in Issued
           /\ refresh[q].issued \in Token \union {None}
           /\ refresh[q].from \in Tab \union {None}
           /\ refresh[q].pc = "answered" => refresh[q].issued \in Issued /\ refresh[q].from \in Tab
           /\ refresh[q].pc = "refused" => refresh[q].from \in Tab
BY DEF SessionsTypeOK, RefreshRequest, NoRequest, IsIssued, Issued

LEMMA HeldToken ==
    ASSUME SessionsTypeOK, NEW w \in Tab, Held(w) # None
    PROVE  Held(w) \in Issued /\ BrowserOf[w] \in Browser
BY SessionsAssumption DEF SessionsTypeOK, Held, IsIssued, Issued

LEMMA StartFacts ==
    ASSUME SessionsTypeOK, NEW w \in Tab, NEW q \in Request, StartRotation(w, q)
    PROVE  /\ Becomes(q, "sent", Held(w), None, w)
           /\ refresh[q] = NoRequest
           /\ Held(w) \in Issued
<1>1. Held(w) \in Issued /\ Held(w) \in Token
  BY HeldToken DEF StartRotation, Issued
<1>2. [pc |-> "sent", token |-> Held(w), issued |-> None, from |-> w] \in RefreshRequest
  BY <1>1 DEF RefreshRequest
<1> QED
  BY <1>1, <1>2 DEF StartRotation, Becomes, SessionsTypeOK

LEMMA NoRequestTyped == NoRequest \in RefreshRequest
BY DEF NoRequest, RefreshRequest

\* A request that nobody waits for leaves nothing behind.
LEMMA AnswersFacts ==
    ASSUME SessionsTypeOK, NEW q \in Request, NEW pc \in {"answered", "refused"},
           NEW n \in Token \union {None}, refresh[q].pc # "none", Answers(q, pc, n)
    PROVE  \/ refresh[q].from \in Tab /\ Becomes(q, pc, refresh[q].token, n, refresh[q].from)
           \/ refresh[q].from = None /\ Leaves(q)
<1>1. refresh[q] \in RefreshRequest /\ refresh[q].from \in Tab \union {None}
  BY RequestFields DEF SessionsTypeOK
<1>2. CASE refresh[q].from = None
  <2>1. refresh' = [refresh EXCEPT ![q] = NoRequest]
    BY <1>2 DEF Answers
  <2> QED
    BY <1>2, <2>1, NoRequestTyped DEF Leaves, Becomes, NoRequest, SessionsTypeOK
<1>3. CASE refresh[q].from # None
  <2> DEFINE r == [pc |-> pc, token |-> refresh[q].token, issued |-> n, from |-> refresh[q].from]
  <2>1. r \in RefreshRequest
    BY <1>1 DEF RefreshRequest
  <2>2. refresh' = [refresh EXCEPT ![q] = r]
    BY <1>3 DEF Answers
  <2> QED
    BY <1>1, <1>3, <2>1, <2>2 DEF Becomes, SessionsTypeOK
<1> QED
  BY <1>2, <1>3

LEMMA CheckFacts ==
    ASSUME SessionsTypeOK, NEW q \in Request, CheckToken(q)
    PROVE  LET t == refresh[q].token IN
           /\ refresh[q].pc = "sent"
           /\ \/ /\ t \in live
                 /\ Becomes(q, "found", t, refresh[q].issued, refresh[q].from)
                 /\ overlaps' = [overlaps EXCEPT ![session[t]] = @ + IF Claimed(t) THEN 1 ELSE 0]
              \/ /\ refresh[q].from \in Tab
                 /\ Becomes(q, "refused", t, None, refresh[q].from)
                 /\ overlaps' = overlaps
              \/ /\ refresh[q].from = None /\ Leaves(q)
                 /\ overlaps' = overlaps
<1> DEFINE t == refresh[q].token
<1>1. refresh[q].pc = "sent" /\ refresh[q] \in RefreshRequest
  BY DEF CheckToken, SessionsTypeOK
<1>2. CASE /\ t \in live
           /\ refresh' = [refresh EXCEPT ![q].pc = "found"]
           /\ overlaps' = [overlaps EXCEPT ![session[t]] = @ + IF Claimed(t) THEN 1 ELSE 0]
  <2> DEFINE r == [pc |-> "found", token |-> t, issued |-> refresh[q].issued,
                   from |-> refresh[q].from]
  <2>1. r \in RefreshRequest /\ [refresh[q] EXCEPT !.pc = "found"] = r
    BY <1>1 DEF RefreshRequest
  <2>2. refresh' = [refresh EXCEPT ![q] = r]
    BY <1>2, <2>1
  <2>3. Becomes(q, "found", t, refresh[q].issued, refresh[q].from)
    BY <2>1, <2>2 DEF Becomes, SessionsTypeOK
  <2> QED
    BY <1>1, <1>2, <2>3
<1>3. CASE Answers(q, "refused", None) /\ overlaps' = overlaps
  BY <1>1, <1>3, AnswersFacts
<1> QED
  BY <1>2, <1>3 DEF CheckToken

LEMMA CheckUserFacts ==
    ASSUME SessionsTypeOK, NEW q \in Request, CheckUser(q)
    PROVE  LET t == refresh[q].token IN
           /\ refresh[q].pc = "found"
           /\ \/ Becomes(q, "checked", t, refresh[q].issued, refresh[q].from)
              \/ refresh[q].from \in Tab /\ Becomes(q, "refused", t, None, refresh[q].from)
              \/ refresh[q].from = None /\ Leaves(q)
<1> DEFINE t == refresh[q].token
<1>1. refresh[q].pc = "found" /\ refresh[q] \in RefreshRequest
  BY DEF CheckUser, SessionsTypeOK
<1>2. CASE refresh' = [refresh EXCEPT ![q].pc = "checked"]
  <2> DEFINE r == [pc |-> "checked", token |-> t, issued |-> refresh[q].issued,
                   from |-> refresh[q].from]
  <2>1. r \in RefreshRequest /\ [refresh[q] EXCEPT !.pc = "checked"] = r
    BY <1>1 DEF RefreshRequest
  <2>2. refresh' = [refresh EXCEPT ![q] = r]
    BY <1>2, <2>1
  <2> QED
    BY <1>1, <2>1, <2>2 DEF Becomes, SessionsTypeOK
<1>3. CASE Answers(q, "refused", None)
  BY <1>1, <1>3, AnswersFacts
<1> QED
  BY <1>2, <1>3 DEF CheckUser

LEMMA RevokeFacts ==
    ASSUME SessionsTypeOK, NEW q \in Request, RevokeToken(q)
    PROVE  /\ refresh[q].pc = "checked"
           /\ Becomes(q, "rotated", refresh[q].token, refresh[q].issued, refresh[q].from)
           /\ live' = live \ {refresh[q].token}
<1> DEFINE r == [pc |-> "rotated", token |-> refresh[q].token, issued |-> refresh[q].issued,
                 from |-> refresh[q].from]
<1>1. refresh[q] \in RefreshRequest
  BY DEF SessionsTypeOK
<1>2. r \in RefreshRequest /\ [refresh[q] EXCEPT !.pc = "rotated"] = r
  BY <1>1 DEF RefreshRequest
<1>3. refresh' = [refresh EXCEPT ![q] = r]
  BY <1>2 DEF RevokeToken
<1> QED
  BY <1>2, <1>3 DEF RevokeToken, WithoutToken, Becomes, SessionsTypeOK

LEMMA EndsFacts ==
    ASSUME SessionsTypeOK, NEW q \in Request, Ends(q)
    PROVE  Leaves(q)
BY NoRequestTyped DEF Ends, Leaves, Becomes, NoRequest, SessionsTypeOK

\* The answer is lost, and the request goes on where it has not been answered.
LEMMA LoseFacts ==
    ASSUME SessionsTypeOK, NEW q \in Request, LoseAnswer(q)
    PROVE  /\ refresh[q].pc # "none" /\ refresh[q].from \in Tab
           /\ \/ Leaves(q) /\ refresh[q].pc \in {"answered", "refused"}
              \/ /\ refresh[q].pc \in {"sent", "found", "checked", "rotated"}
                 /\ Becomes(q, refresh[q].pc, refresh[q].token, refresh[q].issued, None)
<1>1. refresh[q] \in RefreshRequest /\ refresh[q].from # None /\ refresh[q] # NoRequest
  BY DEF LoseAnswer, SessionsTypeOK, NoRequest
<1>2. refresh[q].pc # "none" /\ refresh[q].from \in Tab
  BY <1>1 DEF SessionsTypeOK, RefreshRequest
<1>3. CASE refresh[q].pc \in {"answered", "refused"}
  <2>1. refresh' = [refresh EXCEPT ![q] = NoRequest]
    BY <1>3 DEF LoseAnswer
  <2> QED
    BY <1>2, <1>3, <2>1, NoRequestTyped DEF Leaves, Becomes, NoRequest, SessionsTypeOK
<1>4. CASE refresh[q].pc \notin {"answered", "refused"}
  <2> DEFINE r == [pc |-> refresh[q].pc, token |-> refresh[q].token,
                   issued |-> refresh[q].issued, from |-> None]
  <2>1. r \in RefreshRequest /\ [refresh[q] EXCEPT !.from = None] = r
    BY <1>1 DEF RefreshRequest
  <2>2. refresh' = [refresh EXCEPT ![q] = r]
    BY <1>4, <2>1 DEF LoseAnswer
  <2>3. refresh[q].pc \in {"sent", "found", "checked", "rotated"}
    BY <1>1, <1>2, <1>4 DEF RefreshRequest
  <2> QED
    BY <1>2, <2>1, <2>2, <2>3 DEF Becomes, SessionsTypeOK
<1> QED
  BY <1>3, <1>4

-----------------------------------------------------------------------------
\* Types.

LEMMA BecomesTyped ==
    ASSUME SessionsTypeOK, NEW q \in Request, NEW pc, NEW t, NEW n, NEW w,
           Becomes(q, pc, t, n, w), pc # "none",
           t # None, session'[t] # None,
           pc = "answered" => n # None /\ session'[n] # None,
           pc \in {"answered", "refused"} => w # None,
           \A u \in Issued : session'[u] # None
    PROVE  RequestsTyped'
<1> SUFFICES ASSUME NEW p \in Request, refresh'[p] # NoRequest
             PROVE  /\ refresh'[p].pc # "none"
                    /\ refresh'[p].token # None /\ session'[refresh'[p].token] # None
                    /\ refresh'[p].pc = "answered" =>
                            refresh'[p].issued # None /\ session'[refresh'[p].issued] # None
                    /\ refresh'[p].pc \in {"answered", "refused"} => refresh'[p].from # None
  BY DEF RequestsTyped, Becomes, IsIssued
<1>1. CASE p = q
  BY <1>1 DEF Becomes
<1>2. CASE p # q
  <2>1. refresh'[p] = refresh[p] /\ refresh[p].pc # "none"
    BY <1>2 DEF Becomes, SessionsTypeOK
  <2>2. refresh[p].token \in Issued /\ (refresh[p].pc = "answered" => refresh[p].issued \in Issued)
    BY <2>1, RequestFields
  <2> QED
    BY <2>1, <2>2, SessionsAssumption DEF SessionsTypeOK, IsIssued, Issued
<1> QED
  BY <1>1, <1>2

LEMMA LeavesTyped ==
    ASSUME SessionsTypeOK, NEW q \in Request, Leaves(q), \A u \in Issued : session'[u] # None
    PROVE  RequestsTyped'
<1> SUFFICES ASSUME NEW p \in Request, refresh'[p] # NoRequest
             PROVE  /\ refresh'[p].pc # "none"
                    /\ refresh'[p].token # None /\ session'[refresh'[p].token] # None
                    /\ refresh'[p].pc = "answered" =>
                            refresh'[p].issued # None /\ session'[refresh'[p].issued] # None
                    /\ refresh'[p].pc \in {"answered", "refused"} => refresh'[p].from # None
  BY DEF RequestsTyped, Leaves, Becomes, IsIssued
<1>1. refresh'[p] = refresh[p] /\ refresh[p].pc # "none"
  BY DEF Leaves, Becomes, NoRequest, SessionsTypeOK
<1>2. refresh[p].token \in Issued /\ (refresh[p].pc = "answered" => refresh[p].issued \in Issued)
  BY <1>1, RequestFields
<1> QED
  BY <1>1, <1>2, SessionsAssumption DEF SessionsTypeOK, IsIssued, Issued

\* Requests that stay as they are keep tokens that stay issued.
LEMMA SameTyped ==
    ASSUME SessionsTypeOK, refresh' = refresh, \A u \in Issued : session'[u] # None
    PROVE  RequestsTyped'
<1> SUFFICES ASSUME NEW p \in Request, refresh[p] # NoRequest
             PROVE  /\ session'[refresh[p].token] # None
                    /\ refresh[p].pc = "answered" => session'[refresh[p].issued] # None
  BY DEF RequestsTyped, SessionsTypeOK, IsIssued
<1>1. refresh[p].pc # "none"
  BY DEF SessionsTypeOK
<1> QED
  BY <1>1, RequestFields

\* What a browser stores is a token that was issued.
LEMMA KeepsTyped ==
    ASSUME SessionsTypeOK, NEW w \in Tab, NEW t \in Token \union {None},
           Keeps(w, t) \/ stored' = stored,
           \A u \in Issued : session'[u] # None, t # None => session'[t] # None
    PROVE  StoredTyped'
<1>1. BrowserOf[w] \in Browser
  BY SessionsAssumption
<1>2. \A b \in Browser : stored[b] # None => stored[b] \in Issued
  BY DEF SessionsTypeOK, IsIssued, Issued
<1> QED
  BY <1>1, <1>2 DEF Keeps, SessionsTypeOK, StoredTyped, IsIssued

LEMMA StoredAlone ==
    ASSUME SessionsTypeOK, stored' = stored, \A u \in Issued : session'[u] # None
    PROVE  StoredTyped'
BY DEF SessionsTypeOK, StoredTyped, IsIssued, Issued

\* issueTokens keeps the rows well-formed, and names the session.
LEMMA IssuesFacts ==
    ASSUME SessionsTypeOK, NamesIssued, NEW n \in Token, NEW s \in Token, Issues(n, s),
           s \in Issued \/ s = n
    PROVE  /\ session' \in [Token -> Token \union {None}]
           /\ session'[n] = s /\ n \notin Issued
           /\ \A u \in Token : u # n => session'[u] = session[u]
           /\ \A u \in Issued : session'[u] = session[u] /\ session'[u] # None
           /\ live' = live \union {n}
           /\ live' \subseteq {t \in Token : session'[t] # None}
           /\ Issued' = Issued \union {n}
BY SessionsAssumption DEF SessionsTypeOK, Issues, Issued, NamesIssued

LEMMA InitSessions == SessionsInit => SessionsInv
<1> SUFFICES ASSUME SessionsInit PROVE SessionsInv
  OBVIOUS
<1>1. SessionsTypeOK
  <2>1. \A q \in Request : refresh[q] = NoRequest
    BY DEF SessionsInit
  <2>2. /\ refresh \in [Request -> RefreshRequest]
        /\ version \in 0 .. MaxIncidents /\ losses \in 0 .. MaxIncidents
        /\ uses \in [0 .. MaxIncidents -> Nat] /\ rivals \in [0 .. MaxIncidents -> Nat]
        /\ reset \in [Link -> 0 .. MaxIncidents \union {None}]
        /\ visit \in [Tab -> Pages]
        /\ overlaps \in [Token -> Nat]
    BY NoRequestTyped, SessionsAssumption DEF SessionsInit, Pages
  <2> QED
    BY <2>1, <2>2 DEF SessionsInit, SessionsTypeOK, Pages
<1>2. NamesIssued /\ CarriedOn /\ EndedUnlessUnderWay
  BY DEF SessionsInit, NamesIssued, CarriedOn, EndedUnlessUnderWay, Issued, Serving, NoRequest
<1> QED
  BY <1>1, <1>2 DEF SessionsInv

-----------------------------------------------------------------------------
\* Rotations.

\* A request that leaves the rows and the ended sessions alone, or revokes.
LEMMA RequestKeeps ==
    ASSUME SessionsInv, SessionsTypeOK', NEW q \in Request, NEW pc, NEW t, NEW n, NEW w,
           Becomes(q, pc, t, n, w), live' \subseteq live, UNCHANGED <<session, ended, escaped>>,
           pc \in {"found", "checked"} => t \in live \/ (q \in Serving /\ t = refresh[q].token),
           pc = "rotated" => q \in Serving /\ t = refresh[q].token
    PROVE  SessionsInv'
<1> USE DEF SessionsInv
<1>1. NamesIssued' /\ EndedUnlessUnderWay'
  BY DEF NamesIssued, EndedUnlessUnderWay, Issued
<1>2. ASSUME NEW p \in Request, refresh'[p].pc \in {"found", "checked", "rotated"},
             session[refresh'[p].token] \in ended
      PROVE  session[refresh'[p].token] \in escaped
  <2>1. CASE p = q
    <3>1. refresh'[p].token = t /\ pc \in {"found", "checked", "rotated"}
      BY <1>2, <2>1 DEF Becomes
    <3> QED
      BY <1>2, <3>1 DEF CarriedOn, EndedUnlessUnderWay, Presented
  <2>2. CASE p # q
    BY <1>2, <2>2 DEF Becomes, CarriedOn, Serving, Presented
  <2> QED
    BY <2>1, <2>2
<1>3. CarriedOn'
  BY <1>2 DEF CarriedOn, Serving, Presented
<1> QED
  BY <1>1, <1>3

LEMMA StepRequest ==
    ASSUME SessionsInv, NEW q \in Request,
           \/ \E w \in Tab : StartRotation(w, q)
           \/ CheckToken(q) \/ CheckUser(q) \/ RevokeToken(q)
           \/ StoreRotated(q) \/ ClearRefused(q) \/ LoseAnswer(q) \/ ServerStops(q)
    PROVE  SessionsInv'
<1> USE DEF SessionsInv
<1>0. /\ \A u \in Issued : session[u] # None /\ u # None /\ u \in Token
      /\ session' = session
  BY SessionsAssumption
     DEF Issued, StartRotation, CheckToken, CheckUser, RevokeToken, StoreRotated, ClearRefused,
         LoseAnswer, ServerStops, rows
<1>1. ASSUME NEW w \in Tab, StartRotation(w, q) PROVE SessionsInv'
  <2>1. Becomes(q, "sent", Held(w), None, w) /\ Held(w) \in Issued
    BY <1>1, StartFacts
  <2>2. RequestsTyped'
    BY <1>0, <2>1, BecomesTyped
  <2>3. SessionsTypeOK'
    BY <1>1, <2>2 DEF StartRotation, rows, history, user, links, SessionsTypeOK, RequestsTyped, IsIssued
  <2> QED
    BY <1>1, <2>1, <2>3, RequestKeeps DEF StartRotation, rows, history
<1>2. CASE CheckToken(q)
  <2> DEFINE t == refresh[q].token
  <2>1. t \in Issued /\ refresh[q].pc = "sent"
    BY <1>2, RequestFields DEF CheckToken
  <2>2. overlaps' \in [Token -> Nat]
    <3>1. overlaps \in [Token -> Nat]
      BY DEF SessionsTypeOK
    <3>2. overlaps' = overlaps \/ \E d \in {0, 1} : overlaps' = [overlaps EXCEPT ![session[t]] = @ + d]
      BY <1>2 DEF CheckToken
    <3> QED
      BY <3>1, <3>2
  <2>3. PICK pc \in {"found", "refused", "none"} :
            \/ pc = "found" /\ t \in live /\ Becomes(q, pc, t, refresh[q].issued, refresh[q].from)
            \/ pc = "refused" /\ refresh[q].from \in Tab /\ Becomes(q, pc, t, None, refresh[q].from)
            \/ pc = "none" /\ Leaves(q)
    BY <1>2, CheckFacts
  <2>4. RequestsTyped'
    BY <1>0, <2>1, <2>3, BecomesTyped, LeavesTyped, SessionsAssumption
  <2>5. SessionsTypeOK'
    BY <1>2, <2>2, <2>4 DEF CheckToken, rows, history, user, links, SessionsTypeOK, RequestsTyped, IsIssued
  <2> QED
    BY <1>2, <2>3, <2>5, RequestKeeps DEF CheckToken, rows, Leaves
<1>3. CASE RevokeToken(q)
  <2>1. /\ refresh[q].pc = "checked" /\ refresh[q].token \in Issued
        /\ Becomes(q, "rotated", refresh[q].token, refresh[q].issued, refresh[q].from)
        /\ live' = live \ {refresh[q].token}
    BY <1>3, RevokeFacts, RequestFields
  <2>2. RequestsTyped'
    BY <1>0, <2>1, BecomesTyped
  <2>3. SessionsTypeOK'
    BY <1>3, <2>1, <2>2 DEF RevokeToken, history, user, links, SessionsTypeOK, RequestsTyped, IsIssued
  <2> QED
    BY <1>3, <2>1, <2>3, RequestKeeps DEF RevokeToken, history, Serving
<1>4. CASE StoreRotated(q) \/ ClearRefused(q)
  <2>1. /\ refresh[q].from \in Tab
        /\ \/ Keeps(refresh[q].from, None)
           \/ refresh[q].issued \in Issued /\ Keeps(refresh[q].from, refresh[q].issued)
    BY <1>4, RequestFields DEF StoreRotated, ClearRefused
  <2>2. Leaves(q)
    BY <1>4, EndsFacts DEF StoreRotated, ClearRefused
  <2>3. RequestsTyped'
    BY <1>0, <2>2, LeavesTyped
  <2>4. StoredTyped'
    BY <1>0, <2>1, KeepsTyped
  <2>5. SessionsTypeOK'
    BY <1>4, <2>3, <2>4 DEF StoreRotated, ClearRefused, rows, history, user, links, SessionsTypeOK,
                            RequestsTyped, StoredTyped, IsIssued
  <2> QED
    BY <1>4, <2>2, <2>5, RequestKeeps DEF StoreRotated, ClearRefused, rows, history, Leaves
<1>5. CASE LoseAnswer(q)
  <2>1. /\ refresh[q].from \in Tab /\ refresh[q].token \in Issued
        /\ \/ Leaves(q)
           \/ /\ refresh[q].pc \in {"sent", "found", "checked", "rotated"}
              /\ Becomes(q, refresh[q].pc, refresh[q].token, refresh[q].issued, None)
    BY <1>5, LoseFacts, RequestFields
  <2>2. RequestsTyped'
    BY <1>0, <2>1, BecomesTyped, LeavesTyped
  <2>3. StoredTyped'
    BY <1>0, <1>5, <2>1, KeepsTyped DEF LoseAnswer
  <2>4. losses' \in 0 .. MaxIncidents /\ cut' \subseteq Token
    BY <1>0, <1>5, <2>1, SessionsAssumption DEF LoseAnswer, MoreIncidents, SessionsTypeOK
  <2>5. SessionsTypeOK'
    BY <1>5, <2>2, <2>3, <2>4 DEF LoseAnswer, rows, user, links, SessionsTypeOK,
                                  RequestsTyped, StoredTyped, IsIssued
  <2> QED
    BY <1>5, <2>1, <2>5, RequestKeeps DEF LoseAnswer, rows, Leaves, Serving
<1>6. CASE ServerStops(q)
  <2>1. Leaves(q)
    BY <1>6, EndsFacts DEF ServerStops
  <2>2. RequestsTyped'
    BY <1>0, <2>1, LeavesTyped
  <2>3. SessionsTypeOK'
    BY <1>6, <2>2 DEF ServerStops, rows, history, user, links, SessionsTypeOK, RequestsTyped, IsIssued
  <2> QED
    BY <1>6, <2>1, <2>3, RequestKeeps DEF ServerStops, rows, history, Leaves
<1>7. CASE CheckUser(q)
  <2> DEFINE t == refresh[q].token
  <2>1. t \in Issued /\ q \in Serving
    BY <1>7, RequestFields DEF CheckUser, Serving
  <2>2. PICK pc \in {"checked", "refused", "none"} :
            \/ pc = "checked" /\ Becomes(q, pc, t, refresh[q].issued, refresh[q].from)
            \/ pc = "refused" /\ refresh[q].from \in Tab /\ Becomes(q, pc, t, None, refresh[q].from)
            \/ pc = "none" /\ Leaves(q)
    BY <1>7, CheckUserFacts
  <2>3. RequestsTyped'
    BY <1>0, <2>1, <2>2, BecomesTyped, LeavesTyped, SessionsAssumption
  <2>4. SessionsTypeOK'
    BY <1>7, <2>3 DEF CheckUser, rows, history, user, links, SessionsTypeOK, RequestsTyped, IsIssued
  <2> QED
    BY <1>7, <2>1, <2>2, <2>4, RequestKeeps DEF CheckUser, rows, history, Leaves
<1> QED
  BY <1>1, <1>2, <1>3, <1>4, <1>5, <1>6, <1>7

\* The session of a new token is one that goes on, or nobody has ended it.
LEMMA StepIssueRotated ==
    ASSUME SessionsInv, NEW q \in Request, NEW n \in Token, IssueRotated(q, n)
    PROVE  SessionsInv'
<1> USE DEF SessionsInv
<1> DEFINE tok == refresh[q].token
           s == session[tok]
<1>1. /\ refresh[q].pc = "rotated" /\ tok \in Issued /\ tok # n /\ s \in Issued /\ s \in Token
  BY RequestFields DEF IssueRotated, Issues, NamesIssued, Issued
<1>2. /\ session' \in [Token -> Token \union {None}]
      /\ session'[n] = s /\ n \notin Issued
      /\ \A u \in Token : u # n => session'[u] = session[u]
      /\ \A u \in Issued : session'[u] = session[u] /\ session'[u] # None
      /\ live' = live \union {n}
      /\ live' \subseteq {t \in Token : session'[t] # None}
      /\ Issued' = Issued \union {n}
  <2> HIDE DEF s
  <2>1. Issues(n, s)
    BY DEF IssueRotated, Presented, s
  <2> QED
    BY <1>1, <2>1, IssuesFacts
<1>3. session'[n] # None /\ n # None
  <2> HIDE DEF s
  <2> QED
    BY <1>1, <1>2, SessionsAssumption
<1>4. \/ refresh[q].from \in Tab /\ Becomes(q, "answered", tok, n, refresh[q].from)
      \/ Leaves(q)
  BY <1>1, AnswersFacts DEF IssueRotated
<1>5. UNCHANGED <<ended, escaped, stored>>
  BY DEF IssueRotated, history
<1>6. RequestsTyped'
  <2>1. tok # None /\ session'[tok] # None
    BY <1>1, <1>2, SessionsAssumption DEF Issued
  <2> HIDE DEF s, tok
  <2> QED
    BY <1>2, <1>3, <1>4, <2>1, SessionsAssumption, BecomesTyped, LeavesTyped
<1>7. StoredTyped'
  BY <1>2, <1>5, StoredAlone
<1>8. SessionsTypeOK'
  BY <1>2, <1>6, <1>7 DEF IssueRotated, history, user, links, SessionsTypeOK, RequestsTyped,
                          StoredTyped, IsIssued
<1>9. CarriedOn'
  <2> SUFFICES ASSUME NEW p \in Request, refresh'[p].pc \in {"found", "checked", "rotated"},
                      session'[refresh'[p].token] \in ended
               PROVE  session'[refresh'[p].token] \in escaped
    BY <1>5 DEF CarriedOn, Serving, Presented
  <2>1. p # q /\ refresh'[p] = refresh[p]
    BY <1>4 DEF Leaves, Becomes
  <2>2. refresh[p].token \in Issued
    BY <2>1, RequestFields
  <2> QED
    BY <1>2, <2>1, <2>2 DEF CarriedOn, Serving, Presented
<1>10. EndedUnlessUnderWay'
  <2>1. s \in ended => s \in escaped
    BY <1>1 DEF CarriedOn, Serving, Presented
  <2> QED
    BY <1>2, <1>5, <2>1 DEF EndedUnlessUnderWay, SessionsTypeOK, Issued
<1>11. NamesIssued'
  BY <1>1, <1>2, <1>5 DEF NamesIssued
<1> QED
  BY <1>8, <1>9, <1>10, <1>11

LEMMA StepSignIn ==
    ASSUME SessionsInv, NEW w \in Tab, NEW n \in Token, Login(w, n) \/ IssueChanged(w, n)
    PROVE  SessionsInv'
<1> USE DEF SessionsInv
<1>1. /\ session' \in [Token -> Token \union {None}]
      /\ session'[n] = n /\ n \notin Issued
      /\ \A u \in Token : u # n => session'[u] = session[u]
      /\ \A u \in Issued : session'[u] = session[u] /\ session'[u] # None
      /\ live' = live \union {n}
      /\ live' \subseteq {t \in Token : session'[t] # None}
      /\ Issued' = Issued \union {n}
  BY IssuesFacts DEF Login, IssueChanged
<1>2. UNCHANGED <<ended, escaped, refresh>>
  BY DEF Login, IssueChanged, history
<1>3. StoredTyped'
  BY <1>1, KeepsTyped, SessionsAssumption DEF Login, IssueChanged, Receives
<1>4. RequestsTyped'
  BY <1>1, <1>2, SameTyped
<1>5. visit' \in [Tab -> Pages]
  BY DEF Login, IssueChanged, Visits, SessionsTypeOK, Pages
<1>6. SessionsTypeOK'
  BY <1>1, <1>3, <1>4, <1>5 DEF Login, IssueChanged, SessionsTypeOK, history, user, links, Pages,
                                RequestsTyped, StoredTyped, IsIssued
<1>7. n \notin ended
  BY <1>1 DEF NamesIssued
<1>8. CarriedOn'
  <2> SUFFICES ASSUME NEW p \in Request, refresh[p].pc \in {"found", "checked", "rotated"},
                      session'[refresh[p].token] \in ended
               PROVE  session'[refresh[p].token] \in escaped
    BY <1>2 DEF CarriedOn, Serving, Presented
  <2> QED
    BY <1>1, RequestFields DEF CarriedOn, Serving, Presented
<1>9. EndedUnlessUnderWay'
  BY <1>1, <1>2, <1>7 DEF EndedUnlessUnderWay, SessionsTypeOK, Issued
<1>10. NamesIssued'
  BY <1>1, <1>2 DEF NamesIssued
<1> QED
  BY <1>6, <1>8, <1>9, <1>10

-----------------------------------------------------------------------------
\* Signing in and out, passwords, blocks.

LEMMA StepPage ==
    ASSUME SessionsInv, NEW w \in Tab,
           CheckLogin(w) \/ Logout(w) \/ ClearTokens(w) \/ DropTokens(w) \/ CheckPassword(w)
    PROVE  SessionsInv'
<1> USE DEF SessionsInv
<1>1. UNCHANGED <<session, ended, escaped, refresh>> /\ live' \subseteq live
  BY DEF CheckLogin, Logout, ClearTokens, DropTokens, CheckPassword, rows, history
<1>2. visit' \in [Tab -> Pages]
  BY DEF CheckLogin, Logout, ClearTokens, DropTokens, CheckPassword, Visits, SessionsTypeOK, Pages
<1>3. StoredTyped'
  BY <1>1, KeepsTyped DEF CheckLogin, Logout, ClearTokens, DropTokens, CheckPassword, Issued
<1>4. losses' \in 0 .. MaxIncidents /\ cut' \subseteq Token /\ overlaps' = overlaps
  <2>1. CASE Logout(w)
    <3>1. losses' = losses \/ (losses' = losses + 1 /\ version + losses < MaxIncidents)
      BY <2>1 DEF Logout, MoreIncidents
    <3>2. losses \in 0 .. MaxIncidents /\ version \in 0 .. MaxIncidents
      BY DEF SessionsTypeOK
    <3>3. losses' \in 0 .. MaxIncidents
      BY <3>1, <3>2, SessionsAssumption
    <3>4. Held(w) \in Token
      BY <2>1, HeldToken DEF Logout, Issued
    <3>5. cut' \subseteq Token /\ overlaps' = overlaps
      BY <2>1, <3>4 DEF Logout, SessionsTypeOK
    <3> QED
      BY <3>3, <3>5
  <2>2. CASE CheckLogin(w) \/ ClearTokens(w) \/ DropTokens(w) \/ CheckPassword(w)
    <3>1. UNCHANGED history
      BY <2>2 DEF CheckLogin, ClearTokens, DropTokens, CheckPassword
    <3> QED
      BY <3>1 DEF history, SessionsTypeOK
  <2> QED
    BY <2>1, <2>2
<1>5. SessionsTypeOK'
  BY <1>1, <1>2, <1>3, <1>4
     DEF CheckLogin, Logout, ClearTokens, DropTokens, CheckPassword, SessionsTypeOK, StoredTyped, IsIssued,
         rows, user, links, Pages
<1>6. NamesIssued' /\ CarriedOn' /\ EndedUnlessUnderWay'
  BY <1>1 DEF NamesIssued, CarriedOn, EndedUnlessUnderWay, Issued, Serving, Presented
<1> QED
  BY <1>5, <1>6

\* Nothing survives but what rotations under way carry on.
LEMMA RevokesAllKeeps ==
    ASSUME SessionsInv, RevokesAll, refresh' = refresh
    PROVE  /\ live' = {} /\ session' = session
           /\ escaped' \subseteq ended' /\ ended' \subseteq Token
           /\ NamesIssued' /\ CarriedOn' /\ EndedUnlessUnderWay'
<1> USE DEF SessionsInv
<1>1. Sessions \subseteq Issued
  BY DEF Sessions, NamesIssued, Issued
<1>2. {Presented(q) : q \in Serving} \subseteq Sessions
  BY RequestFields DEF Serving, Presented, Sessions, Issued
<1>3. /\ live' = {} /\ session' = session /\ ended' = ended \union Sessions
      /\ escaped' = escaped \union {Presented(q) : q \in Serving}
  BY DEF RevokesAll, Unrevoked
<1>4. escaped' \subseteq ended' /\ ended' \subseteq Token
  BY <1>1, <1>2, <1>3 DEF SessionsTypeOK, Issued
<1>5. NamesIssued'
  BY <1>1, <1>3 DEF NamesIssued, Issued
<1>6. CarriedOn'
  BY <1>3 DEF CarriedOn, Serving, Presented
<1> QED
  BY <1>3, <1>4, <1>5, <1>6 DEF EndedUnlessUnderWay

\* Requests that have compared the link with password v.
Waiting(v) == {r \in Link : reset[r] = v}

LEMMA WaitingFinite ==
    ASSUME NEW S \in SUBSET Link
    PROVE  IsFiniteSet(S) /\ Cardinality(S) \in Nat
BY SessionsAssumption, FS_Subset, FS_CardinalityType

LEMMA SetPasswordFacts ==
    ASSUME SessionsTypeOK, SetPassword
    PROVE  /\ version \in 0 .. MaxIncidents /\ version' = version + 1
           /\ version' \in 0 .. MaxIncidents
           /\ rivals' = [rivals EXCEPT ![version] = Cardinality(Waiting(version))]
           /\ rivals' \in [0 .. MaxIncidents -> Nat]
           /\ RevokesAll
<1>1. Cardinality(Waiting(version)) \in Nat
  BY WaitingFinite DEF Waiting
<1> QED
  BY <1>1, SessionsAssumption DEF SetPassword, MoreIncidents, SessionsTypeOK, Waiting

LEMMA StepPassword ==
    ASSUME SessionsInv,
           \/ \E w \in Tab : ChangePassword(w)
           \/ \E r \in Link : ResetPassword(r) \/ \E v \in 0 .. MaxIncidents : CheckLink(r, v)
    PROVE  SessionsInv'
<1> USE DEF SessionsInv
<1>1. ASSUME NEW w \in Tab, ChangePassword(w) PROVE SessionsInv'
  <2>1. RevokesAll /\ refresh' = refresh
    BY <1>1 DEF ChangePassword, SetPassword
  <2>2. visit' \in [Tab -> Pages]
    BY <1>1 DEF ChangePassword, Visits, SessionsTypeOK, Pages
  <2>3. SessionsTypeOK'
    BY <1>1, <2>1, <2>2, SetPasswordFacts, RevokesAllKeeps
       DEF ChangePassword, RevokesAll, SessionsTypeOK, IsIssued, Pages
  <2> QED
    BY <2>1, <2>3, RevokesAllKeeps
<1>2. ASSUME NEW r \in Link, ResetPassword(r) PROVE SessionsInv'
  <2>1. RevokesAll /\ refresh' = refresh
    BY <1>2 DEF ResetPassword, SetPassword
  <2>2. reset[r] \in 0 .. MaxIncidents
    BY <1>2 DEF ResetPassword, SessionsTypeOK
  <2>3. /\ uses' \in [0 .. MaxIncidents -> Nat]
        /\ reset' \in [Link -> 0 .. MaxIncidents \union {None}]
    BY <1>2, <2>2 DEF ResetPassword, SessionsTypeOK
  <2>4. SessionsTypeOK'
    BY <1>2, <2>1, <2>3, SetPasswordFacts, RevokesAllKeeps
       DEF ResetPassword, RevokesAll, SessionsTypeOK, IsIssued
  <2> QED
    BY <2>1, <2>4, RevokesAllKeeps
<1>3. ASSUME NEW r \in Link, NEW v \in 0 .. MaxIncidents, CheckLink(r, v) PROVE SessionsInv'
  <2>1. reset' \in [Link -> 0 .. MaxIncidents \union {None}]
    BY <1>3 DEF CheckLink, SessionsTypeOK
  <2> QED
    BY <1>3, <2>1 DEF CheckLink, rows, history, user, SessionsTypeOK, IsIssued, NamesIssued,
                      CarriedOn, EndedUnlessUnderWay, Issued, Serving, Presented
<1> QED
  BY <1>1, <1>2, <1>3

LEMMA StepAdmin ==
    ASSUME SessionsInv, Block \/ RevokeBlocked \/ Unblock \/ GiveUp
    PROVE  SessionsInv'
<1> USE DEF SessionsInv
<1>1. CASE Block \/ Unblock
  BY <1>1 DEF Block, Unblock, rows, history, links, SessionsTypeOK, IsIssued, NamesIssued,
              CarriedOn, EndedUnlessUnderWay, Issued, Serving, Presented
<1>2. CASE RevokeBlocked
  <2>1. RevokesAll /\ refresh' = refresh
    BY <1>2 DEF RevokeBlocked
  <2>2. SessionsTypeOK'
    BY <1>2, <2>1, RevokesAllKeeps DEF RevokeBlocked, RevokesAll, links, SessionsTypeOK, IsIssued
  <2> QED
    BY <2>1, <2>2, RevokesAllKeeps
<1>3. CASE GiveUp
  <2>1. /\ visit' \in [Tab -> Pages]
        /\ reset' \in [Link -> 0 .. MaxIncidents \union {None}]
    BY <1>3 DEF GiveUp, Visits, SessionsTypeOK, Pages
  <2> QED
    BY <1>3, <2>1 DEF GiveUp, rows, history, user, Pages, SessionsTypeOK, IsIssued, NamesIssued,
                      CarriedOn, EndedUnlessUnderWay, Issued, Serving, Presented
<1> QED
  BY <1>1, <1>2, <1>3

LEMMA StepSessions ==
    ASSUME SessionsInv, [SessionsNext]_sessionsVars
    PROVE  SessionsInv'
<1>1. ASSUME NEW q \in Request,
             RefreshHandler(q) \/ StoreRotated(q) \/ ClearRefused(q) \/ LoseAnswer(q)
      PROVE  SessionsInv'
  BY <1>1, StepRequest, StepIssueRotated DEF RefreshHandler
<1>2. ASSUME NEW w \in Tab, Page(w) PROVE SessionsInv'
  <2>1. CASE \E q \in Request : StartRotation(w, q)
    BY <2>1, StepRequest
  <2>2. CASE \E n \in Token : Login(w, n) \/ IssueChanged(w, n)
    BY <2>2, StepSignIn
  <2>3. CASE CheckLogin(w) \/ Logout(w) \/ ClearTokens(w) \/ DropTokens(w) \/ CheckPassword(w)
    BY <2>3, StepPage
  <2>4. CASE ChangePassword(w)
    BY <2>4, StepPassword
  <2> QED
    BY <1>2, <2>1, <2>2, <2>3, <2>4 DEF Page
<1>3. CASE \E r \in Link : ResetPassword(r) \/ \E v \in 0 .. MaxIncidents : CheckLink(r, v)
  BY <1>3, StepPassword
<1>4. CASE Block \/ RevokeBlocked \/ Unblock \/ GiveUp
  BY <1>4, StepAdmin
<1>5. CASE UNCHANGED sessionsVars
  BY <1>5 DEF sessionsVars, SessionsInv, SessionsTypeOK, IsIssued, NamesIssued, CarriedOn,
              EndedUnlessUnderWay, Issued, Serving, Presented
<1> QED
  BY <1>1, <1>2, <1>3, <1>4, <1>5 DEF SessionsNext

LEMMA Inductive == SessionsSpec => []SessionsInv
BY InitSessions, StepSessions, PTL DEF SessionsSpec

\* Tokens that are valid, stored or presented have been issued.
THEOREM SessionsTypeCorrect == SessionsSpec => []SessionsTypeOK
<1>1. SessionsInv => SessionsTypeOK
  BY DEF SessionsInv
<1> QED
  BY <1>1, Inductive, PTL

\* A password change, a reset or a block ends every session but those that a
\* rotation under way carries on, and for good.
THEOREM SessionsEnd == SessionsSpec => []EndedUnlessUnderWay
<1>1. SessionsInv => EndedUnlessUnderWay
  BY DEF SessionsInv
<1> QED
  BY <1>1, Inductive, PTL

-----------------------------------------------------------------------------
\* Links.

\* A request that has checked its link against an earlier password is one of
\* those that had when that password changed.
LinksCounted ==
    /\ \A r \in Link : reset[r] # None => reset[r] <= version
    /\ \A v \in 0 .. MaxIncidents :
        /\ v >= version => uses[v] = 0
        /\ v < version => uses[v] + Cardinality(Waiting(v)) <= rivals[v]

\* Steps that leave the password alone, and check a link at most.
LEMMA LinksAlone ==
    ASSUME SessionsTypeOK, LinksCounted, UNCHANGED <<version, uses, rivals>>,
           \A r \in Link : reset'[r] \in {reset[r], None, version}
    PROVE  LinksCounted'
<1>0. version \in Nat /\ version <= version
  BY DEF SessionsTypeOK
<1>1. \A r \in Link : reset'[r] # None => reset'[r] <= version
  BY <1>0 DEF LinksCounted
<1>2. ASSUME NEW v \in 0 .. MaxIncidents, v < version
      PROVE  uses[v] + Cardinality(Waiting(v)') <= rivals[v]
  <2>0. v # None /\ v # version
    BY <1>0, <1>2, SessionsAssumption
  <2>1. Waiting(v)' \subseteq Waiting(v) /\ Waiting(v) \in SUBSET Link /\ Waiting(v)' \in SUBSET Link
    BY <2>0 DEF Waiting
  <2>2. Cardinality(Waiting(v)') <= Cardinality(Waiting(v))
    BY <2>1, WaitingFinite, FS_Subset
  <2>3. Cardinality(Waiting(v)') \in Nat /\ Cardinality(Waiting(v)) \in Nat
    BY <2>1, WaitingFinite
  <2>4. uses[v] \in Nat /\ rivals[v] \in Nat /\ uses[v] + Cardinality(Waiting(v)) <= rivals[v]
    BY <1>2 DEF SessionsTypeOK, LinksCounted
  <2> QED
    BY <2>2, <2>3, <2>4
<1> QED
  BY <1>1, <1>2 DEF LinksCounted

\* The password changes: of the links that were good until then the requests
\* that have checked one remain, without the one that has used its own.
LEMMA LinksChange ==
    ASSUME SessionsTypeOK, LinksCounted, SetPassword,
           \/ \E r \in Link : ResetPassword(r)
           \/ UNCHANGED <<uses, reset>>
    PROVE  LinksCounted'
<1>1. /\ version \in Nat /\ version' = version + 1
      /\ rivals' = [rivals EXCEPT ![version] = Cardinality(Waiting(version))]
      /\ \A v \in 0 .. MaxIncidents : uses[v] \in Nat /\ rivals[v] \in Nat
      /\ rivals \in [0 .. MaxIncidents -> Nat]
  BY SetPasswordFacts DEF SessionsTypeOK
<1>2. \A v \in 0 .. MaxIncidents : Waiting(v) \in SUBSET Link /\ Cardinality(Waiting(v)) \in Nat
  BY WaitingFinite DEF Waiting
<1>3. ASSUME NEW v \in 0 .. MaxIncidents
      PROVE  /\ v > version => rivals'[v] = rivals[v] /\ uses[v] = 0
             /\ v = version => rivals'[v] = Cardinality(Waiting(v)) /\ uses[v] = 0
             /\ v < version => rivals'[v] >= uses[v] + Cardinality(Waiting(v))
  BY <1>1, <1>3 DEF LinksCounted
<1>4. CASE \E r \in Link : ResetPassword(r)
  <2>1. PICK r \in Link : ResetPassword(r)
    BY <1>4
  <2>2. /\ reset[r] \in 0 .. MaxIncidents /\ reset[r] <= version
        /\ uses' = [uses EXCEPT ![reset[r]] = @ + 1]
        /\ reset'[r] = None /\ \A q \in Link : q # r => reset'[q] = reset[q]
    BY <2>1 DEF ResetPassword, SessionsTypeOK, LinksCounted
  <2>3. \A q \in Link : reset'[q] # None => reset'[q] <= version'
    BY <1>1, <2>2 DEF LinksCounted, SessionsTypeOK
  <2>4. ASSUME NEW v \in 0 .. MaxIncidents
        PROVE  /\ v >= version' => uses'[v] = 0
               /\ v < version' => uses'[v] + Cardinality(Waiting(v)') <= rivals'[v]
    <3>1. CASE v = reset[r]
      <4>1. Waiting(v)' = Waiting(v) \ {r} /\ r \in Waiting(v)
        BY <2>2, <3>1, SessionsAssumption DEF Waiting
      <4>2. Cardinality(Waiting(v)') = Cardinality(Waiting(v)) - 1
        BY <1>2, <4>1, WaitingFinite, FS_RemoveElement
      <4>3. uses'[v] = uses[v] + 1
        BY <2>2, <3>1 DEF SessionsTypeOK
      <4> QED
        BY <1>1, <1>2, <1>3, <2>2, <3>1, <4>2, <4>3
    <3>2. CASE v # reset[r]
      <4>1. Waiting(v)' = Waiting(v)
        BY <2>2, <3>2, SessionsAssumption DEF Waiting
      <4>2. uses'[v] = uses[v]
        BY <2>2, <3>2 DEF SessionsTypeOK
      <4> QED
        BY <1>1, <1>2, <1>3, <4>1, <4>2
    <3> QED
      BY <3>1, <3>2
  <2> QED
    BY <2>3, <2>4 DEF LinksCounted
<1>5. CASE UNCHANGED <<uses, reset>>
  <2>1. \A v \in 0 .. MaxIncidents : Waiting(v)' = Waiting(v)
    BY <1>5 DEF Waiting
  <2>2. \A r \in Link : reset'[r] # None => reset'[r] <= version'
    BY <1>1, <1>5 DEF LinksCounted, SessionsTypeOK
  <2>3. ASSUME NEW v \in 0 .. MaxIncidents
        PROVE  /\ v >= version' => uses'[v] = 0
               /\ v < version' => uses'[v] + Cardinality(Waiting(v)') <= rivals'[v]
    BY <1>1, <1>2, <1>3, <1>5, <2>1
  <2> QED
    BY <2>2, <2>3 DEF LinksCounted
<1> QED
  BY <1>4, <1>5

LEMMA StepLinks ==
    ASSUME SessionsTypeOK, LinksCounted, [SessionsNext]_sessionsVars
    PROVE  LinksCounted'
<1>1. CASE \E r \in Link : ResetPassword(r)
  BY <1>1, LinksChange DEF ResetPassword
<1>2. CASE \E w \in Tab : ChangePassword(w)
  BY <1>2, LinksChange DEF ChangePassword
<1>3. CASE \E r \in Link : \E v \in 0 .. MaxIncidents : CheckLink(r, v)
  BY <1>3, LinksAlone DEF CheckLink, GoodLink, SessionsTypeOK, user
<1>4. CASE GiveUp
  BY <1>4, LinksAlone DEF GiveUp, SessionsTypeOK, user
<1>5. CASE UNCHANGED <<version, links>>
  BY <1>5, LinksAlone DEF links
<1> QED
  BY <1>1, <1>2, <1>3, <1>4, <1>5
     DEF SessionsNext, RefreshHandler, Page, StartRotation, CheckToken, CheckUser, RevokeToken,
         IssueRotated, StoreRotated, ClearRefused, LoseAnswer, ServerStops, CheckLogin, Logout,
         ClearTokens, DropTokens, CheckPassword, Login, IssueChanged, Block, RevokeBlocked, Unblock, user, sessionsVars,
         links

\* However many requests use links at once, no more of them change a password
\* than had checked it before it changed: without an overlap a link works once.
THEOREM LinksWorkOnce == SessionsSpec => []LinkWorksOncePerOverlap
<1>1. SessionsInit => LinksCounted
  BY SessionsAssumption DEF SessionsInit, LinksCounted
<1>2. SessionsTypeOK /\ LinksCounted => LinkWorksOncePerOverlap
  <2> SUFFICES ASSUME SessionsTypeOK, LinksCounted, NEW v \in 0 .. MaxIncidents
               PROVE  uses[v] <= rivals[v]
    BY DEF LinkWorksOncePerOverlap
  <2>1. Cardinality(Waiting(v)) \in Nat /\ rivals[v] \in Nat /\ uses[v] \in Nat
    BY WaitingFinite DEF Waiting, SessionsTypeOK
  <2>2. version \in Nat /\ v \in Nat
    BY DEF SessionsTypeOK
  <2> QED
    BY <2>1, <2>2 DEF LinksCounted
<1> QED
  BY <1>1, <1>2, SessionsTypeCorrect, StepLinks, PTL DEF SessionsSpec

-----------------------------------------------------------------------------
\* The valid tokens of a session.

\* Its tokens that nobody rotates, and the requests that have yet to issue one.
Free(s) == {t \in live : session[t] = s /\ ~ Claimed(t)}
Rotating(s) == {q \in Serving : Presented(q) = s}

\* A request takes one token and brings one, unless another has the same.
Balanced ==
    /\ IsFiniteSet(live)
    /\ \A s \in Token : Cardinality(Free(s)) + Cardinality(Rotating(s)) <= 1 + overlaps[s]

BalancedInv == SessionsInv /\ Balanced

LEMMA SetsFinite ==
    ASSUME NEW s, IsFiniteSet(live)
    PROVE  /\ IsFiniteSet(Free(s)) /\ Cardinality(Free(s)) \in Nat
           /\ IsFiniteSet(Rotating(s)) /\ Cardinality(Rotating(s)) \in Nat
<1>1. Free(s) \in SUBSET live /\ Rotating(s) \in SUBSET Request
  BY DEF Free, Rotating, Serving
<1> QED
  BY <1>1, SessionsAssumption, FS_Subset, FS_CardinalityType

\* Neither set grows.
LEMMA NoMore ==
    ASSUME NEW A, NEW B, NEW S \in SUBSET A, NEW T \in SUBSET B, IsFiniteSet(A), IsFiniteSet(B)
    PROVE  /\ Cardinality(S) + Cardinality(T) <= Cardinality(A) + Cardinality(B)
           /\ Cardinality(S) \in Nat /\ Cardinality(T) \in Nat
           /\ Cardinality(A) \in Nat /\ Cardinality(B) \in Nat
<1>1. /\ IsFiniteSet(S) /\ Cardinality(S) <= Cardinality(A)
      /\ IsFiniteSet(T) /\ Cardinality(T) <= Cardinality(B)
  BY FS_Subset
<1>2. /\ Cardinality(S) \in Nat /\ Cardinality(T) \in Nat
      /\ Cardinality(A) \in Nat /\ Cardinality(B) \in Nat
  BY <1>1, FS_CardinalityType
<1> QED
  BY <1>1, <1>2

LEMMA AddOne ==
    ASSUME NEW A, NEW x, IsFiniteSet(A)
    PROVE  /\ IsFiniteSet(A \union {x}) /\ Cardinality(A \union {x}) <= Cardinality(A) + 1
           /\ Cardinality(A) \in Nat
BY FS_AddElement, FS_CardinalityType

\* One set gives an element up, and the other gets one at most.
LEMMA Trade ==
    ASSUME NEW A, NEW B, NEW x, NEW y \in B, NEW S \in SUBSET (A \union {x}),
           NEW T \in SUBSET (B \ {y}), IsFiniteSet(A), IsFiniteSet(B)
    PROVE  /\ Cardinality(S) + Cardinality(T) <= Cardinality(A) + Cardinality(B)
           /\ Cardinality(S) \in Nat /\ Cardinality(T) \in Nat
           /\ Cardinality(A) \in Nat /\ Cardinality(B) \in Nat
<1>1. /\ IsFiniteSet(A \union {x}) /\ Cardinality(A \union {x}) <= Cardinality(A) + 1
      /\ IsFiniteSet(B \ {y}) /\ Cardinality(B \ {y}) = Cardinality(B) - 1
      /\ Cardinality(A) \in Nat /\ Cardinality(B) \in Nat
  BY FS_AddElement, FS_RemoveElement, FS_CardinalityType
<1>2. /\ Cardinality(S) + Cardinality(T) <= Cardinality(A \union {x}) + Cardinality(B \ {y})
      /\ Cardinality(S) \in Nat /\ Cardinality(T) \in Nat
      /\ Cardinality(A \union {x}) \in Nat /\ Cardinality(B \ {y}) \in Nat
  BY <1>1, NoMore
<1> QED
  BY <1>1, <1>2

\* A step after which a session has no more of both.
LEMMA SameBalance ==
    ASSUME BalancedInv, IsFiniteSet(live)', NEW s \in Token,
           Free(s)' \subseteq Free(s), Rotating(s)' \subseteq Rotating(s),
           overlaps'[s] \in Nat, overlaps'[s] >= overlaps[s]
    PROVE  Cardinality(Free(s)') + Cardinality(Rotating(s)') <= 1 + overlaps'[s]
<1> DEFINE A == Free(s)
           B == Rotating(s)
           S == Free(s)'
           T == Rotating(s)'
<1>1. IsFiniteSet(A) /\ IsFiniteSet(B) /\ S \in SUBSET A /\ T \in SUBSET B
  BY SetsFinite DEF BalancedInv, Balanced
<1>2. Cardinality(A) + Cardinality(B) <= 1 + overlaps[s] /\ overlaps[s] \in Nat
  BY DEF BalancedInv, Balanced, SessionsInv, SessionsTypeOK
<1> HIDE DEF A, B, S, T
<1>3. Cardinality(S) + Cardinality(T) <= 1 + overlaps'[s]
  BY <1>1, <1>2, NoMore
<1> QED
  BY <1>3 DEF S, T

\* A session trades one for the other.
LEMMA TradeBalance ==
    ASSUME BalancedInv, NEW s \in Token, NEW x, NEW y,
           \/ /\ Free(s)' \subseteq Free(s) \union {x}
              /\ y \in Rotating(s) /\ Rotating(s)' \subseteq Rotating(s) \ {y}
           \/ /\ Rotating(s)' \subseteq Rotating(s) \union {x}
              /\ y \in Free(s) /\ Free(s)' \subseteq Free(s) \ {y},
           overlaps'[s] \in Nat, overlaps'[s] >= overlaps[s]
    PROVE  Cardinality(Free(s)') + Cardinality(Rotating(s)') <= 1 + overlaps'[s]
<1> DEFINE A == Free(s)
           B == Rotating(s)
           S == Free(s)'
           T == Rotating(s)'
<1>1. IsFiniteSet(A) /\ IsFiniteSet(B) /\ Cardinality(A) \in Nat /\ Cardinality(B) \in Nat
  BY SetsFinite DEF BalancedInv, Balanced
<1>2. Cardinality(A) + Cardinality(B) <= 1 + overlaps[s] /\ overlaps[s] \in Nat
  BY DEF BalancedInv, Balanced, SessionsInv, SessionsTypeOK
<1>3. \/ S \subseteq A \union {x} /\ y \in B /\ T \subseteq B \ {y}
      \/ T \subseteq B \union {x} /\ y \in A /\ S \subseteq A \ {y}
  OBVIOUS
<1> HIDE DEF A, B, S, T
<1>4. CASE S \subseteq A \union {x} /\ y \in B /\ T \subseteq B \ {y}
  <2>0. S \in SUBSET (A \union {x}) /\ T \in SUBSET (B \ {y}) /\ y \in B
    BY <1>4
  <2>1. /\ Cardinality(S) + Cardinality(T) <= Cardinality(A) + Cardinality(B)
        /\ Cardinality(S) \in Nat /\ Cardinality(T) \in Nat
    BY <1>1, <2>0, Trade
  <2>2. Cardinality(S) + Cardinality(T) <= 1 + overlaps'[s]
    BY <1>1, <1>2, <2>1
  <2> QED
    BY <2>2 DEF S, T
<1>5. CASE T \subseteq B \union {x} /\ y \in A /\ S \subseteq A \ {y}
  <2>0. T \in SUBSET (B \union {x}) /\ S \in SUBSET (A \ {y}) /\ y \in A
    BY <1>5
  <2>1. /\ Cardinality(T) + Cardinality(S) <= Cardinality(B) + Cardinality(A)
        /\ Cardinality(S) \in Nat /\ Cardinality(T) \in Nat
    BY <1>1, <2>0, Trade
  <2>2. Cardinality(S) + Cardinality(T) <= 1 + overlaps'[s]
    BY <1>1, <1>2, <2>1
  <2> QED
    BY <2>2 DEF S, T
<1> QED
  BY <1>3, <1>4, <1>5

\* What a step of one request does to what is claimed and served.
LEMMA OtherRequests ==
    ASSUME SessionsTypeOK, NEW q \in Request, NEW pc, NEW t, NEW n, NEW w,
           Becomes(q, pc, t, n, w), session' = session
    PROVE  /\ pc \in {"found", "checked"} => \A u : u = t => Claimed(u)'
           /\ \A u : Claimed(u) =>
                    Claimed(u)' \/ (refresh[q].pc \in {"found", "checked"} /\ refresh[q].token = u)
           /\ \A s : Rotating(s)' \subseteq Rotating(s) \union {q}
           /\ \A s : q \in Rotating(s)' <=> pc \in {"found", "checked", "rotated"} /\ session[t] = s
<1>1. /\ refresh'[q].pc = pc /\ refresh'[q].token = t
      /\ \A p \in Request : p # q => refresh'[p] = refresh[p]
  BY DEF Becomes
<1>2. pc \in {"found", "checked"} => \A u : u = t => Claimed(u)'
  BY <1>1 DEF Claimed
<1>3. \A u : Claimed(u) =>
            Claimed(u)' \/ (refresh[q].pc \in {"found", "checked"} /\ refresh[q].token = u)
  BY <1>1 DEF Claimed
<1>4. \A s : Rotating(s)' \subseteq Rotating(s) \union {q}
  BY <1>1 DEF Rotating, Serving, Presented
<1>5. \A s : q \in Rotating(s)' <=> pc \in {"found", "checked", "rotated"} /\ session[t] = s
  BY <1>1 DEF Rotating, Serving, Presented
<1> QED
  BY <1>2, <1>3, <1>4, <1>5

\* A request that is not being served starts, waits or ends.
LEMMA UnservedBalance ==
    ASSUME BalancedInv, NEW q \in Request, NEW pc, NEW t, NEW n, NEW w,
           Becomes(q, pc, t, n, w), q \notin Serving, pc \notin {"found", "checked", "rotated"},
           UNCHANGED <<live, session, overlaps>>
    PROVE  Balanced'
<1>0. SessionsTypeOK /\ refresh[q].pc \notin {"found", "checked"}
  BY DEF BalancedInv, SessionsInv, Serving
<1>1. /\ \A u : Claimed(u) => Claimed(u)'
      /\ \A s : Rotating(s)' \subseteq Rotating(s)
  BY <1>0, OtherRequests
<1>2. \A s : Free(s)' \subseteq Free(s)
  BY <1>1 DEF Free
<1>3. IsFiniteSet(live)' /\ \A s \in Token : overlaps'[s] \in Nat /\ overlaps'[s] >= overlaps[s]
  BY DEF BalancedInv, Balanced, SessionsInv, SessionsTypeOK
<1> QED
  BY <1>1, <1>2, <1>3, SameBalance DEF Balanced

\* The server finds a token valid.
LEMMA AcceptBalance ==
    ASSUME BalancedInv, NEW q \in Request, CheckToken(q),
           refresh[q].token \in live,
           Becomes(q, "found", refresh[q].token, refresh[q].issued, refresh[q].from),
           overlaps' = [overlaps EXCEPT ![session[refresh[q].token]] =
                            @ + IF Claimed(refresh[q].token) THEN 1 ELSE 0]
    PROVE  Balanced'
<1> DEFINE t == refresh[q].token
           o == session[t]
<1>1. /\ UNCHANGED <<live, session>> /\ refresh[q].pc = "sent"
      /\ t \in Issued /\ o \in Token /\ overlaps \in [Token -> Nat]
      /\ IsFiniteSet(live) /\ SessionsTypeOK
  BY RequestFields DEF CheckToken, rows, BalancedInv, Balanced, SessionsInv, SessionsTypeOK,
                       NamesIssued, Issued
<1>2. /\ \A u : u = t \/ Claimed(u) => Claimed(u)'
      /\ \A s : Rotating(s)' \subseteq Rotating(s) \union {q}
      /\ \A s : q \in Rotating(s)' <=> o = s
  BY <1>1, OtherRequests
<1>3. ASSUME NEW s \in Token
      PROVE  Cardinality(Free(s)') + Cardinality(Rotating(s)') <= 1 + overlaps'[s]
  <2>1. CASE s # o
    <3>1. Free(s)' \subseteq Free(s) /\ Rotating(s)' \subseteq Rotating(s)
      BY <1>1, <1>2, <2>1 DEF Free
    <3>2. overlaps'[s] \in Nat /\ overlaps'[s] >= overlaps[s]
      BY <1>1, <2>1
    <3> QED
      BY <1>1, <3>1, <3>2, SameBalance
  <2>2. CASE s = o /\ ~ Claimed(t)
    <3>1. /\ Rotating(s)' \subseteq Rotating(s) \union {q}
          /\ t \in Free(s) /\ Free(s)' \subseteq Free(s) \ {t}
      BY <1>1, <1>2, <2>2 DEF Free
    <3>2. overlaps'[s] \in Nat /\ overlaps'[s] >= overlaps[s]
      BY <1>1, <2>2
    <3> QED
      BY <1>1, <3>1, <3>2, TradeBalance
  <2>3. CASE s = o /\ Claimed(t)
    <3> DEFINE A == Free(s)
               B == Rotating(s)
               S == Free(s)'
               T == Rotating(s)'
    <3>1. S \subseteq A /\ T \subseteq B \union {q}
      BY <1>1, <1>2, <2>3 DEF Free
    <3>2. overlaps'[s] = overlaps[s] + 1 /\ overlaps[s] \in Nat
      BY <1>1, <2>3
    <3>3. /\ IsFiniteSet(A) /\ IsFiniteSet(B) /\ Cardinality(A) \in Nat /\ Cardinality(B) \in Nat
          /\ Cardinality(A) + Cardinality(B) <= 1 + overlaps[s]
      BY <1>1, SetsFinite DEF BalancedInv, Balanced
    <3> HIDE DEF A, B, S, T
    <3>4. /\ IsFiniteSet(B \union {q}) /\ Cardinality(B \union {q}) <= Cardinality(B) + 1
      BY <3>3, AddOne
    <3>5. /\ Cardinality(S) + Cardinality(T) <= Cardinality(A) + Cardinality(B \union {q})
          /\ Cardinality(S) \in Nat /\ Cardinality(T) \in Nat /\ Cardinality(B \union {q}) \in Nat
      BY <3>1, <3>3, <3>4, NoMore
    <3>6. Cardinality(S) + Cardinality(T) <= 1 + overlaps'[s]
      BY <3>2, <3>3, <3>4, <3>5
    <3> QED
      BY <3>6 DEF S, T
  <2> QED
    BY <2>1, <2>2, <2>3
<1> QED
  BY <1>1, <1>3 DEF Balanced

\* The token a request presents is revoked, and what it will issue is to come.
LEMMA RevokeBalance ==
    ASSUME BalancedInv, NEW q \in Request, RevokeToken(q)
    PROVE  Balanced'
<1> DEFINE t == refresh[q].token
<1>1. /\ UNCHANGED <<session, overlaps>> /\ refresh[q].pc = "checked"
      /\ Becomes(q, "rotated", t, refresh[q].issued, refresh[q].from)
      /\ live' = live \ {t} /\ SessionsTypeOK
  BY RevokeFacts DEF RevokeToken, history, BalancedInv, SessionsInv
<1>2. /\ \A u : Claimed(u) => Claimed(u)' \/ u = t
      /\ \A s : Rotating(s)' \subseteq Rotating(s) \union {q}
      /\ \A s : q \in Rotating(s)' => session[t] = s
  BY <1>1, OtherRequests
<1>5. \A s : Rotating(s)' \subseteq Rotating(s)
  <2>1. q \in Rotating(session[t])
    BY <1>1 DEF Rotating, Serving, Presented
  <2> QED
    BY <1>2, <2>1
<1>3. \A s : Free(s)' \subseteq Free(s)
  BY <1>1, <1>2 DEF Free
<1>4. IsFiniteSet(live)'
  <2>1. IsFiniteSet(live)
    BY DEF BalancedInv, Balanced
  <2> QED
    BY <1>1, <2>1, FS_RemoveElement
<1>6. \A s \in Token : overlaps'[s] \in Nat /\ overlaps'[s] >= overlaps[s]
  BY <1>1 DEF SessionsTypeOK
<1> QED
  BY <1>3, <1>4, <1>5, <1>6, SameBalance DEF Balanced

\* The session has its next token.
LEMMA IssueBalance ==
    ASSUME BalancedInv, NEW q \in Request, NEW n \in Token, IssueRotated(q, n)
    PROVE  Balanced'
<1> USE DEF BalancedInv, SessionsInv
<1> DEFINE t == refresh[q].token
           o == session[t]
<1>1. /\ refresh[q].pc = "rotated" /\ t \in Issued /\ t # n /\ o \in Issued /\ o \in Token
      /\ overlaps' = overlaps
  BY RequestFields DEF IssueRotated, Issues, NamesIssued, Issued, history
<1>2. /\ session'[n] = o /\ n \notin Issued
      /\ \A u \in Issued : session'[u] = session[u]
      /\ live' = live \union {n}
  <2> HIDE DEF o
  <2>1. Issues(n, o)
    BY DEF IssueRotated, Presented, o
  <2> QED
    BY <1>1, <2>1, IssuesFacts
<1>3. \/ Becomes(q, "answered", t, n, refresh[q].from)
      \/ Leaves(q)
  BY <1>1, AnswersFacts DEF IssueRotated
<1>4. \A p \in Request : p # q => refresh'[p] = refresh[p]
  BY <1>3 DEF Leaves, Becomes
<1>5. /\ \A u : Claimed(u)' <=> Claimed(u)
      /\ q \notin Serving'
  BY <1>1, <1>3, <1>4 DEF Claimed, Serving, Leaves, Becomes
<1>6. \A s \in Token : Rotating(s)' \subseteq Rotating(s) \ {q}
  <2> SUFFICES ASSUME NEW s \in Token, NEW p \in Rotating(s)'
               PROVE  p \in Rotating(s) /\ p # q
    OBVIOUS
  <2>1. /\ p \in Request /\ p # q /\ refresh'[p] = refresh[p]
        /\ refresh[p].pc \in {"found", "checked", "rotated"} /\ session'[refresh[p].token] = s
    BY <1>4, <1>5 DEF Rotating, Serving, Presented
  <2>2. refresh[p].token \in Issued
    BY <2>1, RequestFields
  <2> QED
    BY <1>2, <2>1, <2>2 DEF Rotating, Serving, Presented
<1>7. q \in Rotating(o)
  BY <1>1 DEF Rotating, Serving, Presented
<1>8. live \subseteq Issued
  BY DEF SessionsTypeOK, Issued
<1>9. ASSUME NEW s \in Token, NEW u \in Free(s)'
      PROVE  u \in Free(s) \/ (s = o /\ u = n)
  <2>1. u \in live \union {n} /\ session'[u] = s /\ ~ Claimed(u)
    BY <1>2, <1>5 DEF Free
  <2>2. CASE u = n
    BY <1>2, <2>1, <2>2
  <2>3. CASE u \in live
    BY <1>2, <1>8, <2>1, <2>3 DEF Free
  <2> QED
    BY <2>1, <2>2, <2>3
<1>10. /\ IsFiniteSet(live)'
       /\ \A s \in Token : overlaps'[s] \in Nat /\ overlaps'[s] >= overlaps[s]
  <2>1. IsFiniteSet(live \union {n})
    BY FS_AddElement DEF Balanced
  <2> QED
    BY <1>1, <1>2, <2>1 DEF SessionsTypeOK
<1> HIDE DEF o
<1>11. ASSUME NEW s \in Token
       PROVE  Cardinality(Free(s)') + Cardinality(Rotating(s)') <= 1 + overlaps'[s]
  <2>1. CASE s = o
    <3>1. Free(s)' \subseteq Free(s) \union {n}
      BY <1>9
    <3> QED
      BY <1>6, <1>7, <1>10, <2>1, <3>1, TradeBalance
  <2>2. CASE s # o
    <3>1. Free(s)' \subseteq Free(s)
      BY <1>9, <2>2
    <3> QED
      BY <1>6, <1>10, <2>2, <3>1, SameBalance
  <2> QED
    BY <2>1, <2>2
<1> QED
  BY <1>10, <1>11 DEF Balanced

\* A request that stops may leave the token it presented as it was.
LEMMA StopBalance ==
    ASSUME BalancedInv, NEW q \in Request, NEW pc, NEW u, NEW n, NEW w,
           Becomes(q, pc, u, n, w), pc \notin {"found", "checked", "rotated"},
           UNCHANGED <<live, session, overlaps>>
    PROVE  Balanced'
<1> USE DEF BalancedInv, SessionsInv
<1> DEFINE t == refresh[q].token
<1>1. CASE q \notin Serving
  BY <1>1, UnservedBalance
<1>2. CASE q \in Serving
  <2>1. /\ \A v : Claimed(v) => Claimed(v)' \/ v = t
        /\ \A s : Rotating(s)' \subseteq Rotating(s) \ {q}
    BY OtherRequests
  <2>2. q \in Rotating(session[t])
    BY <1>2 DEF Rotating, Presented
  <2>3. /\ \A s : Free(s)' \subseteq Free(s) \union {t}
        /\ \A s : s # session[t] => Free(s)' \subseteq Free(s)
    BY <2>1 DEF Free
  <2>4. IsFiniteSet(live)' /\ \A s \in Token : overlaps'[s] \in Nat /\ overlaps'[s] >= overlaps[s]
    BY DEF Balanced, SessionsTypeOK
  <2>5. ASSUME NEW s \in Token
        PROVE  Cardinality(Free(s)') + Cardinality(Rotating(s)') <= 1 + overlaps'[s]
    <3>1. CASE s = session[t]
      BY <2>1, <2>2, <2>3, <2>4, <3>1, TradeBalance
    <3>2. CASE s # session[t]
      BY <2>1, <2>3, <2>4, <3>2, SameBalance
    <3> QED
      BY <3>1, <3>2
  <2> QED
    BY <2>4, <2>5 DEF Balanced
<1> QED
  BY <1>1, <1>2

\* A request that is neither served more nor less than before.
LEMMA GoesOnBalance ==
    ASSUME BalancedInv, NEW q \in Request, NEW pc, NEW n, NEW w,
           Becomes(q, pc, refresh[q].token, n, w),
           pc = refresh[q].pc \/ (pc = "checked" /\ refresh[q].pc = "found"),
           UNCHANGED <<live, session, overlaps>>
    PROVE  Balanced'
<1>1. /\ \A p \in Request : refresh'[p].token = refresh[p].token
      /\ \A p \in Request : refresh'[p].pc = refresh[p].pc
                            \/ (refresh'[p].pc = "checked" /\ refresh[p].pc = "found")
  BY DEF Becomes
<1>2. (\A t : Claimed(t)' <=> Claimed(t)) /\ Serving' = Serving
  BY <1>1 DEF Claimed, Serving
<1>3. \A s : Free(s)' = Free(s) /\ Rotating(s)' = Rotating(s)
  BY <1>1, <1>2 DEF Free, Rotating, Serving, Presented
<1> QED
  BY <1>3 DEF Balanced, BalancedInv

LEMMA StepRequestBalance ==
    ASSUME BalancedInv, NEW q \in Request,
           \/ \E w \in Tab : StartRotation(w, q)
           \/ RefreshHandler(q) \/ StoreRotated(q) \/ ClearRefused(q) \/ LoseAnswer(q)
    PROVE  Balanced'
<1> USE DEF BalancedInv, SessionsInv
<1>1. ASSUME NEW w \in Tab, StartRotation(w, q) PROVE Balanced'
  <2>1. Becomes(q, "sent", Held(w), None, w) /\ refresh[q] = NoRequest
    BY <1>1, StartFacts
  <2> QED
    BY <1>1, <2>1, UnservedBalance DEF StartRotation, rows, history, NoRequest, Serving
<1>2. CASE CheckToken(q)
  <2>1. q \notin Serving /\ live' = live /\ session' = session
    BY <1>2 DEF CheckToken, Serving, rows
  <2>2. CASE overlaps' = overlaps /\ (Leaves(q) \/ Becomes(q, "refused", refresh[q].token, None, refresh[q].from))
    BY <2>1, <2>2, UnservedBalance DEF Leaves
  <2> QED
    BY <1>2, <2>2, CheckFacts, AcceptBalance
<1>3. CASE RevokeToken(q)
  BY <1>3, RevokeBalance
<1>4. CASE \E n \in Token : IssueRotated(q, n)
  BY <1>4, IssueBalance
<1>5. CASE ServerStops(q) \/ StoreRotated(q) \/ ClearRefused(q)
  BY <1>5, EndsFacts, StopBalance DEF Leaves, ServerStops, StoreRotated, ClearRefused, rows, history
<1>6. CASE LoseAnswer(q)
  <2>1. UNCHANGED <<live, session, overlaps>>
    BY <1>6 DEF LoseAnswer, rows
  <2>2. CASE Leaves(q)
    BY <2>1, <2>2, StopBalance DEF Leaves
  <2>3. CASE Becomes(q, refresh[q].pc, refresh[q].token, refresh[q].issued, None)
    BY <2>1, <2>3, GoesOnBalance
  <2> QED
    BY <1>6, <2>2, <2>3, LoseFacts
<1>7. CASE CheckUser(q)
  <2>1. UNCHANGED <<live, session, overlaps>> /\ refresh[q].pc = "found"
    BY <1>7 DEF CheckUser, rows, history
  <2>2. CASE Leaves(q)
    BY <2>1, <2>2, StopBalance DEF Leaves
  <2>3. CASE Becomes(q, "refused", refresh[q].token, None, refresh[q].from)
    BY <2>1, <2>3, StopBalance
  <2>4. CASE Becomes(q, "checked", refresh[q].token, refresh[q].issued, refresh[q].from)
    BY <2>1, <2>4, GoesOnBalance
  <2> QED
    BY <1>7, <2>2, <2>3, <2>4, CheckUserFacts
<1> QED
  BY <1>1, <1>2, <1>3, <1>4, <1>5, <1>6, <1>7 DEF RefreshHandler

\* Steps that revoke tokens at most.
LEMMA RevokingBalance ==
    ASSUME BalancedInv, live' \subseteq live, UNCHANGED <<session, refresh, overlaps>>
    PROVE  Balanced'
<1>1. \A s : Free(s)' \subseteq Free(s) /\ Rotating(s)' \subseteq Rotating(s)
  BY DEF Free, Claimed, Rotating, Serving, Presented
<1>2. IsFiniteSet(live)'
  BY FS_Subset DEF BalancedInv, Balanced
<1>3. \A s \in Token : overlaps'[s] \in Nat /\ overlaps'[s] >= overlaps[s]
  BY DEF BalancedInv, SessionsInv, SessionsTypeOK
<1> QED
  BY <1>1, <1>2, <1>3, SameBalance DEF Balanced

\* A sign-in begins a session of one token.
LEMMA SignInBalance ==
    ASSUME BalancedInv, NEW w \in Tab, NEW n \in Token, Login(w, n) \/ IssueChanged(w, n)
    PROVE  Balanced'
<1> USE DEF BalancedInv, SessionsInv
<1>1. /\ session'[n] = n /\ n \notin Issued
      /\ \A u \in Issued : session'[u] = session[u] /\ session[u] # n
      /\ live' = live \union {n}
  BY IssuesFacts DEF Login, IssueChanged, NamesIssued
<1>2. UNCHANGED <<refresh, overlaps>>
  BY DEF Login, IssueChanged, history
<1>3. live \subseteq Issued /\ \A q \in Serving : refresh[q].token \in Issued
  BY RequestFields DEF SessionsTypeOK, Issued, Serving
<1>4. \A s \in Token : s # n => Free(s)' \subseteq Free(s) /\ Rotating(s)' \subseteq Rotating(s)
  BY <1>1, <1>2, <1>3 DEF Free, Claimed, Rotating, Serving, Presented
<1>5. Free(n)' \subseteq {n} /\ Rotating(n)' = {}
  BY <1>1, <1>2, <1>3 DEF Free, Claimed, Rotating, Serving, Presented
<1>6. IsFiniteSet(live)'
  BY <1>1, FS_AddElement DEF Balanced
<1>7. \A s \in Token : overlaps'[s] \in Nat /\ overlaps'[s] >= overlaps[s]
  BY <1>2 DEF SessionsTypeOK
<1>8. Cardinality(Free(n)') + Cardinality(Rotating(n)') <= 1 + overlaps'[n]
  <2> DEFINE S == Free(n)'
             T == Rotating(n)'
  <2>1. IsFiniteSet({n}) /\ Cardinality({n}) = 1 /\ Cardinality(T) = 0
    BY <1>5, FS_Singleton, FS_EmptySet
  <2>2. S \in SUBSET {n}
    BY <1>5
  <2> HIDE DEF S, T
  <2>3. Cardinality(S) <= 1 /\ Cardinality(S) \in Nat
    BY <2>1, <2>2, FS_Subset, FS_CardinalityType
  <2>4. Cardinality(S) + Cardinality(T) <= 1 + overlaps'[n]
    BY <1>7, <2>1, <2>3
  <2> QED
    BY <2>4 DEF S, T
<1> QED
  BY <1>4, <1>6, <1>7, <1>8, SameBalance DEF Balanced

LEMMA StepBalanced ==
    ASSUME BalancedInv, [SessionsNext]_sessionsVars
    PROVE  Balanced'
<1>1. CASE \E q \in Request :
            \/ \E w \in Tab : StartRotation(w, q)
            \/ RefreshHandler(q) \/ StoreRotated(q) \/ ClearRefused(q) \/ LoseAnswer(q)
  BY <1>1, StepRequestBalance
<1>2. CASE \E w \in Tab, n \in Token : Login(w, n) \/ IssueChanged(w, n)
  BY <1>2, SignInBalance
<1>3. CASE \/ \E w \in Tab : CheckLogin(w) \/ Logout(w) \/ ClearTokens(w) \/ DropTokens(w) \/ CheckPassword(w)
           \/ Block \/ Unblock \/ GiveUp
           \/ \E r \in Link : \E v \in 0 .. MaxIncidents : CheckLink(r, v)
           \/ UNCHANGED sessionsVars
  <2>1. live' \subseteq live /\ UNCHANGED <<session, refresh, overlaps>>
    BY <1>3 DEF CheckLogin, Logout, ClearTokens, DropTokens, CheckPassword, Block, Unblock, GiveUp,
                CheckLink, sessionsVars, rows, history
  <2> QED
    BY <2>1, RevokingBalance
<1>4. CASE \/ \E w \in Tab : ChangePassword(w)
           \/ \E r \in Link : ResetPassword(r)
           \/ RevokeBlocked
  <2>1. live' \subseteq live /\ UNCHANGED <<session, refresh, overlaps>>
    BY <1>4 DEF ChangePassword, ResetPassword, SetPassword, RevokeBlocked, RevokesAll, Unrevoked
  <2> QED
    BY <2>1, RevokingBalance
<1> QED
  BY <1>1, <1>2, <1>3, <1>4 DEF SessionsNext, Page

\* A valid token is free, or it is one that a request served presents.
LEMMA BalanceBounds == BalancedInv => TokensPerSession
<1> SUFFICES ASSUME BalancedInv, NEW s \in Token
             PROVE  Cardinality({t \in live : session[t] = s}) <= 1 + overlaps[s]
  BY DEF TokensPerSession
<1> DEFINE L == {t \in live : session[t] = s}
           A == Free(s)
           B == Rotating(s)
           f == [q \in B |-> refresh[q].token]
           C == {f[q] : q \in B}
<1>1. IsFiniteSet(A) /\ IsFiniteSet(B)
  BY SetsFinite DEF BalancedInv, Balanced
<1>2. L \subseteq A \union C
  <2> SUFFICES ASSUME NEW t \in L, Claimed(t) PROVE t \in C
    BY DEF Free
  <2>1. PICK q \in Request : refresh[q].pc \in {"found", "checked"} /\ refresh[q].token = t
    BY DEF Claimed
  <2>2. q \in B
    BY <2>1 DEF Rotating, Serving, Presented
  <2> QED
    BY <2>1, <2>2
<1>3. IsFiniteSet(C) /\ Cardinality(C) <= Cardinality(B)
  <2>1. f \in Surjection(B, C)
    BY DEF Surjection
  <2> HIDE DEF f, C, B
  <2> QED
    BY <1>1, <2>1, FS_Surjection
<1>4. Cardinality(A) + Cardinality(B) <= 1 + overlaps[s] /\ overlaps[s] \in Nat
  BY DEF BalancedInv, Balanced, SessionsInv, SessionsTypeOK
<1> HIDE DEF L, A, B, C
<1>5. /\ IsFiniteSet(A \union C) /\ Cardinality(A \union C) <= Cardinality(A) + Cardinality(C)
      /\ Cardinality(A) \in Nat /\ Cardinality(B) \in Nat /\ Cardinality(C) \in Nat
      /\ Cardinality(A \union C) \in Nat
  <2>1. IsFiniteSet(A \union C) /\ IsFiniteSet(A \cap C)
    BY <1>1, <1>3, FS_Union, FS_Intersection
  <2>2. /\ Cardinality(A) \in Nat /\ Cardinality(B) \in Nat /\ Cardinality(C) \in Nat
        /\ Cardinality(A \union C) \in Nat /\ Cardinality(A \cap C) \in Nat
    BY <1>1, <1>3, <2>1, FS_CardinalityType
  <2>3. Cardinality(A \union C) = Cardinality(A) + Cardinality(C) - Cardinality(A \cap C)
    BY <1>1, <1>3, FS_Union
  <2> QED
    BY <2>1, <2>2, <2>3
<1>6. Cardinality(L) <= Cardinality(A \union C) /\ Cardinality(L) \in Nat
  BY <1>2, <1>5, FS_Subset, FS_CardinalityType
<1>7. Cardinality(L) <= 1 + overlaps[s]
  BY <1>3, <1>4, <1>5, <1>6
<1> QED
  BY <1>7 DEF L

\* For any number of tabs, of requests at once and of answers lost, a session has
\* one valid token, and one more for each request that was accepted with a token
\* another one had been accepted with and not yet revoked.
THEOREM SessionsSplitByOverlap == SessionsSpec => []TokensPerSession
<1>1. SessionsInit => Balanced
  <2> SUFFICES ASSUME SessionsInit PROVE Balanced
    OBVIOUS
  <2>1. IsFiniteSet(live) /\ \A s \in Token : Free(s) = {} /\ Rotating(s) = {} /\ overlaps[s] = 0
    BY FS_EmptySet DEF SessionsInit, Free, Rotating, Serving, NoRequest
  <2> QED
    BY <2>1, FS_EmptySet DEF Balanced
<1>2. SessionsInv /\ Balanced /\ [SessionsNext]_sessionsVars => Balanced'
  BY StepBalanced DEF BalancedInv
<1>3. SessionsInv /\ Balanced => TokensPerSession
  BY BalanceBounds DEF BalancedInv
<1> QED
  BY <1>1, <1>2, <1>3, Inductive, PTL DEF SessionsSpec

-----------------------------------------------------------------------------
\* The token in a browser's storage.

\* Browsers store different tokens.
StoredOnce == \A b, c \in Browser : stored[b] = stored[c] /\ stored[b] # None => b = c

\* A token that is being rotated is stored where its page looks, if anywhere,
\* or its answer is lost.
Sent ==
    \A q \in Request : refresh[q] # NoRequest =>
        /\ refresh[q].from = None => refresh[q].token \in cut
        /\ refresh[q].from # None =>
            \A b \in Browser : stored[b] = refresh[q].token => BrowserOf[refresh[q].from] = b

\* Nobody knows the token in an answer before the page has stored it.
Unknown ==
    \A q \in Request : refresh[q].pc = "answered" => LET n == refresh[q].issued IN
        /\ \A b \in Browser : stored[b] # n
        /\ \A p \in Request :
                /\ refresh[p] # NoRequest => refresh[p].token # n
                /\ refresh[p].pc = "answered" /\ refresh[p].issued = n => p = q
        /\ n \in live \/ session[n] \in ended

Kept(b) ==
    LET t == stored[b] IN
    t # None /\ t \notin live =>
        \/ \E w \in Tab : BrowserOf[w] = b /\ visit[w] = "clear"
        \/ \E q \in Request : /\ refresh[q].token = t
                              /\ refresh[q].from # None /\ BrowserOf[refresh[q].from] = b
        \/ t \in cut
        \/ session[t] \in ended

KeepsInv == StoredOnce /\ Sent /\ Unknown /\ \A b \in Browser : Kept(b)

LEMMA StoredFacts ==
    ASSUME SessionsTypeOK, NEW b \in Browser, stored[b] # None
    PROVE  stored[b] \in Issued /\ stored[b] \in Token
BY DEF SessionsTypeOK, IsIssued, Issued

LEMMA InitKeeps == SessionsInit => KeepsInv
BY DEF SessionsInit, KeepsInv, StoredOnce, Sent, Unknown, Kept, NoRequest

\* Steps that touch no token that is stored or sent, and those that revoke all.
LEMMA KeepsElsewhere ==
    ASSUME SessionsTypeOK, KeepsInv, UNCHANGED <<session, stored, refresh, cut>>,
           \A w \in Tab : visit[w] = "clear" => visit'[w] = "clear",
           \/ live' = live /\ ended' = ended
           \/ RevokesAll
    PROVE  KeepsInv'
<1> USE DEF KeepsInv
<1>1. CASE live' = live /\ ended' = ended
  BY <1>1 DEF StoredOnce, Sent, Unknown, Kept
<1>2. CASE RevokesAll
  <2>1. \A t \in Issued : session[t] \in ended'
    BY <1>2 DEF RevokesAll, Issued, Sessions
  <2>2. \A q \in Request : refresh[q].pc = "answered" => refresh[q].issued \in Issued
    BY RequestFields
  <2>3. \A b \in Browser : stored[b] # None => stored[b] \in Issued
    BY StoredFacts
  <2> QED
    BY <2>1, <2>2, <2>3 DEF StoredOnce, Sent, Unknown, Kept
<1> QED
  BY <1>1, <1>2

\* A page asks for a rotation of what its browser stores.
LEMMA KeepsStart ==
    ASSUME SessionsInv, KeepsInv, NEW w \in Tab, NEW q \in Request, StartRotation(w, q)
    PROVE  KeepsInv'
<1> USE DEF KeepsInv, SessionsInv
<1>1. /\ UNCHANGED <<live, session, stored, cut, ended, visit>>
      /\ Becomes(q, "sent", Held(w), None, w) /\ refresh[q] = NoRequest
      /\ Held(w) # None /\ w # None /\ BrowserOf[w] \in Browser /\ Held(w) = stored[BrowserOf[w]]
  <2>1. UNCHANGED <<live, session, stored, cut, ended, visit>>
    BY DEF StartRotation, rows, history
  <2>2. Becomes(q, "sent", Held(w), None, w) /\ refresh[q] = NoRequest
    BY StartFacts
  <2>3. Held(w) # None
    BY DEF StartRotation
  <2>4. w # None /\ BrowserOf[w] \in Browser
    BY SessionsAssumption
  <2> QED
    BY <2>1, <2>2, <2>3, <2>4 DEF Held
<1>2. /\ refresh'[q].pc = "sent" /\ refresh'[q].token = Held(w) /\ refresh'[q].from = w
      /\ \A p \in Request : p # q => refresh'[p] = refresh[p]
  BY <1>1 DEF Becomes
<1>3. StoredOnce'
  BY <1>1 DEF StoredOnce
<1>4. Sent'
  BY <1>1, <1>2 DEF Sent, StoredOnce
<1>5. Unknown'
  BY <1>1, <1>2 DEF Unknown
<1>6. \A b \in Browser : Kept(b)'
  BY <1>1, <1>2 DEF Kept, NoRequest
<1> QED
  BY <1>3, <1>4, <1>5, <1>6

\* The server goes on with a request: the token it revokes is being rotated, or
\* its answer is lost.
LEMMA KeepsServe ==
    ASSUME SessionsInv, KeepsInv, NEW q \in Request, CheckToken(q) \/ CheckUser(q) \/ RevokeToken(q)
    PROVE  KeepsInv'
<1> USE DEF KeepsInv, SessionsInv
<1> DEFINE t == refresh[q].token
<1>1. /\ UNCHANGED <<session, stored, cut, ended, visit>>
      /\ refresh[q].pc # "none" /\ refresh[q].pc # "answered" /\ refresh[q] # NoRequest
      /\ t \in Token /\ t # None
      /\ live' = live \/ live' = live \ {t}
  BY RequestFields, SessionsAssumption
     DEF CheckToken, CheckUser, RevokeToken, WithoutToken, rows, history, Issued
<1>2. \/ \E pc \in {"found", "checked", "refused", "rotated"} :
            \E n : Becomes(q, pc, t, n, refresh[q].from)
      \/ refresh[q].from = None /\ Leaves(q) /\ live' = live
  <2>1. CASE CheckToken(q)
    BY <2>1, CheckFacts DEF CheckToken, rows
  <2>2. CASE RevokeToken(q)
    BY <2>2, RevokeFacts
  <2>3. CASE CheckUser(q)
    BY <2>3, CheckUserFacts DEF CheckUser, rows
  <2> QED
    BY <2>1, <2>2, <2>3
<1>3. /\ refresh'[q].pc # "answered"
      /\ \/ /\ refresh'[q].token = t /\ refresh'[q].from = refresh[q].from
            /\ refresh'[q] # NoRequest
         \/ refresh'[q] = NoRequest /\ refresh[q].from = None /\ live' = live
      /\ \A p \in Request : p # q => refresh'[p] = refresh[p]
  <2>1. CASE Leaves(q) /\ refresh[q].from = None /\ live' = live
    BY <2>1 DEF Leaves, Becomes, NoRequest
  <2>2. ASSUME NEW pc \in {"found", "checked", "refused", "rotated"}, NEW n,
               Becomes(q, pc, t, n, refresh[q].from)
        PROVE  /\ refresh'[q].pc = pc /\ refresh'[q].token = t
               /\ refresh'[q].from = refresh[q].from
               /\ \A p \in Request : p # q => refresh'[p] = refresh[p]
    BY <2>2 DEF Becomes
  <2> QED
    BY <1>2, <2>1, <2>2 DEF NoRequest
<1>4. StoredOnce'
  BY <1>1 DEF StoredOnce
<1>5. Sent'
  BY <1>1, <1>3 DEF Sent
<1>6. Unknown'
  BY <1>1, <1>3 DEF Unknown
<1>7. ASSUME NEW b \in Browser PROVE Kept(b)'
  <2>1. CASE stored[b] = t /\ refresh'[q] # NoRequest
    <3>1. refresh[q].from # None => BrowserOf[refresh[q].from] = b
      BY <1>1, <2>1 DEF Sent
    <3>2. refresh[q].from = None => t \in cut
      BY <1>1 DEF Sent
    <3> QED
      BY <1>1, <1>3, <2>1, <3>1, <3>2 DEF Kept
  <2>2. CASE stored[b] # t \/ refresh'[q] = NoRequest
    <3>1. stored[b] \notin live' => stored[b] \notin live
      BY <1>1, <1>3, <2>2
    <3> QED
      BY <1>1, <1>3, <2>2, <3>1 DEF Kept
  <2> QED
    BY <2>1, <2>2
<1> QED
  BY <1>4, <1>5, <1>6, <1>7

\* A new token is stored and presented nowhere.
LEMMA KeepsIssue ==
    ASSUME SessionsInv, KeepsInv, NEW q \in Request, NEW n \in Token, IssueRotated(q, n)
    PROVE  KeepsInv'
<1> USE DEF KeepsInv, SessionsInv
<1> DEFINE t == refresh[q].token
           o == session[t]
<1>1. /\ refresh[q].pc = "rotated" /\ refresh[q] # NoRequest /\ t \in Issued /\ t # n
      /\ o \in Issued /\ o \in Token
      /\ UNCHANGED <<stored, cut, ended, visit>>
  BY RequestFields DEF IssueRotated, Issues, NamesIssued, Issued, history
<1>2. /\ n \notin Issued /\ live' = live \union {n}
      /\ \A u \in Issued : session'[u] = session[u]
  <2> HIDE DEF o
  <2>1. Issues(n, o)
    BY DEF IssueRotated, Presented, o
  <2> QED
    BY <1>1, <2>1, IssuesFacts
<1>3. \/ refresh[q].from \in Tab /\ Becomes(q, "answered", t, n, refresh[q].from)
      \/ refresh[q].from = None /\ Leaves(q)
  BY <1>1, AnswersFacts DEF IssueRotated
<1>4. /\ \/ /\ refresh'[q].token = t /\ refresh'[q].from = refresh[q].from
            /\ refresh'[q].issued = n
         \/ refresh'[q] = NoRequest /\ refresh[q].from = None
      /\ \A p \in Request : p # q => refresh'[p] = refresh[p]
  BY <1>3 DEF Leaves, Becomes, NoRequest
<1>5. /\ \A b \in Browser : stored[b] # None => stored[b] \in Issued
      /\ \A p \in Request : refresh[p] # NoRequest => refresh[p].pc # "none"
      /\ \A p \in Request : refresh[p].pc # "none" => refresh[p].token \in Issued
      /\ \A p \in Request : refresh[p].pc = "answered" => refresh[p].issued \in Issued
  BY StoredFacts, RequestFields DEF SessionsTypeOK
<1>6. n # None
  BY SessionsAssumption
<1>7. StoredOnce'
  BY <1>1 DEF StoredOnce
<1>8. Sent'
  BY <1>1, <1>4 DEF Sent
<1>9. Unknown'
  <2> SUFFICES ASSUME NEW p \in Request, refresh'[p].pc = "answered"
               PROVE  /\ \A b \in Browser : stored[b] # refresh'[p].issued
                      /\ \A r \in Request :
                            /\ refresh'[r] # NoRequest => refresh'[r].token # refresh'[p].issued
                            /\ refresh'[r].pc = "answered" /\ refresh'[r].issued = refresh'[p].issued
                                    => r = p
                      /\ refresh'[p].issued \in live' \/ session'[refresh'[p].issued] \in ended
    BY <1>1 DEF Unknown
  <2>1. CASE p = q
    <3>1. refresh'[p].issued = n
      BY <1>4, <2>1 DEF NoRequest
    <3>2. \A b \in Browser : stored[b] # n
      BY <1>2, <1>5, <1>6
    <3>3. ASSUME NEW r \in Request
          PROVE  /\ refresh'[r] # NoRequest => refresh'[r].token # n
                 /\ refresh'[r].pc = "answered" /\ refresh'[r].issued = n => r = q
      BY <1>1, <1>2, <1>4, <1>5
    <3> QED
      BY <1>2, <2>1, <3>1, <3>2, <3>3
  <2>2. CASE p # q
    <3>1. refresh'[p] = refresh[p] /\ refresh[p].issued \in Issued /\ refresh[p].issued # n
      BY <1>2, <1>4, <1>5, <2>2
    <3>2. ASSUME NEW r \in Request
          PROVE  /\ refresh'[r] # NoRequest => refresh'[r].token # refresh[p].issued
                 /\ refresh'[r].pc = "answered" /\ refresh'[r].issued = refresh[p].issued => r = p
      <4>1. refresh[p].pc = "answered"
        BY <3>1
      <4>2. CASE r = q
        <5>1. t # refresh[p].issued
          BY <1>1, <4>1 DEF Unknown
        <5> QED
          BY <1>4, <3>1, <4>2, <5>1 DEF NoRequest
      <4>3. CASE r # q
        BY <1>4, <4>1, <4>3 DEF Unknown
      <4> QED
        BY <4>2, <4>3
    <3>3. refresh[p].issued \in live \/ session[refresh[p].issued] \in ended
      BY <3>1 DEF Unknown
    <3> QED
      BY <1>2, <3>1, <3>2, <3>3 DEF Unknown
  <2> QED
    BY <2>1, <2>2
<1>10. ASSUME NEW b \in Browser PROVE Kept(b)'
  BY <1>1, <1>2, <1>4, <1>5 DEF Kept
<1> QED
  BY <1>7, <1>8, <1>9, <1>10

\* A request that ends where nobody waits, or whose page has gone.
LEMMA KeepsLost ==
    ASSUME SessionsInv, KeepsInv, NEW q \in Request, LoseAnswer(q) \/ ServerStops(q)
    PROVE  KeepsInv'
<1> USE DEF KeepsInv, SessionsInv
<1> DEFINE t == refresh[q].token
<1>1. /\ UNCHANGED <<live, session, ended, visit>>
      /\ refresh[q] # NoRequest
      /\ \A b \in Browser : stored'[b] \in {stored[b], None}
      /\ t \in cut' /\ cut \subseteq cut'
  <2>1. CASE LoseAnswer(q)
    BY <2>1 DEF LoseAnswer, Keeps, rows, NoRequest, SessionsTypeOK
  <2>2. CASE ServerStops(q)
    BY <2>2 DEF ServerStops, rows, history, Sent
  <2> QED
    BY <2>1, <2>2
<1>2. /\ \/ refresh'[q] = NoRequest
         \/ /\ refresh'[q].token = t /\ refresh'[q].from = None /\ refresh'[q].pc # "answered"
      /\ \A p \in Request : p # q => refresh'[p] = refresh[p]
  <2>1. CASE Leaves(q)
    BY <2>1 DEF Leaves, Becomes, NoRequest
  <2>2. CASE /\ refresh[q].pc \in {"sent", "found", "checked", "rotated"}
             /\ Becomes(q, refresh[q].pc, t, refresh[q].issued, None)
    BY <2>2 DEF Becomes
  <2> QED
    BY <2>1, <2>2, LoseFacts, EndsFacts DEF ServerStops
<1>3. StoredOnce'
  BY <1>1 DEF StoredOnce
<1>4. Sent'
  <2> SUFFICES ASSUME NEW p \in Request, refresh'[p] # NoRequest
               PROVE  /\ refresh'[p].from = None => refresh'[p].token \in cut'
                      /\ refresh'[p].from # None =>
                            \A b \in Browser :
                                stored'[b] = refresh'[p].token => BrowserOf[refresh'[p].from] = b
    BY DEF Sent
  <2>1. CASE p = q
    BY <1>1, <1>2, <2>1
  <2>2. CASE p # q
    <3>1. refresh'[p] = refresh[p]
      BY <1>2, <2>2
    <3>2. refresh[p].pc # "none"
      BY <3>1 DEF SessionsTypeOK
    <3>3. refresh[p].token # None
      BY <3>2, RequestFields, SessionsAssumption DEF Issued
    <3>4. refresh[p].from = None => refresh[p].token \in cut'
      BY <1>1, <3>1 DEF Sent
    <3>5. ASSUME refresh[p].from # None, NEW b \in Browser, stored'[b] = refresh[p].token
          PROVE  BrowserOf[refresh[p].from] = b
      <4>1. stored[b] = refresh[p].token
        BY <1>1, <3>3, <3>5
      <4> QED
        BY <3>1, <3>5, <4>1 DEF Sent
    <3> QED
      BY <3>1, <3>4, <3>5
  <2> QED
    BY <2>1, <2>2
<1>5. Unknown'
  <2> SUFFICES ASSUME NEW p \in Request, refresh'[p].pc = "answered"
               PROVE  /\ \A b \in Browser : stored'[b] # refresh'[p].issued
                      /\ \A r \in Request :
                            /\ refresh'[r] # NoRequest => refresh'[r].token # refresh'[p].issued
                            /\ refresh'[r].pc = "answered" /\ refresh'[r].issued = refresh'[p].issued
                                    => r = p
                      /\ refresh'[p].issued \in live \/ session[refresh'[p].issued] \in ended
    BY <1>1 DEF Unknown
  <2>1. p # q /\ refresh'[p] = refresh[p]
    BY <1>2 DEF NoRequest
  <2>2. refresh[p].issued # None
    BY <2>1, RequestFields, SessionsAssumption DEF Issued
  <2>3. \A b \in Browser : stored'[b] # refresh[p].issued
    BY <1>1, <2>1, <2>2 DEF Unknown
  <2>4. ASSUME NEW r \in Request
        PROVE  /\ refresh'[r] # NoRequest => refresh'[r].token # refresh[p].issued
               /\ refresh'[r].pc = "answered" /\ refresh'[r].issued = refresh[p].issued => r = p
    BY <1>1, <1>2, <2>1 DEF Unknown, NoRequest
  <2> QED
    BY <2>1, <2>3, <2>4 DEF Unknown
<1>6. ASSUME NEW b \in Browser, stored'[b] # None, stored'[b] \notin live'
      PROVE  Kept(b)'
  <2>1. stored'[b] = stored[b] /\ stored[b] \notin live
    BY <1>1, <1>6
  <2>2. CASE stored[b] = t
    BY <1>1, <2>1, <2>2 DEF Kept
  <2>3. CASE stored[b] # t
    BY <1>1, <1>2, <2>1, <2>3 DEF Kept
  <2> QED
    BY <2>2, <2>3
<1>7. \A b \in Browser : Kept(b)'
  BY <1>6 DEF Kept
<1> QED
  BY <1>3, <1>4, <1>5, <1>7

\* The page stores what the rotation has brought, or drops its tokens.
LEMMA KeepsEnd ==
    ASSUME SessionsInv, KeepsInv, NEW q \in Request, StoreRotated(q) \/ ClearRefused(q)
    PROVE  KeepsInv'
<1> USE DEF KeepsInv, SessionsInv
<1>1. /\ UNCHANGED <<live, session, ended, cut, visit>>
      /\ refresh'[q] = NoRequest
      /\ \A p \in Request : p # q => refresh'[p] = refresh[p]
  BY EndsFacts DEF StoreRotated, ClearRefused, rows, history, Leaves, Becomes, NoRequest
<1>2. PICK c \in Browser, n \in Token \union {None} :
        /\ stored' = [stored EXCEPT ![c] = n]
        /\ c = BrowserOf[refresh[q].from]
        /\ n # None => /\ refresh[q].pc = "answered" /\ refresh[q].issued = n
  <2>1. refresh[q].from \in Tab /\ BrowserOf[refresh[q].from] \in Browser
    BY RequestFields, SessionsAssumption DEF StoreRotated, ClearRefused
  <2>2. CASE StoreRotated(q)
    BY <2>1, <2>2, RequestFields DEF StoreRotated, Keeps
  <2>3. CASE ClearRefused(q)
    BY <2>1, <2>3 DEF ClearRefused, Keeps
  <2> QED
    BY <2>2, <2>3
<1>3. stored'[c] = n /\ \A b \in Browser : b # c => stored'[b] = stored[b]
  BY <1>2 DEF SessionsTypeOK
<1>4. n # None =>
        /\ \A b \in Browser : stored[b] # n
        /\ \A p \in Request : p # q =>
                /\ refresh[p] # NoRequest => refresh[p].token # n
                /\ refresh[p].pc = "answered" => refresh[p].issued # n
        /\ n \in live \/ session[n] \in ended
  BY <1>2 DEF Unknown
<1>5. \A p \in Request : refresh[p] # NoRequest => refresh[p].token # None
  BY DEF SessionsTypeOK, IsIssued
<1>6. \A p \in Request : refresh[p].pc = "answered" => refresh[p].issued # None
  BY RequestFields, SessionsAssumption DEF Issued
<1>7. StoredOnce'
  BY <1>3, <1>4 DEF StoredOnce
<1>8. Sent'
  BY <1>1, <1>3, <1>4, <1>5 DEF Sent
<1>9. Unknown'
  <2> SUFFICES ASSUME NEW p \in Request, refresh'[p].pc = "answered"
               PROVE  /\ \A b \in Browser : stored'[b] # refresh'[p].issued
                      /\ \A r \in Request :
                            /\ refresh'[r] # NoRequest => refresh'[r].token # refresh'[p].issued
                            /\ refresh'[r].pc = "answered" /\ refresh'[r].issued = refresh'[p].issued
                                    => r = p
                      /\ refresh'[p].issued \in live \/ session[refresh'[p].issued] \in ended
    BY <1>1 DEF Unknown
  <2>1. p # q /\ refresh'[p] = refresh[p]
    BY <1>1 DEF NoRequest
  <2>2. \A b \in Browser : stored'[b] # refresh[p].issued
    BY <1>3, <1>4, <1>6, <2>1 DEF Unknown
  <2>3. ASSUME NEW r \in Request
        PROVE  /\ refresh'[r] # NoRequest => refresh'[r].token # refresh[p].issued
               /\ refresh'[r].pc = "answered" /\ refresh'[r].issued = refresh[p].issued => r = p
    BY <1>1, <2>1 DEF Unknown, NoRequest
  <2> QED
    BY <2>1, <2>2, <2>3 DEF Unknown
<1>10. ASSUME NEW b \in Browser, stored'[b] # None, stored'[b] \notin live'
       PROVE  Kept(b)'
  <2>1. CASE b = c
    BY <1>1, <1>3, <1>4, <1>10, <2>1 DEF Kept
  <2>2. CASE b # c
    <3>1. stored'[b] = stored[b] /\ stored[b] \notin live /\ stored[b] # None
      BY <1>1, <1>3, <1>10, <2>2
    <3>2. refresh[q].token = stored[b] /\ refresh[q].from # None
            => BrowserOf[refresh[q].from] = c
      BY <1>2
    <3> QED
      BY <1>1, <2>2, <3>1, <3>2 DEF Kept
  <2> QED
    BY <2>1, <2>2
<1>11. \A b \in Browser : Kept(b)'
  BY <1>10 DEF Kept
<1> QED
  BY <1>7, <1>8, <1>9, <1>11

\* A sign-in and a change of password hand out a new token, which may not arrive.
LEMMA KeepsSignIn ==
    ASSUME SessionsInv, KeepsInv, NEW w \in Tab, NEW n \in Token,
           Login(w, n) \/ IssueChanged(w, n)
    PROVE  KeepsInv'
<1> USE DEF KeepsInv, SessionsInv
<1>1. /\ UNCHANGED <<refresh, ended, cut>>
      /\ \A v \in Tab : visit[v] = "clear" => visit'[v] = "clear"
  BY DEF Login, IssueChanged, Visits, history, SessionsTypeOK
<1>2. /\ n \notin Issued /\ live' = live \union {n}
      /\ \A u \in Issued : session'[u] = session[u]
  BY IssuesFacts DEF Login, IssueChanged
<1>3. /\ \A b \in Browser : stored[b] # None => stored[b] \in Issued
      /\ \A p \in Request : refresh[p] # NoRequest => refresh[p].token \in Issued
      /\ \A p \in Request : refresh[p].pc = "answered" => refresh[p].issued \in Issued
  BY StoredFacts, RequestFields DEF SessionsTypeOK
<1>4. \/ stored' = stored
      \/ /\ stored'[BrowserOf[w]] = n
         /\ \A b \in Browser : b # BrowserOf[w] => stored'[b] = stored[b]
  BY SessionsAssumption DEF Login, IssueChanged, Receives, Keeps, SessionsTypeOK
<1>5. StoredOnce'
  BY <1>2, <1>3, <1>4 DEF StoredOnce
<1>6. Sent'
  BY <1>1, <1>2, <1>3, <1>4 DEF Sent
<1>7. Unknown'
  BY <1>1, <1>2, <1>3, <1>4 DEF Unknown
<1>8. ASSUME NEW b \in Browser, stored'[b] # None, stored'[b] \notin live'
      PROVE  Kept(b)'
  <2>1. stored'[b] = stored[b] /\ stored[b] \notin live
    BY <1>2, <1>4, <1>8
  <2>2. session'[stored[b]] = session[stored[b]] /\ refresh' = refresh /\ cut' = cut /\ ended' = ended
    BY <1>1, <1>2, <1>3, <1>8, <2>1
  <2>3. Kept(b)
    OBVIOUS
  <2> QED
    BY <1>1, <1>8, <2>1, <2>2, <2>3 DEF Kept
<1>9. \A b \in Browser : Kept(b)'
  BY <1>8 DEF Kept
<1> QED
  BY <1>5, <1>6, <1>7, <1>9

\* What a page revokes when it signs out no other browser stores, and no answer
\* holds.
LEMMA KeepsSignOut ==
    ASSUME SessionsInv, KeepsInv, NEW w \in Tab, Logout(w) \/ ClearTokens(w) \/ DropTokens(w)
    PROVE  KeepsInv'
<1> USE DEF KeepsInv, SessionsInv
<1>1. UNCHANGED <<session, refresh, ended>> /\ cut \subseteq cut' /\ BrowserOf[w] \in Browser
  BY SessionsAssumption DEF Logout, ClearTokens, DropTokens, rows, history
<1>2. CASE Logout(w)
  <2>1. /\ stored' = stored
        /\ \A t \in live : t # Held(w) => t \in live'
        /\ visit'[w] = "clear" \/ Held(w) \in cut'
        /\ \A v \in Tab : visit[v] = "clear" => visit'[v] = "clear"
        /\ Held(w) = stored[BrowserOf[w]]
    BY <1>2 DEF Logout, Visits, Held, SessionsTypeOK
  <2>2. StoredOnce' /\ Sent' /\ Unknown'
    BY <1>1, <2>1 DEF StoredOnce, Sent, Unknown
  <2>3. ASSUME NEW b \in Browser PROVE Kept(b)'
    <3>1. CASE b = BrowserOf[w]
      BY <2>1, <3>1 DEF Kept
    <3>2. CASE b # BrowserOf[w]
      <4>1. stored[b] # None /\ stored[b] \notin live' => stored[b] \notin live
        BY <1>1, <2>1, <3>2 DEF StoredOnce
      <4> QED
        BY <1>1, <2>1, <4>1 DEF Kept
    <3> QED
      BY <3>1, <3>2
  <2> QED
    BY <2>2, <2>3
<1>3. CASE ClearTokens(w) \/ DropTokens(w)
  <2>1. /\ live' = live
        /\ stored'[BrowserOf[w]] = None
        /\ \A b \in Browser : b # BrowserOf[w] => stored'[b] = stored[b]
        /\ \A v \in Tab : v # w => visit'[v] = visit[v]
    BY <1>1, <1>3 DEF ClearTokens, DropTokens, Visits, Keeps, rows, SessionsTypeOK
  <2>2. \A b \in Browser : stored'[b] # None => b # BrowserOf[w] /\ stored'[b] = stored[b]
    BY <2>1
  <2>3. StoredOnce' /\ Sent'
    BY <1>1, <2>2, RequestFields DEF StoredOnce, Sent, SessionsTypeOK, IsIssued
  <2>4. Unknown'
    BY <1>1, <2>1, <2>2, RequestFields, SessionsAssumption DEF Unknown, Issued
  <2>5. ASSUME NEW b \in Browser PROVE Kept(b)'
    BY <1>1, <2>1, <2>2 DEF Kept
  <2> QED
    BY <2>3, <2>4, <2>5
<1> QED
  BY <1>2, <1>3

LEMMA StepKeeps ==
    ASSUME SessionsInv, KeepsInv, [SessionsNext]_sessionsVars
    PROVE  KeepsInv'
<1> USE DEF SessionsInv
<1>1. ASSUME NEW q \in Request, RefreshHandler(q) PROVE KeepsInv'
  BY <1>1, KeepsServe, KeepsIssue, KeepsLost DEF RefreshHandler
<1>2. ASSUME NEW q \in Request, StoreRotated(q) \/ ClearRefused(q) PROVE KeepsInv'
  BY <1>2, KeepsEnd
<1>3. ASSUME NEW q \in Request, LoseAnswer(q) PROVE KeepsInv'
  BY <1>3, KeepsLost
<1>4. ASSUME NEW w \in Tab, Page(w) PROVE KeepsInv'
  <2>1. CASE \E q \in Request : StartRotation(w, q)
    BY <2>1, KeepsStart
  <2>2. CASE \E n \in Token : Login(w, n) \/ IssueChanged(w, n)
    BY <2>2, KeepsSignIn
  <2>3. CASE Logout(w) \/ ClearTokens(w) \/ DropTokens(w)
    BY <2>3, KeepsSignOut
  <2>4. CASE CheckLogin(w) \/ CheckPassword(w)
    <3>1. \A v \in Tab : visit[v] = "clear" => visit'[v] = "clear"
      BY <2>4 DEF CheckLogin, CheckPassword, Visits, SessionsTypeOK
    <3> QED
      BY <2>4, <3>1, KeepsElsewhere DEF CheckLogin, CheckPassword, rows, history
  <2>5. CASE ChangePassword(w)
    <3>1. \A v \in Tab : visit[v] = "clear" => visit'[v] = "clear"
      BY <2>5 DEF ChangePassword, Visits, SessionsTypeOK
    <3> QED
      BY <2>5, <3>1, KeepsElsewhere DEF ChangePassword, SetPassword, RevokesAll
  <2> QED
    BY <1>4, <2>1, <2>2, <2>3, <2>4, <2>5 DEF Page
<1>5. ASSUME NEW r \in Link, NEW v \in 0 .. MaxIncidents, CheckLink(r, v) PROVE KeepsInv'
  BY <1>5, KeepsElsewhere DEF CheckLink, rows, history
<1>6. ASSUME NEW r \in Link, ResetPassword(r) PROVE KeepsInv'
  BY <1>6, KeepsElsewhere DEF ResetPassword, SetPassword, RevokesAll
<1>7. CASE Block \/ Unblock
  BY <1>7, KeepsElsewhere DEF Block, Unblock, rows, history
<1>8. CASE RevokeBlocked
  BY <1>8, KeepsElsewhere DEF RevokeBlocked, RevokesAll
<1>9. CASE GiveUp
  <2>1. \A v \in Tab : visit[v] = "clear" => visit'[v] = "clear"
    BY <1>9 DEF GiveUp, Visits, SessionsTypeOK
  <2> QED
    BY <1>9, <2>1, KeepsElsewhere DEF GiveUp, rows, history
<1>10. CASE UNCHANGED sessionsVars
  BY <1>10, KeepsElsewhere DEF sessionsVars
<1> QED
  BY <1>1, <1>2, <1>3, <1>4, <1>5, <1>6, <1>7, <1>8, <1>9, <1>10 DEF SessionsNext

\* For any number of browsers, of tabs of each, of requests and of answers lost: a
\* browser is left with a revoked token only where its own page is about to replace
\* or clear it, where the answer to that token's rotation was lost, or where its
\* session was ended on purpose.
THEOREM BrowsersKeepSessions == SessionsSpec => []KeepsItsSession
<1>1. KeepsInv => KeepsItsSession
  BY DEF KeepsInv, Kept, KeepsItsSession
<1>2. SessionsInv /\ KeepsInv /\ [SessionsNext]_sessionsVars => KeepsInv'
  BY StepKeeps
<1> QED
  BY <1>1, <1>2, InitKeeps, Inductive, PTL DEF SessionsSpec

=============================================================================
