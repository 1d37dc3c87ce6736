------------------------------ MODULE Sessions ------------------------------
(***************************************************************************)
(* The sessions of one user: AuthService and UsersService.setStatus on the *)
(* server, and in each tab lib/api.ts, auth-provider.tsx and the password  *)
(* pages, which keep the refresh token in the browser's local storage.     *)
(*                                                                         *)
(* A session begins with a sign-in and lives on in the tokens it is        *)
(* rotated into.  The server goes on with a request whose page is gone, so *)
(* a request is kept apart from the tab that waits for it.  Access tokens  *)
(* are left out: they are valid for minutes and every use of one asks      *)
(* whether the user is active.                                             *)
(***************************************************************************)
EXTENDS Integers, FiniteSets

CONSTANTS
    Token,          \* rows of RefreshToken
    Browser,
    Tab,            \* pages of the web client that are open
    BrowserOf,      \* whose local storage a tab uses
    Request,        \* requests to rotate a token
    Link,           \* requests that use a password reset link
    None,
    MaxIncidents    \* bound: how often the password changes or an answer is lost

ASSUME SessionsAssumption ==
    /\ BrowserOf \in [Tab -> Browser]
    /\ IsFiniteSet(Request) /\ IsFiniteSet(Link)
    /\ None \notin Token \union Tab \union Nat
    /\ MaxIncidents \in Nat

VARIABLES
    live,       \* RefreshToken rows with revokedAt null
    session,    \* which sign-in a token comes from, named by its first token
    ended,      \* sessions that a password change or a block has ended
    escaped,    \* of those, the ones with a rotation under way when it did
    overlaps,   \* how often a session's token was found valid while being rotated already
    cut,        \* tokens whose rotation or sign-out the browser has no answer to
    losses,     \* how many answers were lost
    account,    \* User.status
    version,    \* User.passwordHash
    stored,     \* the token in each browser's local storage
    refresh,    \* how far each request is, and the tab whose refreshInFlight it is
    visit,      \* what the user of each tab is doing
    reset,      \* the password a reset request has checked its link against
    uses,       \* how often links issued for a password have set a new one
    rivals,     \* requests that had checked such a link when that password changed
    blocking    \* an admin's block has written the status and not yet the tokens

sessionsVars == <<live, session, ended, escaped, overlaps, cut, losses, account, version, stored,
                  refresh, visit, reset, uses, rivals, blocking>>
rows == <<live, session>>
history == <<ended, escaped, overlaps, cut, losses>>
links == <<reset, uses, rivals>>
user == <<account, version, blocking>>

NoRequest == [pc |-> "none", token |-> None, issued |-> None, from |-> None]
RefreshRequest ==
    [pc : {"none", "sent", "found", "checked", "rotated", "answered", "refused"},
     token : Token \union {None}, issued : Token \union {None}, from : Tab \union {None}]

IsIssued(t) == t # None /\ session[t] # None

\* Only tokens that have been issued are live, stored or presented.
SessionsTypeOK ==
    /\ session \in [Token -> Token \union {None}]
    /\ live \subseteq {t \in Token : session[t] # None}
    /\ escaped \subseteq ended /\ ended \subseteq Token /\ cut \subseteq Token
    /\ overlaps \in [Token -> Nat]
    /\ account \in {"ACTIVE", "BLOCKED"}
    /\ losses \in 0 .. MaxIncidents /\ version \in 0 .. MaxIncidents
    /\ stored \in [Browser -> Token \union {None}]
    /\ \A b \in Browser : stored[b] # None => IsIssued(stored[b])
    /\ refresh \in [Request -> RefreshRequest]
    /\ \A q \in Request : refresh[q] # NoRequest =>
            /\ refresh[q].pc # "none" /\ IsIssued(refresh[q].token)
            /\ refresh[q].pc = "answered" => IsIssued(refresh[q].issued)
            /\ refresh[q].pc \in {"answered", "refused"} => refresh[q].from # None
    /\ visit \in [Tab -> {"home", "login", "clear", "hash", "changed"}]
    /\ reset \in [Link -> 0 .. MaxIncidents \union {None}]
    /\ uses \in [0 .. MaxIncidents -> Nat] /\ rivals \in [0 .. MaxIncidents -> Nat]
    /\ blocking \in BOOLEAN

SessionsInit ==
    /\ live = {}
    /\ session = [t \in Token |-> None]
    /\ ended = {} /\ escaped = {} /\ cut = {}
    /\ overlaps = [t \in Token |-> 0]
    /\ losses = 0
    /\ account = "ACTIVE"
    /\ version = 0
    /\ stored = [b \in Browser |-> None]
    /\ refresh = [q \in Request |-> NoRequest]
    /\ visit = [w \in Tab |-> "home"]
    /\ reset = [r \in Link |-> None]
    /\ uses = [v \in 0 .. MaxIncidents |-> 0]
    /\ rivals = [v \in 0 .. MaxIncidents |-> 0]
    /\ blocking = FALSE

-----------------------------------------------------------------------------
\* Helpers.

Held(w) == stored[BrowserOf[w]]
Keeps(w, t) == stored' = [stored EXCEPT ![BrowserOf[w]] = t]
Receives(w, t) == Keeps(w, t) \/ stored' = stored    \* unless the answer is lost
MoreIncidents == version + losses < MaxIncidents

Visits(w, page) == visit' = [visit EXCEPT ![w] = page]

\* issueTokens: a new row, of a session that goes on or of a new one.
HandsOut(n, s) ==                             \* mutant: a token whose row is not of the user
    /\ session[n] = None
    /\ live' = live \union {n}
    /\ session' = session
Issues(n, s) ==
    /\ session[n] = None
    /\ session' = [session EXCEPT ![n] = s]
    /\ live' = live \union {n}

Sessions == {session[t] : t \in Token} \ {None}

\* Requests whose token the server has found valid and that have yet to issue one.
Serving == {q \in Request : refresh[q].pc \in {"found", "checked", "rotated"}}
Presented(q) == session[refresh[q].token]

KeepsTokens == live                           \* mutant: the tokens outlive the password
Unrevoked == {}

\* Every row of the user that is not revoked is.
RevokesAll ==
    /\ live' = Unrevoked
    /\ ended' = ended \union Sessions
    /\ escaped' = escaped \union {Presented(q) : q \in Serving}
    /\ UNCHANGED <<session, overlaps, cut, losses>>

-----------------------------------------------------------------------------
\* tryRefresh, and AuthService.refresh behind it.

\* A request has been answered with 401; one rotation at a time in each page.
StartRotation(w, q) ==
    /\ \A p \in Request : refresh[p].from # w
    /\ Held(w) # None
    /\ refresh[q] = NoRequest
    /\ refresh' = [refresh EXCEPT ![q] =
            [pc |-> "sent", token |-> Held(w), issued |-> None, from |-> w]]
    /\ UNCHANGED <<rows, history, user, links, stored, visit>>

\* The server answers; nothing is left of the request when nobody waits for it.
Answers(q, pc, n) ==
    refresh' = [refresh EXCEPT ![q] =
        IF @.from = None THEN NoRequest
        ELSE [pc |-> pc, token |-> @.token, issued |-> n, from |-> @.from]]

Claimed(t) == \E p \in Request : refresh[p].pc \in {"found", "checked"} /\ refresh[p].token = t

\* The server reads the row, and in a statement of its own the user.
CheckToken(q) ==
    /\ refresh[q].pc = "sent"
    /\ LET t == refresh[q].token IN
        \/ /\ t \in live
           /\ refresh' = [refresh EXCEPT ![q].pc = "found"]
           /\ overlaps' = [overlaps EXCEPT ![session[t]] = @ + IF Claimed(t) THEN 1 ELSE 0]
        \/ /\ t \notin live
           /\ Answers(q, "refused", None)
           /\ overlaps' = overlaps
    /\ UNCHANGED <<rows, ended, escaped, cut, losses, user, links, stored, visit>>

CheckUser(q) ==
    /\ refresh[q].pc = "found"
    /\ \/ account = "ACTIVE" /\ refresh' = [refresh EXCEPT ![q].pc = "checked"]
       \/ account # "ACTIVE" /\ Answers(q, "refused", None)
    /\ UNCHANGED <<rows, history, user, links, stored, visit>>

NotRevoked(t) == live                         \* mutant: the presented token stays valid
RevokesOthers(t) == {}                        \* mutant: every token of the user is revoked
WithoutToken(t) == live \ {t}

RevokeToken(q) ==
    /\ refresh[q].pc = "checked"
    /\ live' = WithoutToken(refresh[q].token)
    /\ refresh' = [refresh EXCEPT ![q].pc = "rotated"]
    /\ UNCHANGED <<session, history, user, links, stored, visit>>

IssueRotated(q, n) ==
    /\ refresh[q].pc = "rotated"
    /\ Issues(n, Presented(q))
    /\ Answers(q, "answered", n)
    /\ UNCHANGED <<history, user, links, stored, visit>>

Ends(q) == refresh' = [refresh EXCEPT ![q] = NoRequest]

StoreRotated(q) ==
    /\ refresh[q].pc = "answered"
    /\ Keeps(refresh[q].from, refresh[q].issued)
    /\ Ends(q)
    /\ UNCHANGED <<rows, history, user, links, visit>>

ClearRefused(q) ==
    /\ refresh[q].pc = "refused"
    /\ Keeps(refresh[q].from, None)
    /\ Ends(q)
    /\ UNCHANGED <<rows, history, user, links, visit>>

\* The page is reloaded or the connection drops, at any point, and the server
\* goes on.
LoseAnswer(q) ==
    /\ refresh[q].from # None
    /\ MoreIncidents
    /\ losses' = losses + 1
    /\ cut' = cut \union {refresh[q].token}
    /\ refresh' = [refresh EXCEPT ![q] =
            IF @.pc \in {"answered", "refused"} THEN NoRequest ELSE [@ EXCEPT !.from = None]]
    /\ UNCHANGED <<rows, ended, escaped, overlaps, user, links, stored, visit>>

\* The API stops, or a statement fails, in a request that has lost its page.
ServerStops(q) ==
    /\ refresh[q] # NoRequest
    /\ refresh[q].from = None
    /\ Ends(q)
    /\ UNCHANGED <<rows, history, user, links, stored, visit>>

-----------------------------------------------------------------------------
\* Signing in and out.

CheckLogin(w) ==
    /\ visit[w] = "home"
    /\ account = "ACTIVE"
    /\ Visits(w, "login")
    /\ UNCHANGED <<rows, history, user, links, stored, refresh>>

Login(w, n) ==
    /\ visit[w] = "login"
    /\ Issues(n, n)
    /\ Receives(w, n)
    /\ Visits(w, "home")
    /\ UNCHANGED <<history, user, links, refresh>>

\* The server revokes what the tab has sent, unless the request fails, and then
\* the tab clears its storage, unless it is reloaded before.
Logout(w) ==
    /\ visit[w] = "home"
    /\ Held(w) # None
    /\ live' \in {live \ {Held(w)}, live}
    /\ \/ Visits(w, "clear") /\ UNCHANGED <<cut, losses>>
       \/ /\ MoreIncidents
          /\ losses' = losses + 1
          /\ cut' = cut \union {Held(w)}
          /\ visit' = visit
    /\ UNCHANGED <<session, ended, escaped, overlaps, user, links, stored, refresh>>

ClearTokens(w) ==
    /\ visit[w] = "clear"
    /\ Keeps(w, None)
    /\ Visits(w, "home")
    /\ UNCHANGED <<rows, history, user, links, refresh>>

\* The page cannot load its user, or has just reset the password by a link.
DropTokens(w) ==
    /\ Held(w) # None
    /\ Keeps(w, None)
    /\ UNCHANGED <<rows, history, user, links, refresh, visit>>

-----------------------------------------------------------------------------
\* Passwords.

\* One transaction: the new hash, and every token revoked.
SetPassword ==
    /\ MoreIncidents
    /\ version' = version + 1
    /\ rivals' = [rivals EXCEPT ![version] = Cardinality({r \in Link : reset[r] = version})]
    /\ RevokesAll

CheckPassword(w) ==
    /\ visit[w] = "home"
    /\ Held(w) # None
    /\ account = "ACTIVE"
    /\ Visits(w, "hash")
    /\ UNCHANGED <<rows, history, user, links, stored, refresh>>

ChangePassword(w) ==
    /\ visit[w] = "hash"
    /\ SetPassword
    /\ Visits(w, "changed")
    /\ UNCHANGED <<account, blocking, reset, uses, stored, refresh>>

IssueChanged(w, n) ==
    /\ visit[w] = "changed"
    /\ Issues(n, n)
    /\ Receives(w, n)
    /\ Visits(w, "home")
    /\ UNCHANGED <<history, user, links, refresh>>

\* A link carries the fingerprint of the password it was issued for.
AnyLink(v) == account = "ACTIVE"              \* mutant: the fingerprint is not compared
GoodLink(v) == account = "ACTIVE" /\ v = version

CheckLink(r, v) ==
    /\ reset[r] = None
    /\ v <= version                           \* links of passwords that have been
    /\ GoodLink(v)
    /\ reset' = [reset EXCEPT ![r] = v]
    /\ UNCHANGED <<rows, history, user, uses, rivals, stored, refresh, visit>>

ResetPassword(r) ==
    /\ reset[r] # None
    /\ SetPassword
    /\ uses' = [uses EXCEPT ![reset[r]] = @ + 1]
    /\ reset' = [reset EXCEPT ![r] = None]
    /\ UNCHANGED <<account, blocking, stored, refresh, visit>>

-----------------------------------------------------------------------------
\* UsersService.setStatus: two statements.

Block ==
    /\ account = "ACTIVE"
    /\ ~ blocking
    /\ account' = "BLOCKED"
    /\ blocking' = TRUE
    /\ UNCHANGED <<rows, history, version, links, stored, refresh, visit>>

RevokeBlocked ==
    /\ blocking
    /\ blocking' = FALSE
    /\ RevokesAll
    /\ UNCHANGED <<account, version, links, stored, refresh, visit>>

Unblock ==
    /\ account = "BLOCKED"
    /\ account' = "ACTIVE"
    /\ UNCHANGED <<rows, history, version, blocking, links, stored, refresh, visit>>

\* A request of the page or of a link fails and changes nothing.
GiveUp ==
    /\ \/ \E w \in Tab : visit[w] \in {"login", "hash", "changed"} /\ Visits(w, "home") /\ UNCHANGED reset
       \/ \E r \in Link : reset[r] # None /\ reset' = [reset EXCEPT ![r] = None] /\ UNCHANGED visit
    /\ UNCHANGED <<rows, history, user, uses, rivals, stored, refresh>>

-----------------------------------------------------------------------------
RefreshHandler(q) ==
    \/ CheckToken(q) \/ CheckUser(q) \/ RevokeToken(q) \/ \E n \in Token : IssueRotated(q, n)
    \/ ServerStops(q)

Page(w) ==
    \/ CheckLogin(w) \/ Logout(w) \/ ClearTokens(w) \/ DropTokens(w)
    \/ CheckPassword(w) \/ ChangePassword(w)
    \/ \E q \in Request : StartRotation(w, q)
    \/ \E n \in Token : Login(w, n) \/ IssueChanged(w, n)

SessionsNext ==
    \/ \E q \in Request :
            RefreshHandler(q) \/ StoreRotated(q) \/ ClearRefused(q) \/ LoseAnswer(q)
    \/ \E w \in Tab : Page(w)
    \/ \E r \in Link : ResetPassword(r) \/ \E v \in 0 .. MaxIncidents : CheckLink(r, v)
    \/ Block \/ RevokeBlocked \/ Unblock
    \/ GiveUp

SessionsSpec == SessionsInit /\ [][SessionsNext]_sessionsVars

-----------------------------------------------------------------------------
\* A password change, a reset and a block end every session for good, even
\* after an unblock; a session outlives them only through a rotation whose
\* token the server had already found valid.
EndedUnlessUnderWay == \A t \in live : session[t] \in ended => session[t] \in escaped

\* A session is split in two only by requests that present one token, each found
\* valid before another of them has revoked it: of the tokens a session has been
\* rotated into one is valid, and one more for each overlap, whatever answers are
\* lost and whatever pages rotate at once.
TokensPerSession ==
    \A s \in Token : Cardinality({t \in live : session[t] = s}) <= 1 + overlaps[s]

\* The token in a browser's storage is revoked only while one of its pages signs
\* out or is rotating that very token, after the answer to either was lost, or
\* when its session has been ended; never by what another device or another
\* page of the browser does with a token of its own.
KeepsItsSession ==
    \A b \in Browser : LET t == stored[b] IN
        t # None /\ t \notin live =>
            \/ \E w \in Tab : BrowserOf[w] = b /\ visit[w] = "clear"
            \/ \E q \in Request : /\ refresh[q].token = t
                                  /\ refresh[q].from # None /\ BrowserOf[refresh[q].from] = b
            \/ t \in cut
            \/ session[t] \in ended

\* A reset link sets a password once, and again only for requests that had both
\* checked it before the first of them, or a change of the password, was written.
LinkWorksOncePerOverlap == \A v \in 0 .. MaxIncidents : uses[v] <= rivals[v]

=============================================================================
