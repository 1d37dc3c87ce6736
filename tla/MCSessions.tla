----------------------------- MODULE MCSessions -----------------------------
(***************************************************************************)
(* A small instance of Sessions for TLC: two tabs of one browser and a     *)
(* page on another device, of which each behaviour uses some (scope).      *)
(***************************************************************************)
EXTENDS Sessions, TLC

VARIABLE scope              \* who takes part, how often the password changes and an answer is lost

Browsers == [w \in Tab |-> IF w = "phone" THEN "phone" ELSE "desktop"]

Scope(tabs, requests, resets, tokens, statuses, changes, lost) ==
    [tabs |-> tabs, requests |-> requests, links |-> resets, tokens |-> tokens,
     statuses |-> statuses, changes |-> changes, lost |-> lost]

Either == {"ACTIVE", "BLOCKED"}
OneLess(S) == {S \ {x} : x \in S}

Scopes ==
    \* two devices, of which one changes the password
    {Scope({"tab", "phone"}, Q, {}, Token, Either, 1, 0) : Q \in OneLess(Request)}
    \* two tabs of one browser, which rotate at once and share its storage
    \union {Scope({"tab", "second tab"}, Request, {}, Token, {"ACTIVE"}, 0, 0)}
    \union {Scope({"tab", "second tab"}, Request, {}, T, Either, 0, 0) : T \in OneLess(Token)}
    \* a page that is reloaded, or leaves, while the server rotates its token
    \union {Scope({"tab"}, Request, {}, Token, Either, 1, 1)}
    \* requests that use reset links, beside a page that changes the password
    \union {Scope({"tab"}, {}, Link, {n}, Either, 2, 0) : n \in Token}

WithinScope ==
    /\ \A w \in Tab \ scope.tabs : visit[w] = "home"
    /\ \A q \in Request \ scope.requests : refresh[q] = NoRequest
    /\ \A q \in Request : refresh[q].from \in scope.tabs \union {None}
    /\ \A r \in Link \ scope.links : reset[r] = None
    /\ \A n \in Token \ scope.tokens : session[n] = None
    /\ account \in scope.statuses
    /\ version <= scope.changes /\ losses <= scope.lost

\* A page begins to change the password only while there is a change left.
BeginsInScope ==
    version = scope.changes =>
        \A w \in Tab : visit'[w] = "hash" => visit[w] = "hash"

ScopedInit == SessionsInit /\ scope \in Scopes

ScopedNext == SessionsNext /\ UNCHANGED scope /\ WithinScope' /\ BeginsInScope

ScopedSpec == ScopedInit /\ [][ScopedNext]_<<sessionsVars, scope>>

Symmetry == Permutations(Token) \union Permutations(Request)

=============================================================================
