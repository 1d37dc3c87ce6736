-------------------------- MODULE MCSubscriptions --------------------------
(***************************************************************************)
(* Small instances of Subscriptions for TLC.                               *)
(***************************************************************************)
EXTENDS Subscriptions, TLC

\* Requests and subscriptions are interchangeable (safety runs only).
Symmetry == Permutations(Handler) \union Permutations(Sub)

=============================================================================
