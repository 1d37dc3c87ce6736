--------------------------- MODULE MCWithdrawals ---------------------------
(***************************************************************************)
(* Small instances of Withdrawals for TLC.                                 *)
(***************************************************************************)
EXTENDS Withdrawals, TLC

CONSTANT v1

Manual == {"manual"}
Gateway == {"gateway"}
EitherMode == {"manual", "gateway"}
AnyResult == {"paid", "pending", "failed"}

\* Every withdrawal belongs to the one vendor.
OneOwner == [w \in Withdrawal |-> v1]
OneVendor == {v1}

Symmetry == Permutations(Handler) \union Permutations(Withdrawal)

=============================================================================
