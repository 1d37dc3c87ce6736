----------------------------- MODULE MCCatalog -----------------------------
(***************************************************************************)
(* Small instances of Products and Reviews for TLC, side by side.          *)
(*                                                                         *)
(* The two modules are about different columns of the product row and      *)
(* share no variable, so a behaviour moves one of them: interleaving them  *)
(* would multiply the states and add nothing to check.                     *)
(***************************************************************************)
EXTENDS Products, Reviews, TLC

CONSTANTS p1, p2, p3

VARIABLE focus     \* the columns of the product row that this behaviour is about

vars == <<productsVars, reviewsVars, focus>>

Init ==
    /\ ProductsInit /\ ReviewsInit
    /\ focus \in {"status", "rating"}

Next ==
    /\ UNCHANGED focus
    /\ \/ focus = "status" /\ ProductsNext /\ UNCHANGED reviewsVars
       \/ focus = "rating" /\ ReviewsNext /\ UNCHANGED productsVars

Spec == Init /\ [][Next]_vars

\* Both modules keep their types: a request under way has a product and an argument
\* of the right kind, a deleted product has no files, a hidden review has stars.
TypesOK == ProductsTypeOK /\ ReviewsTypeOK

\* p1 is the one product that is traded.
Symmetry == Permutations(Handler) \union Permutations({p2, p3})

=============================================================================
