------------------------------ MODULE MCOrders ------------------------------
(***************************************************************************)
(* Small instances of Orders for TLC.                                      *)
(***************************************************************************)
EXTENDS Orders, TLC

\* What createCheckout answers: Mercado Pago, the mock, and any gateway at all.
MercadoPago == {"pending"}
AnyGateway == {"pending", "paid", "failed"}

\* Requests, orders and attempts are interchangeable (safety runs only).
Symmetry == Permutations(Handler) \union Permutations(Order) \union Permutations(Attempt)

=============================================================================
