--------------------------- MODULE OrderLifecycle ---------------------------
(***************************************************************************)
(* What an order promises the buyer, the seller and the shop window,       *)
(* whoever confirms, refuses or refunds its payment and however often:     *)
(* the seller earns a sale once, loses it once when it is refunded, and    *)
(* the product counts exactly the sales that stand.                        *)
(***************************************************************************)
EXTENDS Integers

CONSTANT Order

VARIABLES
    state,   \* the order's status
    earned,  \* sales the seller is credited for, refunds deducted
    sold     \* sales the product shows

vars == <<state, earned, sold>>

Init ==
    /\ state = [o \in Order |-> "NONE"]
    /\ earned = [o \in Order |-> 0]
    /\ sold = 0

Place(o) ==
    /\ state[o] = "NONE"
    /\ state' = [state EXCEPT ![o] = "PENDING"]
    /\ UNCHANGED <<earned, sold>>

Fail(o) ==
    /\ state[o] = "PENDING"
    /\ state' = [state EXCEPT ![o] = "FAILED"]
    /\ UNCHANGED <<earned, sold>>

\* A late payment of a FAILED order is honoured too.
Pay(o) ==
    /\ state[o] \in {"PENDING", "FAILED"}
    /\ state' = [state EXCEPT ![o] = "PAID"]
    /\ earned' = [earned EXCEPT ![o] = 1]
    /\ sold' = sold + 1

\* REFUNDED is final.
Refund(o) ==
    /\ state[o] = "PAID"
    /\ state' = [state EXCEPT ![o] = "REFUNDED"]
    /\ earned' = [earned EXCEPT ![o] = 0]
    /\ sold' = sold - 1

Next == \E o \in Order : Place(o) \/ Fail(o) \/ Pay(o) \/ Refund(o)

Spec == Init /\ [][Next]_vars

=============================================================================
