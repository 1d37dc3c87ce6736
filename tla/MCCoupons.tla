----------------------------- MODULE MCCoupons -----------------------------
(***************************************************************************)
(* Small instances of Coupons and Prices for TLC, side by side: how often  *)
(* a coupon is redeemed, and what things cost with it.                     *)
(*                                                                         *)
(* The two modules share no variable, so a behaviour moves one of them.    *)
(***************************************************************************)
EXTENDS Coupons, Prices, TLC

CONSTANTS a1, a2, a3

\* A coupon with one use, and one with any number.
AnyLimit == {1, None}

Coupon(type, value, scope, minOrder, sellerFunded) ==
    [type |-> type, value |-> value, scope |-> scope, minOrder |-> minOrder,
     sellerFunded |-> sellerFunded]

\* Percentages that leave cents over, all of the order, a minimum, a seller's
\* coupons and an amount above the total.
SomeCoupons ==
    {Coupon("PERCENT", 1250, Article, 0, FALSE), Coupon("PERCENT", 10000, Article, 0, FALSE),
     Coupon("PERCENT", 3333, Article, 150, TRUE), Coupon("FIXED", 300, {a1, a2}, 0, TRUE),
     Coupon("FIXED", 1000, {a2, a3}, 0, FALSE)}

VARIABLE focus     \* what this behaviour is about

allVars == <<vars, pricesVars, focus>>

\* One price list is enough for a behaviour about redemptions, one cart for one
\* about prices.
OnePriceList == fee = 0 /\ \A a \in Article : base[a] = 1

SideBySideInit ==
    /\ Init /\ PricesInit
    /\ \/ focus = "uses" /\ OnePriceList
       \/ focus = "prices" /\ limit = None

SideBySideNext ==
    /\ UNCHANGED focus
    /\ \/ focus = "uses" /\ Next /\ UNCHANGED pricesVars
       \/ focus = "prices" /\ PricesNext /\ UNCHANGED vars

SideBySideSpec == SideBySideInit /\ [][SideBySideNext]_allVars

\* Both modules keep their types: no order of a checkout is created without a buyer
\* and lines, and no request prices a product with a fee that was never in force.
TypesOK == TypeOK /\ PricesTypeOK

Symmetry == Permutations(Handler) \union Permutations(Order) \union Permutations(Buyer)

=============================================================================
