------------------------------ MODULE Coupons ------------------------------
(***************************************************************************)
(* What a checkout takes: the lines of the buyer's cart and a use of a     *)
(* coupon.  CartService, the pricing half of CheckoutService.checkout, and *)
(* CouponsService.quote, with several buyers and tabs at once.             *)
(*                                                                         *)
(* Orders are created here and move as module Orders says; of their moves  *)
(* only what carts and coupons see is kept.  One coupon, whose discount    *)
(* applies to every line: an amount is never needed.                       *)
(***************************************************************************)
EXTENDS Integers, FiniteSets

CONSTANTS
    Buyer,
    Product,
    Order,           \* rows of the Order table
    Handler,         \* HTTP requests served at the same time
    None,            \* SQL NULL
    Limits,          \* what Coupon.maxRedemptions may be set to
    PerBuyerLimit    \* Coupon.perBuyerLimit, fixed when the coupon is created

ASSUME CouponsAssumption ==
    /\ IsFiniteSet(Order)
    /\ None \notin Buyer \union Product \union Nat
    /\ Limits \subseteq Nat \union {None}
    /\ PerBuyerLimit \in Nat

VARIABLES
    cart,        \* the products in each buyer's cart
    onSale,      \* APPROVED products of ACTIVE sellers
    status,      \* Order.status, "NONE" before the row exists
    buyer,       \* Order.buyerId
    lines,       \* the products of its OrderItem rows
    redeemed,    \* orders with a CouponRedemption row
    failedOnce,  \* orders that have been FAILED
    active,      \* Coupon.active, and the time is between startsAt and endsAt
    limit,       \* Coupon.maxRedemptions
    task         \* what each request is doing

orderVars == <<status, buyer, lines, redeemed, failedOnce>>
couponVars == <<active, limit>>
vars == <<cart, onSale, orderVars, couponVars, task>>

Status == {"NONE", "PENDING", "PAID", "FAILED", "REFUNDED"}
HoldsOncePaid == {"PAID"}                          \* mutant: an open checkout holds no use
HOLDING_STATUSES == {"PENDING", "PAID"}
PAYABLE_STATUSES == {"PENDING", "FAILED"}

Task == [pc : {"idle", "add", "price", "create"}, buyer : Buyer \union {None},
         lines : SUBSET Product, coupon : BOOLEAN]
Idle == [pc |-> "idle", buyer |-> None, lines |-> {}, coupon |-> FALSE]

\* An order that exists has a buyer and sells something.
TypeOK ==
    /\ cart \in [Buyer -> SUBSET Product]
    /\ onSale \subseteq Product
    /\ status \in [Order -> Status]
    /\ buyer \in [Order -> Buyer \union {None}]
    /\ lines \in [Order -> SUBSET Product]
    /\ \A o \in Order : status[o] # "NONE" => buyer[o] \in Buyer /\ lines[o] # {}
    /\ redeemed \subseteq Order
    /\ failedOnce \subseteq Order
    /\ active \in BOOLEAN
    /\ limit \in Limits
    /\ task \in [Handler -> Task]

Init ==
    /\ cart = [b \in Buyer |-> {}]
    /\ onSale = Product
    /\ status = [o \in Order |-> "NONE"]
    /\ buyer = [o \in Order |-> None]
    /\ lines = [o \in Order |-> {}]
    /\ redeemed = {}
    /\ failedOnce = {}
    /\ active = TRUE
    /\ limit \in Limits
    /\ task = [h \in Handler |-> Idle]

-----------------------------------------------------------------------------

Goto(h, t) == task' = [task EXCEPT ![h] = t]
Done(h) == Goto(h, Idle)
IsIdle(h) == task[h] = Idle
At(h, pc) == task[h].pc = pc

(* The cart.  Every answer is CartService.get, which drops what is off sale. *)

SetCart(b, items) == cart' = [cart EXCEPT ![b] = items \intersect onSale]

Owns(b, p) == \E o \in Order : buyer[o] = b /\ status[o] = "PAID" /\ p \in lines[o]

\* addItem checks the product and the buyer's library ...
CheckItem(h, b, p) ==
    /\ IsIdle(h)
    /\ p \in onSale
    /\ ~Owns(b, p)
    /\ Goto(h, [Idle EXCEPT !.pc = "add", !.buyer = b, !.lines = {p}])
    /\ UNCHANGED <<cart, onSale, orderVars, couponVars>>

\* ... and then puts it into the cart.
PutItem(h) ==
    /\ At(h, "add")
    /\ SetCart(task[h].buyer, cart[task[h].buyer] \union task[h].lines)
    /\ Done(h)
    /\ UNCHANGED <<onSale, orderVars, couponVars>>

RemoveItem(b, p) ==
    /\ p \in cart[b]
    /\ SetCart(b, cart[b] \ {p})
    /\ UNCHANGED <<onSale, orderVars, couponVars, task>>

ViewCart(b) ==
    /\ ~ cart[b] \subseteq onSale
    /\ SetCart(b, cart[b])
    /\ UNCHANGED <<onSale, orderVars, couponVars, task>>

ClearCart(b) ==
    /\ cart[b] # {}
    /\ SetCart(b, {})
    /\ UNCHANGED <<onSale, orderVars, couponVars, task>>

-----------------------------------------------------------------------------
(* Checkout.                                                               *)

\* mutant: an empty cart is checked out.
ReadEmptyCart(h, b) ==
    /\ IsIdle(h)
    /\ SetCart(b, cart[b])
    /\ \E coupon \in BOOLEAN :
          Goto(h, [pc |-> "price", buyer |-> b, lines |-> cart[b] \intersect onSale,
                   coupon |-> coupon])
    /\ UNCHANGED <<onSale, orderVars, couponVars>>

\* The cart is read on a connection of its own, before the transaction's first query.
ReadCart(h, b) ==
    /\ IsIdle(h)
    /\ cart[b] \intersect onSale # {}
    /\ SetCart(b, cart[b])
    /\ \E coupon \in BOOLEAN :
          Goto(h, [pc |-> "price", buyer |-> b, lines |-> cart[b] \intersect onSale,
                   coupon |-> coupon])
    /\ UNCHANGED <<onSale, orderVars, couponVars>>

NeverLocked == FALSE                               \* mutant: no FOR UPDATE
\* The coupon's row is locked from its quote to the end of the transaction.
Locked == \E h \in Handler : At(h, "create") /\ task[h].coupon

Holding == {o \in redeemed : status[o] \in HOLDING_STATUSES}
HeldBy(b) == {o \in Holding : buyer[o] = b}

\* quote, in the order of its tests, for a coupon that applies to the cart.
MayRedeem(b) ==
    /\ active
    /\ limit # None => Cardinality(Holding) < limit
    /\ Cardinality(HeldBy(b)) < PerBuyerLimit

\* Prices the lines; every one must still be on sale, and the coupon must be usable.
Price(h) ==
    LET t == task[h]
        refused == ~ t.lines \subseteq onSale \/ (t.coupon /\ ~MayRedeem(t.buyer))
    IN  /\ At(h, "price")
        /\ t.coupon /\ t.lines \subseteq onSale => ~Locked
        /\ IF refused THEN Done(h) ELSE Goto(h, [t EXCEPT !.pc = "create"])
        /\ UNCHANGED <<cart, onSale, orderVars, couponVars>>

\* Writes the order, its items and the redemption, and commits.
CreateOrder(h, o) ==
    LET t == task[h]
    IN  /\ At(h, "create")
        /\ status[o] = "NONE"
        /\ status' = [status EXCEPT ![o] = "PENDING"]
        /\ buyer' = [buyer EXCEPT ![o] = t.buyer]
        /\ lines' = [lines EXCEPT ![o] = t.lines]
        /\ redeemed' = redeemed \union (IF t.coupon THEN {o} ELSE {})
        /\ Done(h)
        /\ UNCHANGED <<cart, onSale, failedOnce, couponVars>>

\* An error before the commit rolls the transaction back.
TaskFails(h) ==
    /\ ~IsIdle(h)
    /\ Done(h)
    /\ UNCHANGED <<cart, onSale, orderVars, couponVars>>

-----------------------------------------------------------------------------
(* What becomes of the order, and the admins.                              *)

\* markPaid also takes the purchased products out of the buyer's cart.
MarkPaid(o) ==
    /\ status[o] \in PAYABLE_STATUSES
    /\ status' = [status EXCEPT ![o] = "PAID"]
    /\ cart' = [cart EXCEPT ![buyer[o]] = @ \ lines[o]]
    /\ UNCHANGED <<onSale, buyer, lines, redeemed, failedOnce, couponVars, task>>

MarkFailed(o) ==
    /\ status[o] = "PENDING"
    /\ status' = [status EXCEPT ![o] = "FAILED"]
    /\ failedOnce' = failedOnce \union {o}
    /\ UNCHANGED <<cart, onSale, buyer, lines, redeemed, couponVars, task>>

MarkRefunded(o) ==
    /\ status[o] = "PAID"
    /\ status' = [status EXCEPT ![o] = "REFUNDED"]
    /\ UNCHANGED <<cart, onSale, buyer, lines, redeemed, failedOnce, couponVars, task>>

\* The owner changes the coupon: an update of the row, which waits for its lock.
UpdateCoupon ==
    /\ ~Locked
    /\ active' \in BOOLEAN
    /\ limit' \in Limits
    /\ UNCHANGED <<cart, onSale, orderVars, task>>

\* Its startsAt or endsAt passes, without a lock.
TimePasses ==
    /\ active' = ~active
    /\ UNCHANGED <<cart, onSale, orderVars, limit, task>>

\* A product is blocked or unpublished, or comes back.
SaleChanges(p) ==
    /\ onSale' = IF p \in onSale THEN onSale \ {p} ELSE onSale \union {p}
    /\ UNCHANGED <<cart, orderVars, couponVars, task>>

Next ==
    \/ \E h \in Handler, b \in Buyer : ReadCart(h, b) \/ \E p \in Product : CheckItem(h, b, p)
    \/ \E h \in Handler : PutItem(h) \/ Price(h) \/ TaskFails(h)
    \/ \E h \in Handler, o \in Order : CreateOrder(h, o)
    \/ \E b \in Buyer : ViewCart(b) \/ ClearCart(b) \/ \E p \in Product : RemoveItem(b, p)
    \/ \E o \in Order : MarkPaid(o) \/ MarkFailed(o) \/ MarkRefunded(o)
    \/ \E p \in Product : SaleChanges(p)
    \/ UpdateCoupon
    \/ TimePasses

Spec == Init /\ [][Next]_vars

-----------------------------------------------------------------------------
(* Safety.                                                                 *)

\* Redemptions of orders that are open or paid and were never given up on.
Standing == {o \in redeemed : status[o] \in {"PENDING", "PAID"} /\ o \notin failedOnce}

\* Two buyers, or two tabs of one, cannot both take the last use: when a redemption is
\* written, those that stand, itself included, are within the coupon's limit and the
\* buyer's, although orders are paid, failed and refunded while the checkout is open.
RedeemedWithinLimits ==
    [][\A o \in redeemed' \ redeemed :
          /\ limit # None => Cardinality(Standing') <= limit
          /\ Cardinality({x \in Standing' : buyer'[x] = buyer'[o]}) <= PerBuyerLimit]_vars

=============================================================================
