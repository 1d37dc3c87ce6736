--------------------------- MODULE CouponsProofs ---------------------------
(***************************************************************************)
(* The use of a coupon is not oversold, for any number of buyers, orders,  *)
(* products and concurrent checkouts, and any limits; and the types of     *)
(* coupons and prices side by side.                                        *)
(***************************************************************************)
EXTENDS MCCoupons, PricesProofs

StandingOf(b) == {o \in Standing : buyer[o] = b}

\* Another redemption of b would be within the limits.
Room(b) ==
    /\ limit # None => Cardinality(Standing) < limit
    /\ Cardinality(StandingOf(b)) < PerBuyerLimit

\* What a row says of its past.
RowFacts ==
    /\ \A o \in redeemed : status[o] # "NONE"
    /\ \A o \in Order : status[o] = "FAILED" => o \in failedOnce

\* What a request under way has read.
TaskFacts ==
    \A h \in Handler :
        /\ task[h].pc # "idle" => task[h].buyer \in Buyer
        /\ task[h].pc \in {"price", "create"} => task[h].lines # {}

HoldsLock(h) == task[h].pc = "create" /\ task[h].coupon

\* One transaction holds the coupon's row, and the use it counted is still there.
LockFacts ==
    /\ \A g, h \in Handler : HoldsLock(g) /\ HoldsLock(h) => g = h
    /\ \A h \in Handler : HoldsLock(h) => Room(task[h].buyer)

\* The inductive invariant.
Inv == TypeOK /\ RowFacts /\ TaskFacts /\ LockFacts

-----------------------------------------------------------------------------

\* A set of orders and its subsets are finite, and a subset is no larger.
LEMMA SubsetSize ==
    ASSUME NEW S \in SUBSET Order, NEW R \in SUBSET S
    PROVE  /\ IsFiniteSet(R)
           /\ Cardinality(S) \in Nat /\ Cardinality(R) \in Nat
           /\ Cardinality(R) <= Cardinality(S)
<1>1. IsFiniteSet(S)
  BY CouponsAssumption, FS_Subset
<1>2. IsFiniteSet(R) /\ Cardinality(R) <= Cardinality(S)
  BY <1>1, FS_Subset
<1> QED
  BY <1>1, <1>2, FS_CardinalityType

\* One order more is at most one more to count.
LEMMA OneMore ==
    ASSUME NEW S \in SUBSET Order, NEW o \in Order
    PROVE  Cardinality(S \union {o}) \in Nat /\ Cardinality(S \union {o}) <= Cardinality(S) + 1
<1>1. IsFiniteSet(S) /\ Cardinality(S) \in Nat
  BY SubsetSize
<1>2. IsFiniteSet(S \union {o})
        /\ Cardinality(S \union {o}) = IF o \in S THEN Cardinality(S) ELSE Cardinality(S) + 1
  BY <1>1, FS_AddElement
<1> QED
  BY <1>1, <1>2

\* There is room for a redemption as long as no other one is written.
LEMMA RoomStays ==
    ASSUME TypeOK, NEW b, Room(b), limit' = limit,
           Standing' \subseteq Standing,
           \A o \in Standing' : buyer'[o] = buyer[o]
    PROVE  Room(b)'
<1>1. Standing \in SUBSET Order /\ StandingOf(b) \in SUBSET Order
  BY DEF Standing, StandingOf, TypeOK
<1>2. Standing' \in SUBSET Standing /\ StandingOf(b)' \in SUBSET StandingOf(b)
  BY DEF StandingOf
<1>3. /\ Cardinality(Standing) \in Nat /\ Cardinality(Standing') \in Nat
      /\ Cardinality(Standing') <= Cardinality(Standing)
  BY <1>1, <1>2, SubsetSize
<1>4. /\ Cardinality(StandingOf(b)) \in Nat /\ Cardinality(StandingOf(b)') \in Nat
      /\ Cardinality(StandingOf(b)') <= Cardinality(StandingOf(b))
  BY <1>1, <1>2, SubsetSize
<1>5. limit # None => limit \in Nat
  BY CouponsAssumption DEF TypeOK
<1>6. PerBuyerLimit \in Nat
  BY CouponsAssumption
<1>7. limit' # None => Cardinality(Standing') < limit'
  BY <1>3, <1>5 DEF Room
<1>8. Cardinality(StandingOf(b)') < PerBuyerLimit
  BY <1>4, <1>6 DEF Room
<1> QED
  BY <1>7, <1>8 DEF Room, StandingOf

\* The quote finds room: what holds a use includes what stands.
LEMMA QuoteFindsRoom ==
    ASSUME TypeOK, NEW b, MayRedeem(b)
    PROVE  Room(b)
<1>1. Standing \in SUBSET Holding /\ StandingOf(b) \in SUBSET HeldBy(b)
  BY DEF Standing, Holding, StandingOf, HeldBy, HOLDING_STATUSES
<1>2. Holding \in SUBSET Order /\ HeldBy(b) \in SUBSET Order
  BY DEF Holding, HeldBy, TypeOK
<1>3. /\ Cardinality(Holding) \in Nat /\ Cardinality(Standing) \in Nat
      /\ Cardinality(Standing) <= Cardinality(Holding)
      /\ Cardinality(HeldBy(b)) \in Nat /\ Cardinality(StandingOf(b)) \in Nat
      /\ Cardinality(StandingOf(b)) <= Cardinality(HeldBy(b))
  BY <1>1, <1>2, SubsetSize
<1>4. (limit # None => limit \in Nat) /\ PerBuyerLimit \in Nat
  BY CouponsAssumption DEF TypeOK
<1>5. limit # None => Cardinality(Standing) < limit
  BY <1>3, <1>4 DEF MayRedeem
<1>6. Cardinality(StandingOf(b)) < PerBuyerLimit
  BY <1>3, <1>4 DEF MayRedeem
<1> QED
  BY <1>5, <1>6 DEF Room

\* A step that writes no order and takes no lock keeps the lock's facts.
LEMMA LockStays ==
    ASSUME Inv, limit' = limit,
           \A g \in Handler : HoldsLock(g)' => HoldsLock(g) /\ task'[g] = task[g],
           Standing' \subseteq Standing,
           \A o \in Standing' : buyer'[o] = buyer[o]
    PROVE  LockFacts'
BY RoomStays DEF Inv, LockFacts

\* A request that starts, goes on or ends leaves the others where they are.
LEMMA Moved ==
    ASSUME TypeOK, NEW h \in Handler, NEW t \in Task, Goto(h, t)
    PROVE  /\ task' \in [Handler -> Task]
           /\ task'[h] = t
           /\ \A g \in Handler \ {h} : task'[g] = task[g]
BY DEF TypeOK, Goto

\* An idle request is a request.
LEMMA IdleTask == Idle \in Task /\ Idle.pc = "idle"
BY DEF Idle, Task

\* A request ends.
LEMMA MovedIdle ==
    ASSUME TypeOK, NEW h \in Handler, Goto(h, Idle)
    PROVE  /\ task' \in [Handler -> Task]
           /\ task'[h].pc = "idle"
           /\ \A g \in Handler \ {h} : task'[g] = task[g]
BY IdleTask, Moved

\* What get leaves of a cart is a cart.
LEMMA CartTyped ==
    ASSUME TypeOK, NEW b \in Buyer, NEW items \in SUBSET Product, SetCart(b, items)
    PROVE  cart' \in [Buyer -> SUBSET Product]
BY DEF TypeOK, SetCart

-----------------------------------------------------------------------------

\* addItem starts.
LEMMA CheckItemStep ==
    ASSUME Inv, NEW h \in Handler, NEW b \in Buyer, NEW p \in Product, CheckItem(h, b, p)
    PROVE  Inv'
<1> DEFINE t == [Idle EXCEPT !.pc = "add", !.buyer = b, !.lines = {p}]
<1>1. t \in Task /\ t.pc = "add" /\ t.buyer = b
  BY DEF Idle, Task
<1>2. Goto(h, t) /\ TypeOK
  BY DEF CheckItem, Inv
<1> HIDE DEF t
<1>3. /\ task' \in [Handler -> Task] /\ task'[h] = t
      /\ \A g \in Handler \ {h} : task'[g] = task[g]
  BY <1>1, <1>2, Moved
<1>4. UNCHANGED <<cart, onSale, orderVars, couponVars>>
  BY DEF CheckItem
<1>5. TypeOK' /\ RowFacts'
  BY <1>3, <1>4 DEF Inv, TypeOK, RowFacts, orderVars, couponVars
<1>6. TaskFacts'
  BY <1>1, <1>3 DEF Inv, TaskFacts
<1>7. LockFacts'
  BY <1>1, <1>3, <1>4, LockStays DEF HoldsLock, Standing, orderVars, couponVars
<1> QED
  BY <1>5, <1>6, <1>7 DEF Inv

\* addItem fills a cart and ends.
LEMMA PutItemStep == ASSUME Inv, NEW h \in Handler, PutItem(h) PROVE Inv'
<1>1. TypeOK /\ Goto(h, Idle)
  BY DEF PutItem, Done, Inv
<1>2. /\ task' \in [Handler -> Task] /\ task'[h].pc = "idle"
      /\ \A g \in Handler \ {h} : task'[g] = task[g]
  BY <1>1, MovedIdle
<1>3. task[h] \in Task /\ task[h].buyer \in Buyer
  BY DEF PutItem, At, Inv, TaskFacts, TypeOK
<1>4. cart[task[h].buyer] \union task[h].lines \in SUBSET Product
  BY <1>1, <1>3 DEF TypeOK, Task
<1>5. cart' \in [Buyer -> SUBSET Product]
  BY <1>1, <1>3, <1>4, CartTyped DEF PutItem
<1>6. UNCHANGED <<onSale, orderVars, couponVars>>
  BY DEF PutItem
<1>7. TypeOK' /\ RowFacts'
  BY <1>2, <1>5, <1>6 DEF Inv, TypeOK, RowFacts, orderVars, couponVars
<1>8. TaskFacts'
  BY <1>2 DEF Inv, TaskFacts
<1>9. LockFacts'
  BY <1>2, <1>6, LockStays DEF HoldsLock, Standing, orderVars, couponVars
<1> QED
  BY <1>7, <1>8, <1>9 DEF Inv

\* A checkout starts with the lines it read.
LEMMA ReadCartStep ==
    ASSUME Inv, NEW h \in Handler, NEW b \in Buyer, ReadCart(h, b) PROVE Inv'
<1>1. PICK c \in BOOLEAN :
         Goto(h, [pc |-> "price", buyer |-> b, lines |-> cart[b] \intersect onSale, coupon |-> c])
  BY DEF ReadCart
<1> DEFINE t == [pc |-> "price", buyer |-> b, lines |-> cart[b] \intersect onSale, coupon |-> c]
<1>2. t \in Task /\ t.pc = "price" /\ t.buyer = b /\ t.lines = cart[b] \intersect onSale
  BY DEF Task, Inv, TypeOK
<1>3. Goto(h, t) /\ TypeOK
  BY <1>1 DEF Inv
<1> HIDE DEF t
<1>4. /\ task' \in [Handler -> Task] /\ task'[h] = t
      /\ \A g \in Handler \ {h} : task'[g] = task[g]
  BY <1>2, <1>3, Moved
<1>5. cart' \in [Buyer -> SUBSET Product]
  BY <1>3, CartTyped DEF ReadCart, TypeOK
<1>6. UNCHANGED <<onSale, orderVars, couponVars>> /\ cart[b] \intersect onSale # {}
  BY DEF ReadCart
<1>7. TypeOK' /\ RowFacts'
  BY <1>4, <1>5, <1>6 DEF Inv, TypeOK, RowFacts, orderVars, couponVars
<1>8. TaskFacts'
  BY <1>2, <1>4, <1>6 DEF Inv, TaskFacts
<1>9. LockFacts'
  BY <1>2, <1>4, <1>6, LockStays DEF HoldsLock, Standing, orderVars, couponVars
<1> QED
  BY <1>7, <1>8, <1>9 DEF Inv

\* A quote refuses, or takes the lock with room to spare.
LEMMA PriceStep == ASSUME Inv, NEW h \in Handler, Price(h) PROVE Inv'
<1>1. TypeOK /\ task[h] \in Task /\ task[h].pc = "price" /\ task[h].buyer \in Buyer
        /\ task[h].lines # {}
  BY DEF Price, At, Inv, TypeOK, TaskFacts
<1>2. UNCHANGED <<cart, onSale, orderVars, couponVars>>
  BY DEF Price
<1>3. Standing' = Standing /\ limit' = limit /\ buyer' = buyer
  BY <1>2 DEF Standing, orderVars, couponVars
<1>4. CASE Goto(h, Idle)
  <2>1. /\ task' \in [Handler -> Task] /\ task'[h].pc = "idle"
        /\ \A g \in Handler \ {h} : task'[g] = task[g]
    BY <1>1, <1>4, MovedIdle
  <2>2. TypeOK' /\ RowFacts' /\ TaskFacts'
    BY <1>2, <2>1 DEF Inv, TypeOK, RowFacts, TaskFacts, orderVars, couponVars
  <2>3. LockFacts'
    BY <1>3, <2>1, LockStays DEF HoldsLock
  <2> QED
    BY <2>2, <2>3 DEF Inv
<1>5. CASE /\ Goto(h, [task[h] EXCEPT !.pc = "create"])
           /\ task[h].coupon => MayRedeem(task[h].buyer) /\ ~Locked
  <2> DEFINE t == [task[h] EXCEPT !.pc = "create"]
  <2>1. /\ t \in Task /\ t.pc = "create" /\ t.buyer = task[h].buyer
        /\ t.lines = task[h].lines /\ t.coupon = task[h].coupon
    BY <1>1 DEF Task
  <2>2. Goto(h, t)
    BY <1>5
  <2> HIDE DEF t
  <2>3. /\ task' \in [Handler -> Task] /\ task'[h] = t
        /\ \A g \in Handler \ {h} : task'[g] = task[g]
    BY <1>1, <2>1, <2>2, Moved
  <2>4. TypeOK' /\ RowFacts'
    BY <1>2, <2>3 DEF Inv, TypeOK, RowFacts, orderVars, couponVars
  <2>5. TaskFacts'
    BY <1>1, <2>1, <2>3 DEF Inv, TaskFacts
  <2>6. CASE task[h].coupon
    <3>1. \A g \in Handler \ {h} : ~HoldsLock(g)'
      BY <1>5, <2>3, <2>6 DEF Locked, HoldsLock, At
    <3>2. Room(task[h].buyer)
      BY <1>1, <1>5, <2>6, QuoteFindsRoom
    <3>3. PICK b \in Buyer : b = task[h].buyer
      BY <1>1
    <3>4. Room(b)'
      BY <1>1, <1>3, <3>2, <3>3, RoomStays
    <3>5. task'[h].buyer = b
      BY <2>1, <2>3, <3>3
    <3>6. \A g \in Handler : HoldsLock(g)' => g = h
      BY <3>1
    <3>7. LockFacts'
      BY <3>4, <3>5, <3>6 DEF LockFacts
    <3> QED
      BY <2>4, <2>5, <3>7 DEF Inv
  <2>7. CASE ~task[h].coupon
    <3>1. LockFacts'
      BY <1>3, <2>1, <2>3, <2>7, LockStays DEF HoldsLock
    <3> QED
      BY <2>4, <2>5, <3>1 DEF Inv
  <2> QED
    BY <1>1, <2>6, <2>7 DEF Task
<1> QED
  BY <1>4, <1>5 DEF Price, Done

\* The commit writes one order and gives the lock back.
LEMMA CreateOrderStep ==
    ASSUME Inv, NEW h \in Handler, NEW o \in Order, CreateOrder(h, o) PROVE Inv'
<1>1. /\ TypeOK /\ task[h] \in Task /\ task[h].pc = "create" /\ task[h].buyer \in Buyer
      /\ task[h].lines # {}
  BY DEF CreateOrder, At, Inv, TypeOK, TaskFacts
<1>2. /\ status[o] = "NONE" /\ o \notin redeemed
      /\ status' = [status EXCEPT ![o] = "PENDING"]
      /\ buyer' = [buyer EXCEPT ![o] = task[h].buyer]
      /\ lines' = [lines EXCEPT ![o] = task[h].lines]
      /\ redeemed' = redeemed \union (IF task[h].coupon THEN {o} ELSE {})
      /\ Goto(h, Idle)
      /\ UNCHANGED <<cart, onSale, failedOnce, couponVars>>
  BY DEF CreateOrder, Done, Inv, RowFacts
<1>3. /\ task' \in [Handler -> Task] /\ task'[h].pc = "idle"
      /\ \A g \in Handler \ {h} : task'[g] = task[g]
  BY <1>1, <1>2, MovedIdle
<1>4. /\ status' \in [Order -> Status] /\ buyer' \in [Order -> Buyer \union {None}]
      /\ lines' \in [Order -> SUBSET Product] /\ redeemed' \subseteq Order
  BY <1>1, <1>2 DEF TypeOK, Status, Task
<1>5. \A x \in Order : status'[x] # "NONE" => buyer'[x] \in Buyer /\ lines'[x] # {}
  BY <1>1, <1>2 DEF TypeOK
<1>6. TypeOK'
  BY <1>1, <1>2, <1>3, <1>4, <1>5 DEF TypeOK, couponVars
<1>7. RowFacts' /\ TaskFacts'
  BY <1>1, <1>2, <1>3 DEF Inv, TypeOK, RowFacts, TaskFacts
<1>8. CASE task[h].coupon
  <2>1. \A g \in Handler : ~HoldsLock(g)'
    BY <1>1, <1>3, <1>8 DEF Inv, LockFacts, HoldsLock
  <2> QED
    BY <1>6, <1>7, <2>1 DEF Inv, LockFacts
<1>9. CASE ~task[h].coupon
  <2>1. Standing' = Standing
    BY <1>1, <1>2, <1>9 DEF Standing, TypeOK
  <2>2. \A x \in Standing' : buyer'[x] = buyer[x]
    BY <1>1, <1>2, <2>1 DEF Standing, TypeOK
  <2>3. LockFacts'
    BY <1>2, <1>3, <2>1, <2>2, LockStays DEF HoldsLock, couponVars
  <2> QED
    BY <1>6, <1>7, <2>3 DEF Inv
<1> QED
  BY <1>8, <1>9

\* A rollback gives the lock back.
LEMMA TaskFailsStep == ASSUME Inv, NEW h \in Handler, TaskFails(h) PROVE Inv'
<1>1. TypeOK /\ Goto(h, Idle) /\ UNCHANGED <<cart, onSale, orderVars, couponVars>>
  BY DEF TaskFails, Done, Inv
<1>2. /\ task' \in [Handler -> Task] /\ task'[h].pc = "idle"
      /\ \A g \in Handler \ {h} : task'[g] = task[g]
  BY <1>1, MovedIdle
<1>3. TypeOK' /\ RowFacts' /\ TaskFacts'
  BY <1>1, <1>2 DEF Inv, TypeOK, RowFacts, TaskFacts, orderVars, couponVars
<1>4. LockFacts'
  BY <1>1, <1>2, LockStays DEF HoldsLock, Standing, orderVars, couponVars
<1> QED
  BY <1>3, <1>4 DEF Inv

\* Orders move: a failed one that is paid does not stand again.
LEMMA OrderMoves ==
    ASSUME Inv, NEW o \in Order, MarkPaid(o) \/ MarkFailed(o) \/ MarkRefunded(o)
    PROVE  Inv'
<1>1. status[o] # "NONE" /\ buyer[o] \in Buyer /\ o \in Order
  BY DEF MarkPaid, MarkFailed, MarkRefunded, PAYABLE_STATUSES, Inv, TypeOK
<1>2. cart' \in [Buyer -> SUBSET Product]
  BY <1>1 DEF MarkPaid, MarkFailed, MarkRefunded, Inv, TypeOK
<1>3. UNCHANGED <<onSale, buyer, lines, redeemed, couponVars, task>>
  BY DEF MarkPaid, MarkFailed, MarkRefunded
<1>4. /\ status' \in [Order -> Status]
      /\ failedOnce' \subseteq Order
      /\ \A x \in Order : status'[x] # "NONE" <=> status[x] # "NONE"
      /\ \A x \in Order : status'[x] = "FAILED" => x \in failedOnce'
  BY <1>1 DEF MarkPaid, MarkFailed, MarkRefunded, Inv, TypeOK, RowFacts, Status
<1>5. TypeOK' /\ RowFacts' /\ TaskFacts'
  BY <1>2, <1>3, <1>4 DEF Inv, TypeOK, RowFacts, TaskFacts, couponVars
<1>6. Standing' \subseteq Standing
  BY <1>3 DEF MarkPaid, MarkFailed, MarkRefunded, PAYABLE_STATUSES, Standing, Inv, TypeOK, RowFacts
<1>7. LockFacts'
  BY <1>3, <1>6, LockStays DEF HoldsLock, couponVars
<1> QED
  BY <1>5, <1>7 DEF Inv

\* The owner's update waits for the lock.
LEMMA UpdateCouponStep == ASSUME Inv, UpdateCoupon PROVE Inv'
<1>1. UNCHANGED <<cart, onSale, orderVars, task>> /\ active' \in BOOLEAN /\ limit' \in Limits
  BY DEF UpdateCoupon
<1>2. TypeOK' /\ RowFacts' /\ TaskFacts'
  BY <1>1 DEF Inv, TypeOK, RowFacts, TaskFacts, orderVars
<1>3. \A g \in Handler : ~HoldsLock(g)'
  BY <1>1 DEF UpdateCoupon, Locked, At, HoldsLock
<1> QED
  BY <1>2, <1>3 DEF Inv, LockFacts

\* Carts, sales and time leave orders, limits and requests alone.
LEMMA QuietStep ==
    ASSUME Inv, UNCHANGED <<orderVars, limit, task>>,
           cart' \in [Buyer -> SUBSET Product], onSale' \subseteq Product, active' \in BOOLEAN
    PROVE  Inv'
<1>1. TypeOK' /\ RowFacts' /\ TaskFacts'
  BY DEF Inv, TypeOK, RowFacts, TaskFacts, orderVars
<1>2. LockFacts'
  BY LockStays DEF HoldsLock, Standing, orderVars
<1> QED
  BY <1>1, <1>2 DEF Inv

\* Every step keeps the invariant.
LEMMA NextStep == ASSUME Inv, [Next]_vars PROVE Inv'
<1>1. ASSUME NEW b \in Buyer, ViewCart(b) \/ ClearCart(b) \/ \E p \in Product : RemoveItem(b, p)
            PROVE Inv'
  <2>1. \E items \in SUBSET Product : SetCart(b, items)
    BY <1>1 DEF ViewCart, ClearCart, RemoveItem, Inv, TypeOK
  <2>2. cart' \in [Buyer -> SUBSET Product]
    BY <2>1, CartTyped DEF Inv
  <2> QED
    BY <1>1, <2>2, QuietStep DEF ViewCart, ClearCart, RemoveItem, couponVars, Inv, TypeOK
<1>2. ASSUME NEW p \in Product, SaleChanges(p) PROVE Inv'
  <2>1. onSale' \subseteq Product
    BY <1>2 DEF SaleChanges, Inv, TypeOK
  <2> QED
    BY <1>2, <2>1, QuietStep DEF SaleChanges, couponVars, Inv, TypeOK
<1>3. ASSUME TimePasses PROVE Inv'
  <2>1. active' \in BOOLEAN
    BY <1>3, Zenon DEF TimePasses, Inv, TypeOK
  <2> QED
    BY <1>3, <2>1, QuietStep DEF TimePasses, Inv, TypeOK
<1>4. ASSUME UNCHANGED vars PROVE Inv'
  BY <1>4, QuietStep DEF vars, couponVars, Inv, TypeOK
<1> QED
  BY <1>1, <1>2, <1>3, <1>4, CheckItemStep, PutItemStep, ReadCartStep, PriceStep,
     CreateOrderStep, TaskFailsStep, OrderMoves, UpdateCouponStep DEF Next

\* It holds at the start.
LEMMA InvInit == Init => Inv
<1> SUFFICES ASSUME Init PROVE Inv
  OBVIOUS
<1>1. TypeOK
  BY IdleTask DEF Init, TypeOK, Status
<1>2. RowFacts /\ TaskFacts /\ LockFacts
  BY IdleTask DEF Init, RowFacts, TaskFacts, LockFacts, HoldsLock
<1> QED
  BY <1>1, <1>2 DEF Inv

\* It holds in every reachable state.
LEMMA InvCorrect == Spec => []Inv
BY InvInit, NextStep, PTL DEF Spec

-----------------------------------------------------------------------------

\* Every variable keeps its type, and an order that exists has a buyer and lines: an
\* empty cart is never checked out, whatever goes off sale meanwhile.
THEOREM CouponTypes == Spec => []TypeOK
<1>1. Inv => TypeOK
  BY DEF Inv
<1> QED
  BY <1>1, InvCorrect, PTL

\* A redemption is written by the transaction that holds the lock, for its own order.
LEMMA RedeemedByHolder ==
    ASSUME Inv, Next, NEW o \in redeemed' \ redeemed
    PROVE  \E h \in Handler : CreateOrder(h, o) /\ task[h].coupon
<1>1. redeemed' # redeemed
  OBVIOUS
<1>2. PICK h \in Handler, x \in Order : CreateOrder(h, x)
  BY <1>1 DEF Next, CheckItem, PutItem, RemoveItem, ViewCart, ClearCart, ReadCart, Price, TaskFails,
     MarkPaid, MarkFailed, MarkRefunded, UpdateCoupon, TimePasses, SaleChanges, orderVars
<1>3. redeemed' = redeemed \union (IF task[h].coupon THEN {x} ELSE {})
  BY <1>2 DEF CreateOrder
<1>4. task[h].coupon /\ o = x
  BY <1>3
<1> QED
  BY <1>2, <1>4

\* The room the quote found is there when the redemption is written.
LEMMA HolderRedeems ==
    ASSUME Inv, NEW h \in Handler, NEW o \in Order, CreateOrder(h, o), task[h].coupon
    PROVE  /\ limit # None => Cardinality(Standing') <= limit
           /\ Cardinality({x \in Standing' : buyer'[x] = buyer'[o]}) <= PerBuyerLimit
<1>1. TypeOK /\ task[h].buyer \in Buyer /\ Room(task[h].buyer)
  BY DEF CreateOrder, At, Inv, TypeOK, TaskFacts, LockFacts, HoldsLock
<1>2. PICK b \in Buyer : b = task[h].buyer
  BY <1>1
<1>3. Standing \in SUBSET Order /\ StandingOf(b) \in SUBSET Order
  BY <1>1 DEF Standing, StandingOf, TypeOK
<1>4. /\ status' = [status EXCEPT ![o] = "PENDING"] /\ failedOnce' = failedOnce
      /\ buyer' = [buyer EXCEPT ![o] = b]
      /\ redeemed' = redeemed \union {o}
  BY <1>2 DEF CreateOrder
<1>5. Standing' \in SUBSET (Standing \union {o})
  BY <1>1, <1>4 DEF Standing, TypeOK
<1>6. {x \in Standing' : buyer'[x] = buyer'[o]} \in SUBSET (StandingOf(b) \union {o})
  BY <1>1, <1>3, <1>4, <1>5 DEF StandingOf, TypeOK
<1>7. /\ Cardinality(Standing') <= Cardinality(Standing) + 1
      /\ Cardinality(Standing') \in Nat /\ Cardinality(Standing) \in Nat
  <2>1. Standing \union {o} \in SUBSET Order
    BY <1>3
  <2>2. /\ Cardinality(Standing') <= Cardinality(Standing \union {o})
        /\ Cardinality(Standing') \in Nat
    BY <1>5, <2>1, SubsetSize
  <2>3. /\ Cardinality(Standing \union {o}) \in Nat
        /\ Cardinality(Standing \union {o}) <= Cardinality(Standing) + 1
    BY <1>3, OneMore
  <2>4. Cardinality(Standing) \in Nat
    BY <1>3, SubsetSize
  <2> QED
    BY <2>2, <2>3, <2>4
<1> DEFINE mine == {x \in Standing' : buyer'[x] = buyer'[o]}
<1>8. /\ Cardinality(mine) <= Cardinality(StandingOf(b)) + 1
      /\ Cardinality(mine) \in Nat /\ Cardinality(StandingOf(b)) \in Nat
  <2> HIDE DEF mine
  <2>1. StandingOf(b) \union {o} \in SUBSET Order
    BY <1>3
  <2>2. /\ Cardinality(mine) <= Cardinality(StandingOf(b) \union {o})
        /\ Cardinality(mine) \in Nat
    BY <1>6, <2>1, SubsetSize DEF mine
  <2>3. /\ Cardinality(StandingOf(b) \union {o}) \in Nat
        /\ Cardinality(StandingOf(b) \union {o}) <= Cardinality(StandingOf(b)) + 1
    BY <1>3, OneMore
  <2>4. Cardinality(StandingOf(b)) \in Nat
    BY <1>3, SubsetSize
  <2> QED
    BY <2>2, <2>3, <2>4
<1>9. (limit # None => limit \in Nat) /\ PerBuyerLimit \in Nat
  BY <1>1, CouponsAssumption DEF TypeOK
<1>10. Room(b)
  BY <1>1, <1>2
<1>11. limit # None => Cardinality(Standing) < limit
  BY <1>10 DEF Room
<1>12. Cardinality(StandingOf(b)) < PerBuyerLimit
  BY <1>10 DEF Room
<1>13. limit # None => Cardinality(Standing') <= limit
  BY <1>7, <1>9, <1>11
<1>14. Cardinality(mine) <= PerBuyerLimit
  <2> HIDE DEF mine
  <2> QED
    BY <1>8, <1>9, <1>12
<1> QED
  BY <1>13, <1>14

\* The lock of the coupon's row: whatever else happens, a redemption is within the
\* coupon's limit and its buyer's when it is written, as long as no failed order came back.
THEOREM NotOversold == Spec => RedeemedWithinLimits
<1>1. Inv /\ [Next]_vars =>
        [\A o \in redeemed' \ redeemed :
            /\ limit # None => Cardinality(Standing') <= limit
            /\ Cardinality({x \in Standing' : buyer'[x] = buyer'[o]}) <= PerBuyerLimit]_vars
  <2> SUFFICES ASSUME Inv, Next, NEW o \in redeemed' \ redeemed
               PROVE  /\ limit # None => Cardinality(Standing') <= limit
                      /\ Cardinality({x \in Standing' : buyer'[x] = buyer'[o]}) <= PerBuyerLimit
    BY DEF vars, orderVars
  <2>1. PICK h \in Handler : CreateOrder(h, o) /\ task[h].coupon
    BY RedeemedByHolder
  <2>2. o \in Order
    BY NextStep DEF Inv, TypeOK
  <2> QED
    BY <2>1, <2>2, HolderRedeems
<1> QED
  BY <1>1, InvCorrect, PTL DEF Spec, RedeemedWithinLimits

-----------------------------------------------------------------------------
\* Side by side, coupons and prices keep their types: no order of a checkout is
\* created without a buyer and lines, and no request prices a product with a fee
\* that was never in force.
THEOREM SideBySideTypes == SideBySideSpec => []TypesOK
<1> DEFINE Both == Inv /\ PricesInv /\ PlacedInv
<1>1. SideBySideInit => Both
  BY InvInit, InitPrices, InitPlaced DEF SideBySideInit
<1>2. Both /\ [SideBySideNext]_allVars => Both'
  <2> SUFFICES ASSUME Inv, PricesInv, PlacedInv, [SideBySideNext]_allVars
               PROVE  Inv' /\ PricesInv' /\ PlacedInv'
    OBVIOUS
  <2>1. [Next]_vars /\ [PricesNext]_pricesVars
    BY DEF SideBySideNext, allVars
  <2> QED
    BY <2>1, NextStep, StepPrices, StepPlaced
<1>3. Both => TypesOK
  BY InvTypes DEF TypesOK, Inv
<1> QED
  BY <1>1, <1>2, <1>3, PTL DEF SideBySideSpec

=============================================================================
