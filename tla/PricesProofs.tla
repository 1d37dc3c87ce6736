---------------------------- MODULE PricesProofs ----------------------------
(***************************************************************************)
(* Prices for all amounts, fees, commissions and overlapping edits: what   *)
(* is listed leaves the seller's own price after a fee that was in force,  *)
(* the parts of a line add up with any coupon, and a coupon gives what it  *)
(* promises, on orders of any number of lines.                             *)
(***************************************************************************)
EXTENDS Prices, SetSums

\* The rows, the cache and the requests, without the order.
PriceTypes ==
    /\ fee \in Fees
    /\ feesSeen \subseteq Fees
    /\ fee \in feesSeen
    /\ cache \in feesSeen \union {Unset}
    /\ base \in [Article -> Nat \union {Unset}]
    /\ price \in [Article -> Nat]
    /\ asked \in [Article -> Nat]
    /\ edit \in [Editor -> Edit]
    /\ \A e \in Editor : edit[e].pc \in {"fill", "write"} => edit[e].fee \in feesSeen

\* What sellers asked for is what repricing starts from.
AskedIsOwn == \A a \in Article : asked[a] = OwnPrice(a)

PricesInv == PriceTypes /\ AskedIsOwn /\ PricedAtSomeFee

-----------------------------------------------------------------------------
\* Arithmetic.

LEMMA Division ==
    ASSUME NEW n \in Nat, NEW d \in Nat \ {0}
    PROVE  /\ n \div d \in Nat
           /\ d * (n \div d) <= n
           /\ n < d * (n \div d) + d
BY SMT

\* Rounding up gives the least multiple that is not below.
LEMMA DivisionUp ==
    ASSUME NEW n \in Nat, NEW d \in Nat \ {0}
    PROVE  LET p == (n + d - 1) \div d IN
           /\ p \in Nat
           /\ p * d >= n
           /\ (p - 1) * d < n
<1> DEFINE q == (n + d - 1) \div d
<1>1. n + d - 1 \in Nat
  OBVIOUS
<1>2. q \in Nat /\ d * q <= n + d - 1 /\ n + d - 1 < d * q + d
  BY <1>1, Division
<1> HIDE DEF q
<1>3. d * q \in Nat /\ q * d = d * q /\ (q - 1) * d = d * q - d
  BY <1>2
<1>4. q * d >= n /\ (q - 1) * d < n
  BY <1>2, <1>3
<1> QED
  BY <1>2, <1>4 DEF q

\* listPriceCents: the least price that leaves b after fee f.
LEMMA ListPriceLeast ==
    ASSUME NEW b \in Nat, NEW f \in Fees
    PROVE  /\ ListPrice(b, f) \in Nat
           /\ Leaves(ListPrice(b, f), b, f)
           /\ ListPrice(b, f) > 0 => ~ Leaves(ListPrice(b, f) - 1, b, f)
<1>1. f \in Nat /\ BPS - f \in Nat \ {0} /\ b * BPS \in Nat
  <2>1. f \in 0 .. 2000
    BY PricesAssumption DEF MAX_GATEWAY_FEE_BPS
  <2>2. f \in Nat /\ 10000 - f \in Nat \ {0}
    BY <2>1
  <2>3. b * 10000 \in Nat
    OBVIOUS
  <2> QED
    BY <2>2, <2>3 DEF BPS
<1> DEFINE n == b * BPS
           d == BPS - f
           p == (n + d - 1) \div d
<1>2. p \in Nat /\ p * d >= n /\ (p - 1) * d < n
  <2> HIDE DEF n, d
  <2>1. n \in Nat /\ d \in Nat \ {0}
    BY <1>1 DEF n, d
  <2> QED
    BY <2>1, DivisionUp
<1>3. ListPrice(b, f) = p
  BY <1>1 DEF ListPrice
<1>4. (p - 1) * d \in Int /\ n \in Int
  BY <1>1, <1>2
<1> QED
  BY <1>2, <1>3, <1>4 DEF Leaves

\* A price that leaves b is not below b.
LEMMA LeavesAbove ==
    ASSUME NEW p \in Nat, NEW b \in Nat, NEW f \in Fees, Leaves(p, b, f)
    PROVE  p >= b
<1>1. f \in 0 .. 2000
  BY PricesAssumption DEF MAX_GATEWAY_FEE_BPS
<1>2. p * (10000 - f) >= b * 10000
  BY DEF Leaves, BPS
<1>3. p * (10000 - f) <= p * 10000
  BY <1>1
<1> QED
  BY <1>1, <1>2, <1>3

\* calculateCommissionCents: a commission is a part of what it is taken from.
LEMMA CommissionIsPart ==
    ASSUME NEW g \in Nat, NEW r \in 0 .. BPS
    PROVE  Commission(g, r) \in 0 .. g
<1> DEFINE n == g * r + 5000
           c == n \div 10000
<1>1. r \in 0 .. 10000
  BY DEF BPS
<1>2. g * r \in Nat /\ g * r <= g * 10000
  BY <1>1
<1>3. n \in Nat
  BY <1>2
<1>4. c \in Nat /\ 10000 * c <= n
  <2> HIDE DEF n
  <2> QED
    BY <1>3, Division
<1>5. Commission(g, r) = c
  BY DEF Commission, BPS
<1> HIDE DEF c
<1>6. 10000 * c <= g * 10000 + 5000
  BY <1>2, <1>3, <1>4
<1>7. c <= g
  BY <1>4, <1>6
<1> QED
  BY <1>4, <1>5, <1>7

\* splitSaleWithFee: the buyer pays what provider, platform and seller get.
LEMMA SplitAddsUp ==
    ASSUME NEW p \in Nat, NEW b \in Nat, NEW r \in 0 .. BPS, p >= b
    PROVE  LET line == Split(p, b, r) IN
           /\ line.price = p /\ line.discount = 0
           /\ line.price = line.fee + line.commission + line.net
           /\ line.fee \in Nat /\ line.commission \in Nat /\ line.net \in Nat
<1>1. Commission(b, r) \in Nat /\ Commission(b, r) <= b
  BY CommissionIsPart
<1> QED
  BY <1>1 DEF Split

\* The discount comes out of the one side that pays it, and nothing else moves;
\* a line keeps a cent, and the seller does not pay to sell.
LEMMA DiscountAddsUp ==
    ASSUME NEW line \in Line, line.price > 0, line.discount = 0, line.net >= 0,
           line.price = line.fee + line.commission + line.net,
           NEW t \in Terms, NEW share \in Nat
    PROVE  LET after == Discounted(line, Capped(line, share, t), t) IN
           /\ after.discount \in Nat /\ after.discount <= share
           /\ after.price - after.discount = after.fee + after.commission + after.net
           /\ after.net >= 0
           /\ after.price - after.discount >= 1
<1> DEFINE c == Capped(line, share, t)
<1>1. /\ line.price \in Nat /\ line.fee \in Nat /\ line.commission \in Int
      /\ line.net \in Nat /\ line.discount \in Nat
  BY DEF Line
<1>2. /\ c \in Nat /\ c <= share /\ c <= line.price - 1
      /\ t.sellerFunded => c <= line.net
  BY <1>1 DEF Capped, Least
<1> HIDE DEF c
<1>3. CASE t.sellerFunded
  <2> DEFINE after == Discounted(line, c, t)
  <2>1. /\ after.price = line.price /\ after.fee = line.fee /\ after.discount = c
        /\ after.commission = line.commission /\ after.net = line.net - c
    BY <1>3 DEF Discounted, Line
  <2> HIDE DEF after
  <2> QED
    BY <1>1, <1>2, <1>3, <2>1 DEF after, c
<1>4. CASE ~ t.sellerFunded
  <2> DEFINE after == Discounted(line, c, t)
  <2>1. /\ after.price = line.price /\ after.fee = line.fee /\ after.discount = c
        /\ after.commission = line.commission - c /\ after.net = line.net
    BY <1>4 DEF Discounted, Line
  <2> HIDE DEF after
  <2> QED
    BY <1>1, <1>2, <2>1 DEF after, c
<1> QED
  BY <1>3, <1>4

-----------------------------------------------------------------------------
\* The invariant.

LEMMA OwnPriceIsNat ==
    ASSUME PriceTypes
    PROVE  \A a \in Article : OwnPrice(a) \in Nat
BY DEF PriceTypes, OwnPrice

LEMMA InitPrices == PricesInit => PricesInv
<1> SUFFICES ASSUME PricesInit PROVE PricesInv
  OBVIOUS
<1>1. PriceTypes
  <2>1. \A b \in Bases : b \in Nat /\ ListPrice(b, fee) \in Nat
    BY PricesAssumption, ListPriceLeast DEF PricesInit
  <2>2. /\ price \in [Article -> Nat]
        /\ base \in [Article -> Nat \union {Unset}]
    BY <2>1, PricesAssumption DEF PricesInit
  <2>3. asked \in [Article -> Nat]
    BY <2>2 DEF PricesInit
  <2>4. Still \in Edit /\ Still.pc = "idle"
    BY DEF Still, Edit
  <2>5. \A e \in Editor : edit[e] = Still
    BY DEF PricesInit
  <2>6. edit \in [Editor -> Edit]
    BY <2>4 DEF PricesInit
  <2> QED
    BY <2>2, <2>3, <2>4, <2>5, <2>6 DEF PricesInit, PriceTypes
<1>2. AskedIsOwn
  BY DEF PricesInit, AskedIsOwn, OwnPrice
<1>3. PricedAtSomeFee
  <2> SUFFICES ASSUME NEW a \in Article, base[a] # Unset
               PROVE  /\ Leaves(price[a], asked[a], fee)
                      /\ price[a] > 0 => ~ Leaves(price[a] - 1, asked[a], fee)
    BY <1>2 DEF PricedAtSomeFee, PricesInit
  <2>1. /\ price[a] = ListPrice(base[a], fee) /\ asked[a] = base[a]
        /\ base[a] \in Nat /\ fee \in Fees
    BY <1>1 DEF PricesInit, PriceTypes
  <2> QED
    BY <2>1, ListPriceLeast
<1> QED
  BY <1>1, <1>2, <1>3 DEF PricesInv

\* Requests that read or fill the cache leave the prices alone.
LEMMA StepCache ==
    ASSUME PricesInv, NEW e \in Editor,
           \/ \E a \in Edited, b \in Bases : AskFee(e, a, b)
           \/ FillCache(e) \/ Invalidate(e) \/ Expire
    PROVE  PricesInv'
<1> USE DEF PricesInv
<1>1. UNCHANGED rows
  BY DEF AskFee, FillCache, Invalidate, Expire
<1>2. PriceTypes'
  <2>1. ASSUME NEW a \in Edited, NEW b \in Bases, AskFee(e, a, b) PROVE PriceTypes'
    <3>1. a \in Article /\ b \in Nat /\ Fees \subseteq Nat
      BY PricesAssumption
    <3>2. PICK new \in Edit :
            edit' = [edit EXCEPT ![e] = new] /\ new.fee \in feesSeen /\ new.pc \in {"fill", "write"}
      <4>1. CASE cache # Unset
        <5>1. cache \in feesSeen /\ cache \in Nat
          BY <3>1, <4>1 DEF PriceTypes
        <5>2. [pc |-> "write", article |-> {a}, base |-> b, fee |-> cache] \in Edit
          BY <3>1, <5>1 DEF Edit
        <5> QED
          BY <2>1, <4>1, <5>1, <5>2 DEF AskFee
      <4>2. CASE cache = Unset
        <5>1. fee \in feesSeen /\ fee \in Nat
          BY <3>1 DEF PriceTypes
        <5>2. [pc |-> "fill", article |-> {a}, base |-> b, fee |-> fee] \in Edit
          BY <3>1, <5>1 DEF Edit
        <5> QED
          BY <2>1, <4>2, <5>1, <5>2 DEF AskFee
      <4> QED
        BY <4>1, <4>2
    <3>3. /\ edit' \in [Editor -> Edit]
          /\ edit'[e] = new /\ \A g \in Editor : g # e => edit'[g] = edit[g]
      BY <3>2 DEF PriceTypes
    <3> QED
      BY <1>1, <2>1, <3>2, <3>3 DEF AskFee, PriceTypes, rows
  <2>2. CASE FillCache(e)
    <3>1. edit[e].fee \in feesSeen
      BY <2>2 DEF FillCache, PriceTypes
    <3>2. PICK new \in Edit :
            edit' = [edit EXCEPT ![e] = new] /\ (new.pc \in {"fill", "write"} => new.fee \in feesSeen)
      <4>1. CASE edit[e].article = {}
        <5>1. Still \in Edit /\ Still.pc = "idle"
          BY DEF Still, Edit
        <5>2. edit' = [edit EXCEPT ![e] = Still]
          BY <2>2, <4>1 DEF FillCache
        <5> QED
          BY <5>1, <5>2
      <4>2. CASE edit[e].article # {}
        <5> DEFINE new == [edit[e] EXCEPT !.pc = "write"]
        <5>1. new \in Edit /\ new.fee = edit[e].fee
          BY DEF PriceTypes, Edit
        <5>2. edit' = [edit EXCEPT ![e] = new]
          BY <2>2, <4>2 DEF FillCache
        <5> QED
          BY <3>1, <5>1, <5>2
      <4> QED
        BY <4>1, <4>2
    <3>3. /\ edit' \in [Editor -> Edit]
          /\ edit'[e] = new /\ \A g \in Editor : g # e => edit'[g] = edit[g]
      BY <3>2 DEF PriceTypes
    <3> QED
      BY <1>1, <2>2, <3>1, <3>2, <3>3 DEF FillCache, PriceTypes, rows
  <2>3. CASE Invalidate(e)
    <3> DEFINE new == [Still EXCEPT !.pc = "fill", !.fee = fee]
    <3>1. fee \in Nat /\ fee \in feesSeen
      BY PricesAssumption DEF PriceTypes
    <3>2. new \in Edit /\ new.fee = fee
      BY <3>1 DEF Still, Edit
    <3>3. edit' = [edit EXCEPT ![e] = new]
      BY <2>3 DEF Invalidate
    <3> HIDE DEF new
    <3>4. /\ edit' \in [Editor -> Edit]
          /\ edit'[e] = new /\ \A g \in Editor : g # e => edit'[g] = edit[g]
      BY <3>2, <3>3 DEF PriceTypes
    <3> QED
      BY <1>1, <2>3, <3>1, <3>2, <3>4 DEF Invalidate, PriceTypes, rows
  <2>4. CASE Expire
    BY <2>4 DEF Expire, PriceTypes, rows
  <2> QED
    BY <2>1, <2>2, <2>3, <2>4
<1>3. AskedIsOwn' /\ PricedAtSomeFee'
  BY <1>1 DEF rows, AskedIsOwn, OwnPrice, PricedAtSomeFee
<1> QED
  BY <1>2, <1>3

LEMMA StepPrice ==
    ASSUME PricesInv, NEW e \in Editor, NEW a \in Article, WritePrice(e, a)
    PROVE  PricesInv'
<1> USE DEF PricesInv
<1> DEFINE b == edit[e].base
           f == edit[e].fee
<1>1. b \in Nat /\ f \in feesSeen /\ f \in Fees
  BY DEF WritePrice, PriceTypes, Edit
<1>2. /\ base' = [base EXCEPT ![a] = b]
      /\ price' = [price EXCEPT ![a] = ListPrice(b, f)]
      /\ asked' = [asked EXCEPT ![a] = b]
      /\ edit' = [edit EXCEPT ![e] = Still]
      /\ UNCHANGED <<fee, feesSeen, cache>>
  BY DEF WritePrice
<1> HIDE DEF b, f
<1>3. /\ ListPrice(b, f) \in Nat /\ Leaves(ListPrice(b, f), b, f)
      /\ ListPrice(b, f) > 0 => ~ Leaves(ListPrice(b, f) - 1, b, f)
  BY <1>1, ListPriceLeast
<1>4. PriceTypes'
  <2>1. Still \in Edit /\ Still.pc = "idle"
    BY DEF Still, Edit
  <2>2. /\ edit' \in [Editor -> Edit]
        /\ edit'[e] = Still /\ \A g \in Editor : g # e => edit'[g] = edit[g]
    BY <1>2, <2>1 DEF PriceTypes
  <2> QED
    BY <1>1, <1>2, <1>3, <2>1, <2>2 DEF PriceTypes
<1>5. /\ base'[a] = b /\ price'[a] = ListPrice(b, f) /\ asked'[a] = b
      /\ \A c \in Article : c # a => /\ base'[c] = base[c] /\ price'[c] = price[c]
                                     /\ asked'[c] = asked[c]
  BY <1>2 DEF PriceTypes
<1>6. b # Unset
  BY <1>1, PricesAssumption
<1>7. AskedIsOwn'
  BY <1>5, <1>6 DEF AskedIsOwn, OwnPrice
<1>8. PricedAtSomeFee'
  BY <1>1, <1>2, <1>3, <1>5, <1>6 DEF PricedAtSomeFee
<1> QED
  BY <1>4, <1>7, <1>8

LEMMA StepFee ==
    ASSUME PricesInv, NEW e \in Editor, NEW f \in Fees, SetFee(e, f)
    PROVE  PricesInv'
<1> USE DEF PricesInv
<1>1. /\ fee' = f /\ feesSeen' = feesSeen \union {f}
      /\ base' = [a \in Article |-> OwnPrice(a)]
      /\ price' = [a \in Article |-> ListPrice(OwnPrice(a), f)]
      /\ edit' = [edit EXCEPT ![e].pc = "saved"]
      /\ UNCHANGED <<cache, asked>>
  BY DEF SetFee
<1>2. \A a \in Article : /\ OwnPrice(a) \in Nat
                         /\ ListPrice(OwnPrice(a), f) \in Nat
                         /\ Leaves(ListPrice(OwnPrice(a), f), OwnPrice(a), f)
                         /\ ListPrice(OwnPrice(a), f) > 0 =>
                                ~ Leaves(ListPrice(OwnPrice(a), f) - 1, OwnPrice(a), f)
  BY OwnPriceIsNat, ListPriceLeast
<1>3. PriceTypes'
  <2> DEFINE new == [edit[e] EXCEPT !.pc = "saved"]
  <2>1. new \in Edit /\ new.pc = "saved"
    BY DEF PriceTypes, Edit
  <2>2. edit' = [edit EXCEPT ![e] = new]
    BY <1>1 DEF PriceTypes
  <2> HIDE DEF new
  <2>3. /\ edit' \in [Editor -> Edit]
        /\ edit'[e] = new /\ \A g \in Editor : g # e => edit'[g] = edit[g]
    BY <2>1, <2>2 DEF PriceTypes
  <2> QED
    BY <1>1, <1>2, <2>1, <2>3 DEF PriceTypes
<1>4. \A a \in Article : /\ base'[a] = OwnPrice(a) /\ base'[a] # Unset
                         /\ asked'[a] = OwnPrice(a)
                         /\ price'[a] = ListPrice(OwnPrice(a), f)
  BY <1>1, <1>2, PricesAssumption DEF AskedIsOwn
<1>5. AskedIsOwn'
  BY <1>4 DEF AskedIsOwn, OwnPrice
<1>6. PricedAtSomeFee'
  <2>1. f \in feesSeen'
    BY <1>1
  <2> QED
    BY <1>2, <1>4, <2>1 DEF PricedAtSomeFee
<1> QED
  BY <1>3, <1>5, <1>6

LEMMA StepPrices ==
    ASSUME PricesInv, [PricesNext]_pricesVars
    PROVE  PricesInv'
<1>1. CASE \E e \in Editor : \/ \E a \in Edited, b \in Bases : AskFee(e, a, b)
                             \/ FillCache(e) \/ Invalidate(e)
  BY <1>1, StepCache
<1>2. CASE \E e \in Editor, a \in Article : WritePrice(e, a)
  BY <1>2, StepPrice
<1>3. CASE \E e \in Editor, f \in Fees : SetFee(e, f)
  BY <1>3, StepFee
<1>4. CASE \/ Expire
           \/ \E cart \in SUBSET Article, rate \in [Article -> Rates] : PlaceLines(cart, rate)
           \/ UNCHANGED pricesVars
  BY <1>4 DEF Expire, PlaceLines, pricesVars, rows, PricesInv, PriceTypes, AskedIsOwn, OwnPrice,
              PricedAtSomeFee
<1> QED
  BY <1>1, <1>2, <1>3, <1>4 DEF PricesNext

\* What is listed is the least price that leaves the seller what the seller
\* last asked for, after a fee that was in force.
THEOREM PricesLeaveTheSellersOwn == PricesSpec => []PricedAtSomeFee
<1>1. PricesInv => PricedAtSomeFee
  BY DEF PricesInv
<1> QED
  BY <1>1, InitPrices, StepPrices, PTL DEF PricesSpec

-----------------------------------------------------------------------------
\* Orders.

\* The price of an article is not below what its seller asked.
LEMMA PriceAboveOwn ==
    ASSUME PricesInv, NEW a \in Article
    PROVE  price[a] \in Nat /\ OwnPrice(a) \in Nat /\ price[a] >= OwnPrice(a)
<1>1. price[a] \in Nat /\ OwnPrice(a) \in Nat
  BY OwnPriceIsNat DEF PricesInv, PriceTypes
<1>2. CASE base[a] = Unset
  BY <1>1, <1>2 DEF OwnPrice
<1>3. CASE base[a] # Unset
  <2>1. PICK f \in feesSeen : Leaves(price[a], OwnPrice(a), f)
    BY <1>3 DEF PricesInv, PricedAtSomeFee, AskedIsOwn
  <2>2. f \in Fees
    BY DEF PricesInv, PriceTypes
  <2> QED
    BY <1>1, <2>1, <2>2, LeavesAbove
<1> QED
  BY <1>2, <1>3

\* The lines of an order before its coupon.
Plain(row) ==
    /\ DOMAIN row \subseteq Article
    /\ \A a \in DOMAIN row :
        /\ row[a] \in Line
        /\ row[a].discount = 0
        /\ row[a].price = row[a].fee + row[a].commission + row[a].net

LEMMA PricedIsPlain ==
    ASSUME PricesInv, NEW cart \in SUBSET Article, NEW rate \in [Article -> Rates]
    PROVE  Plain(PricedLines(cart, rate))
<1> SUFFICES ASSUME NEW a \in cart
             PROVE  LET line == Split(price[a], OwnPrice(a), rate[a]) IN
                    /\ line \in Line /\ line.discount = 0
                    /\ line.price = line.fee + line.commission + line.net
  BY DEF Plain, PricedLines
<1>1. a \in Article /\ rate[a] \in 0 .. BPS
  BY PricesAssumption
<1>2. price[a] \in Nat /\ OwnPrice(a) \in Nat /\ price[a] >= OwnPrice(a)
  BY <1>1, PriceAboveOwn
<1> DEFINE line == Split(price[a], OwnPrice(a), rate[a])
<1>3. /\ line.price = price[a] /\ line.discount = 0
      /\ line.price = line.fee + line.commission + line.net
      /\ line.fee \in Nat /\ line.commission \in Nat /\ line.net \in Nat
  BY <1>1, <1>2, SplitAddsUp
<1>4. line = [price |-> line.price, fee |-> line.fee, commission |-> line.commission,
              net |-> line.net, discount |-> line.discount]
  BY DEF Split
<1> HIDE DEF line
<1>5. line \in Line
  BY <1>2, <1>3, <1>4 DEF Line
<1> QED
  BY <1>3, <1>5 DEF line

-----------------------------------------------------------------------------
\* Sums over lines.

PricesOf(row) == [a \in DOMAIN row |-> row[a].price]
DiscountsOf(row) == [a \in DOMAIN row |-> row[a].discount]
WholesOf(row, t) == [a \in DOMAIN row |-> Whole(row, t, a)]

PriceSum(row, S) == MapThenSumSet(LAMBDA a : row[a].price, S)
WholeSum(row, t) == MapThenSumSet(LAMBDA a : Whole(row, t, a), Eligible(row, t))

LEMMA PriceSumIsTotal ==
    ASSUME NEW row, NEW S, S \subseteq DOMAIN row, IsFiniteSet(S)
    PROVE  PriceSum(row, S) = Total(PricesOf(row), S)
<1> DEFINE h == CHOOSE h : h = [s \in SUBSET S |->
                    IF s = {} THEN 0
                    ELSE row[CHOOSE x \in s : TRUE].price + h[s \ {CHOOSE x \in s : TRUE}]]
<1>1. PriceSum(row, S) = h[S]
  BY DEF PriceSum, MapThenSumSet, MapThenFoldSet
<1>2. PICK k : Adds(k, PricesOf(row), S)
  BY AddsExists
<1>3. k = [s \in SUBSET S |->
              IF s = {} THEN 0
              ELSE row[CHOOSE x \in s : TRUE].price + k[s \ {CHOOSE x \in s : TRUE}]]
  BY <1>2 DEF Adds, AnyOf, PricesOf
<1>4. h = [s \in SUBSET S |->
              IF s = {} THEN 0
              ELSE row[CHOOSE x \in s : TRUE].price + h[s \ {CHOOSE x \in s : TRUE}]]
  BY <1>3
<1>5. Adds(h, PricesOf(row), S)
  <2> HIDE DEF h
  <2> QED
    BY <1>4 DEF Adds, AnyOf, PricesOf
<1> QED
  BY <1>1, <1>5, TotalIsSolution

LEMMA DiscountIsTotal ==
    ASSUME NEW row, IsFiniteSet(DOMAIN row)
    PROVE  Discount(row) = Total(DiscountsOf(row), DOMAIN row)
<1> DEFINE S == DOMAIN row
           h == CHOOSE h : h = [s \in SUBSET S |->
                    IF s = {} THEN 0
                    ELSE row[CHOOSE x \in s : TRUE].discount + h[s \ {CHOOSE x \in s : TRUE}]]
<1>1. Discount(row) = h[S]
  BY DEF Discount, MapThenSumSet, MapThenFoldSet
<1>2. PICK k : Adds(k, DiscountsOf(row), S)
  BY AddsExists
<1>3. k = [s \in SUBSET S |->
              IF s = {} THEN 0
              ELSE row[CHOOSE x \in s : TRUE].discount + k[s \ {CHOOSE x \in s : TRUE}]]
  BY <1>2 DEF Adds, AnyOf, DiscountsOf
<1>4. h = [s \in SUBSET S |->
              IF s = {} THEN 0
              ELSE row[CHOOSE x \in s : TRUE].discount + h[s \ {CHOOSE x \in s : TRUE}]]
  BY <1>3
<1>5. Adds(h, DiscountsOf(row), S)
  <2> HIDE DEF h
  <2> QED
    BY <1>4 DEF Adds, AnyOf, DiscountsOf
<1> QED
  BY <1>1, <1>5, TotalIsSolution

LEMMA WholeSumIsTotal ==
    ASSUME NEW row, NEW t, IsFiniteSet(Eligible(row, t))
    PROVE  WholeSum(row, t) = Total(WholesOf(row, t), Eligible(row, t))
<1> DEFINE S == Eligible(row, t)
           h == CHOOSE h : h = [s \in SUBSET S |->
                    IF s = {} THEN 0
                    ELSE Whole(row, t, CHOOSE x \in s : TRUE) + h[s \ {CHOOSE x \in s : TRUE}]]
<1>1. WholeSum(row, t) = h[S]
  BY DEF WholeSum, MapThenSumSet, MapThenFoldSet
<1>2. PICK k : Adds(k, WholesOf(row, t), S)
  BY AddsExists
<1>3. S \subseteq DOMAIN row
  BY DEF Eligible
<1> HIDE DEF S
<1>4. k = [s \in SUBSET S |->
              IF s = {} THEN 0
              ELSE Whole(row, t, CHOOSE x \in s : TRUE) + k[s \ {CHOOSE x \in s : TRUE}]]
  BY <1>2, <1>3 DEF Adds, AnyOf, WholesOf
<1>5. h = [s \in SUBSET S |->
              IF s = {} THEN 0
              ELSE Whole(row, t, CHOOSE x \in s : TRUE) + h[s \ {CHOOSE x \in s : TRUE}]]
  BY <1>4
<1>6. Adds(h, WholesOf(row, t), S)
  <2> HIDE DEF h
  <2> QED
    BY <1>3, <1>5 DEF Adds, AnyOf, WholesOf
<1> QED
  BY <1>1, <1>6, TotalIsSolution DEF S

-----------------------------------------------------------------------------
\* applyCoupon.

LEMMA PlainFacts ==
    ASSUME NEW row, Plain(row), NEW t
    PROVE  /\ IsFiniteSet(DOMAIN row)
           /\ Eligible(row, t) \subseteq DOMAIN row /\ IsFiniteSet(Eligible(row, t))
           /\ Subtotal(row) = Total(PricesOf(row), DOMAIN row)
           /\ EligibleTotal(row, t) = Total(PricesOf(row), Eligible(row, t))
           /\ Subtotal(row) \in Nat
           /\ EligibleTotal(row, t) \in Nat
<1>1. IsFiniteSet(DOMAIN row)
  BY PricesAssumption, FS_Subset DEF Plain
<1>2. Eligible(row, t) \subseteq DOMAIN row /\ IsFiniteSet(Eligible(row, t))
  BY <1>1, FS_Subset DEF Eligible
<1>3. Subtotal(row) = PriceSum(row, DOMAIN row) /\ EligibleTotal(row, t) = PriceSum(row, Eligible(row, t))
  BY DEF Subtotal, EligibleTotal, PriceSum
<1>4. \A a \in DOMAIN row : PricesOf(row)[a] \in Nat
  BY DEF PricesOf, Plain, Line
<1>5. /\ Total(PricesOf(row), DOMAIN row) \in Nat
      /\ Total(PricesOf(row), Eligible(row, t)) \in Nat
  BY <1>1, <1>2, <1>4, TotalNat
<1> QED
  BY <1>1, <1>2, <1>3, <1>5, PriceSumIsTotal

\* What a coupon may take leaves the order the minimum charge, or is nothing.
LEMMA TargetFits ==
    ASSUME NEW row, Plain(row), NEW t \in Terms
    PROVE  /\ Target(row, t) \in Nat
           /\ Target(row, t) <= Subtotal(row) - MIN_CHARGE_CENTS \/ Target(row, t) = 0
<1> DEFINE total == EligibleTotal(row, t)
           raw == RawDiscount(total, t)
<1>1. total \in Nat /\ Subtotal(row) \in Nat
  BY PlainFacts
<1>2. t.value \in Nat
  BY PricesAssumption DEF Term
<1>3. raw \in Nat
  <2> HIDE DEF total
  <2>1. CASE t.type = "PERCENT"
    <3>1. total * t.value + 5000 \in Nat
      BY <1>1, <1>2
    <3>2. raw = (total * t.value + 5000) \div 10000
      BY <2>1 DEF RawDiscount, BPS
    <3>3. \A n \in Nat : n \div 10000 \in Nat
      OBVIOUS
    <3> QED
      BY <3>1, <3>2, <3>3
  <2>2. CASE t.type # "PERCENT"
    BY <1>1, <1>2, <2>2 DEF RawDiscount, Least
  <2> QED
    BY <2>1, <2>2
<1>4. Target(row, t) = IF Subtotal(row) - MIN_CHARGE_CENTS < 0 THEN 0
                       ELSE Least(raw, Subtotal(row) - MIN_CHARGE_CENTS)
  BY DEF Target
<1> HIDE DEF raw
<1> QED
  BY <1>1, <1>3, <1>4 DEF Least, MIN_CHARGE_CENTS

\* The shares of the lines: whole cents, and the cents left over.
SharesOf(row, t, up) == [a \in DOMAIN row |-> Share(row, t, up, a)]

LEMMA SharesAddUp ==
    ASSUME NEW row, Plain(row), NEW t \in Terms, EligibleTotal(row, t) # 0,
           NEW up \in RoundedUp(row, t)
    PROVE  /\ \A a \in Eligible(row, t) : Share(row, t, up, a) \in Nat
           /\ Total(SharesOf(row, t, up), Eligible(row, t)) = Target(row, t)
<1> DEFINE E == Eligible(row, t)
           whole == WholesOf(row, t)
           cent == [a \in DOMAIN row |-> IF a \in up THEN 1 ELSE 0]
           share == SharesOf(row, t, up)
<1>1. IsFiniteSet(E) /\ E \subseteq DOMAIN row /\ EligibleTotal(row, t) \in Nat \ {0}
  BY PlainFacts
<1>2. /\ up \in SUBSET E
      /\ Cardinality(up) = Target(row, t) - WholeSum(row, t)
  BY DEF RoundedUp, WholeSum
<1>3. ASSUME NEW a \in E
      PROVE  Whole(row, t, a) \in Nat
  <2>1. Target(row, t) * row[a].price \in Nat
    <3>1. row[a].price \in Nat
      BY <1>1 DEF Plain, Line
    <3> QED
      BY <3>1, TargetFits
  <2> QED
    BY <1>1, <2>1, Division DEF Whole
<1>4. \A a \in E : /\ whole[a] \in Int /\ cent[a] \in Int /\ share[a] = whole[a] + cent[a]
                   /\ a \notin up => cent[a] = 0
                   /\ Share(row, t, up, a) \in Nat
  BY <1>1, <1>3 DEF WholesOf, SharesOf, Share
<1>5. IsFiniteSet(up) /\ \A a \in up : cent[a] = 1
  BY <1>1, <1>2, FS_Subset
<1>6. WholeSum(row, t) = Total(whole, E)
  BY <1>1, WholeSumIsTotal
<1>7. Total(share, E) = Total(whole, E) + Total(cent, E)
  <2> HIDE DEF E, whole, cent, share
  <2> QED
    BY <1>1, <1>4, TotalOfSums
<1>8. Total(cent, E) = Cardinality(up)
  <2> HIDE DEF E, cent
  <2>1. Total(cent, E) = Total(cent, up)
    BY <1>1, <1>2, <1>4, TotalOfPart
  <2> QED
    BY <1>5, <2>1, TotalOfOnes
<1>9. Total(share, E) = Target(row, t)
  <2>1. Total(whole, E) \in Int /\ Target(row, t) \in Int
    <3> HIDE DEF E, whole, cent, share
    <3> QED
      BY <1>1, <1>4, TotalInt, TargetFits
  <2> HIDE DEF E, whole, cent, share
  <2> QED
    BY <1>2, <1>6, <1>7, <1>8, <2>1
<1> QED
  BY <1>4, <1>9

\* What the coupon does to one line.
LEMMA DiscountedLine ==
    ASSUME NEW row, Plain(row), NEW t \in Terms, EligibleTotal(row, t) # 0,
           NEW up \in RoundedUp(row, t), NEW a \in Eligible(row, t)
    PROVE  LET after == ApplyCoupon(row, t, up)[a] IN
           /\ after \in Line
           /\ after.price = row[a].price
           /\ after.discount <= Share(row, t, up, a)
           /\ after.price - after.discount = after.fee + after.commission + after.net
           /\ after.price - after.discount >= 1
           /\ \/ after.discount = Share(row, t, up, a)
              \/ after.discount >= after.price - 1
              \/ t.sellerFunded /\ after.net = 0
<1> DEFINE line == row[a]
           share == Share(row, t, up, a)
           c == Capped(line, share, t)
           after == Discounted(line, c, t)
<1>1. a \in DOMAIN row /\ line.price > 0
  BY DEF Eligible
<1>2. /\ line \in Line /\ line.discount = 0 /\ line.net >= 0
      /\ line.price = line.fee + line.commission + line.net
  BY <1>1 DEF Plain, Line
<1>3. share \in Nat
  BY SharesAddUp
<1>4. ApplyCoupon(row, t, up)[a] = after
  BY <1>1 DEF ApplyCoupon
<1>5. /\ after.discount \in Nat /\ after.discount <= share
      /\ after.price - after.discount = after.fee + after.commission + after.net
      /\ after.net >= 0
      /\ after.price - after.discount >= 1
  <2> HIDE DEF line, share
  <2> QED
    BY <1>1, <1>2, <1>3, DiscountAddsUp
<1>6. /\ line.price \in Nat /\ line.fee \in Nat /\ line.commission \in Int /\ line.net \in Nat
  BY <1>2 DEF Line
<1>7. /\ c \in Int
      /\ c = share \/ c = line.price - 1 \/ (t.sellerFunded /\ c = line.net)
  <2> HIDE DEF line, share
  <2> QED
    BY <1>3, <1>6 DEF Capped, Least
<1> HIDE DEF c
<1>8. /\ after.price = line.price /\ after.fee = line.fee /\ after.discount = c
      /\ after.commission = (IF t.sellerFunded THEN line.commission ELSE line.commission - c)
      /\ after.net = (IF t.sellerFunded THEN line.net - c ELSE line.net)
      /\ after = [price |-> after.price, fee |-> after.fee, commission |-> after.commission,
                  net |-> after.net, discount |-> after.discount]
  <2> HIDE DEF line
  <2> QED
    BY <1>2 DEF Discounted, Line
<1>9. after.commission \in Int /\ after.net \in Int
  BY <1>6, <1>7, <1>8
<1>10. after \in Line
  <2> HIDE DEF after
  <2> QED
    BY <1>5, <1>6, <1>8, <1>9 DEF Line
<1>11. \/ after.discount = share
       \/ after.discount >= after.price - 1
       \/ t.sellerFunded /\ after.net = 0
  <2> HIDE DEF after, line, share
  <2> QED
    BY <1>6, <1>7, <1>8
<1> HIDE DEF after, share, line
<1>12. /\ after \in Line /\ after.price = row[a].price /\ after.discount <= Share(row, t, up, a)
       /\ after.price - after.discount = after.fee + after.commission + after.net
       /\ after.price - after.discount >= 1
       /\ \/ after.discount = Share(row, t, up, a)
          \/ after.discount >= after.price - 1
          \/ t.sellerFunded /\ after.net = 0
  BY <1>5, <1>8, <1>10, <1>11 DEF line, share
<1> QED
  BY <1>4, <1>12

\* An order with a coupon: its lines are well-formed and add up, and what they
\* give together is what the coupon promises, or what the caps leave of it.
LEMMA CouponGives ==
    ASSUME NEW row, Plain(row), NEW t \in Terms, EligibleTotal(row, t) # 0,
           NEW up \in RoundedUp(row, t),
           NEW after, after = ApplyCoupon(row, t, up), Discount(after) # 0
    PROVE  /\ DOMAIN after = DOMAIN row
           /\ \A a \in DOMAIN after :
                /\ after[a] \in Line
                /\ after[a].price = row[a].price
                /\ after[a].price - after[a].discount
                        = after[a].fee + after[a].commission + after[a].net
                /\ after[a].price > 0 => after[a].price - after[a].discount >= 1
           /\ Subtotal(row) - Discount(after) >= MIN_CHARGE_CENTS
           /\ (\A a \in Eligible(row, t) :
                    /\ after[a].discount < after[a].price - 1
                    /\ t.sellerFunded => after[a].net # 0)
                => Discount(after) = Target(row, t)
<1> DEFINE E == Eligible(row, t)
           given == DiscountsOf(after)
           share == SharesOf(row, t, up)
<1>1. IsFiniteSet(DOMAIN row) /\ E \subseteq DOMAIN row /\ IsFiniteSet(E) /\ Subtotal(row) \in Nat
  BY PlainFacts
<1>2. DOMAIN after = DOMAIN row /\ \A a \in DOMAIN row \ E : after[a] = row[a]
  BY DEF ApplyCoupon
<1>3. \A a \in E : /\ after[a] \in Line /\ after[a].price = row[a].price
                   /\ after[a].discount <= Share(row, t, up, a)
                   /\ after[a].price - after[a].discount
                        = after[a].fee + after[a].commission + after[a].net
                   /\ after[a].price - after[a].discount >= 1
                   /\ \/ after[a].discount = Share(row, t, up, a)
                      \/ after[a].discount >= after[a].price - 1
                      \/ t.sellerFunded /\ after[a].net = 0
  BY DiscountedLine
<1>4. \A a \in DOMAIN row \ E : /\ row[a] \in Line /\ row[a].discount = 0
                                /\ row[a].price = row[a].fee + row[a].commission + row[a].net
  BY DEF Plain
<1>5. \A a \in DOMAIN after :
        /\ after[a] \in Line /\ after[a].price = row[a].price
        /\ after[a].price - after[a].discount
                = after[a].fee + after[a].commission + after[a].net
        /\ after[a].price > 0 => after[a].price - after[a].discount >= 1
  <2> SUFFICES ASSUME NEW a \in DOMAIN row
               PROVE  /\ after[a] \in Line /\ after[a].price = row[a].price
                      /\ after[a].price - after[a].discount
                            = after[a].fee + after[a].commission + after[a].net
                      /\ after[a].price > 0 => after[a].price - after[a].discount >= 1
    BY <1>2
  <2>1. CASE a \in E
    BY <1>3, <2>1
  <2>2. CASE a \notin E
    <3>1. after[a] = row[a] /\ row[a] \in Line /\ row[a].discount = 0
          /\ row[a].price = row[a].fee + row[a].commission + row[a].net
      BY <1>2, <1>4, <2>2
    <3>2. row[a].price \in Nat
      BY <3>1 DEF Line
    <3> HIDE DEF E
    <3>3. row[a].price - row[a].discount = row[a].price
      BY <3>1, <3>2
    <3> QED
      BY <3>1, <3>2, <3>3
  <2> QED
    BY <2>1, <2>2
<1>6. \A a \in DOMAIN row : /\ given[a] \in Int /\ given[a] \in Nat
                            /\ a \notin E => given[a] = 0
                            /\ a \in E => given[a] = after[a].discount
  BY <1>2, <1>4, <1>5 DEF DiscountsOf, Line
<1>7. \A a \in E : share[a] = Share(row, t, up, a) /\ share[a] \in Int
  BY <1>1, SharesAddUp DEF SharesOf
<1>8. Discount(after) = Total(given, E) /\ Discount(after) \in Nat
  <2>1. Discount(after) = Total(given, DOMAIN row)
    BY <1>1, <1>2, DiscountIsTotal
  <2> DEFINE D == DOMAIN row
  <2>2. /\ \A a \in D : given[a] \in Int /\ (a \notin E => given[a] = 0)
        /\ \A a \in D : given[a] \in Nat
        /\ E \in SUBSET D /\ IsFiniteSet(D)
    BY <1>1, <1>6
  <2> HIDE DEF given, E, D
  <2>3. Total(given, D) = Total(given, E)
    BY <2>2, TotalOfPart
  <2>4. Total(given, D) \in Nat
    BY <2>2, TotalNat
  <2> QED
    BY <2>1, <2>3, <2>4 DEF D
<1>9. Total(share, E) = Target(row, t)
  BY SharesAddUp
<1>10. Total(given, E) <= Total(share, E)
  <2>1. ASSUME NEW a \in E
        PROVE  given[a] \in Int /\ share[a] \in Int /\ given[a] <= share[a]
    <3>1. a \in DOMAIN row /\ after[a].discount <= Share(row, t, up, a)
      BY <1>1, <1>3
    <3>2. given[a] \in Int /\ given[a] = after[a].discount
      BY <1>6, <3>1
    <3>3. share[a] = Share(row, t, up, a) /\ share[a] \in Int
      BY <1>7
    <3> QED
      BY <3>1, <3>2, <3>3
  <2> HIDE DEF given, share, E
  <2> QED
    BY <1>1, <2>1, TotalMonotone
<1>11. Subtotal(row) - Discount(after) >= MIN_CHARGE_CENTS
  <2>1. Discount(after) <= Target(row, t) /\ Target(row, t) \in Nat
    BY <1>8, <1>9, <1>10, TargetFits
  <2>2. Target(row, t) # 0
    BY <1>8, <2>1
  <2>3. Target(row, t) <= Subtotal(row) - MIN_CHARGE_CENTS
    BY <2>2, TargetFits
  <2> QED
    BY <1>1, <1>8, <2>1, <2>3 DEF MIN_CHARGE_CENTS
<1>12. ASSUME \A a \in E : /\ after[a].discount < after[a].price - 1
                           /\ t.sellerFunded => after[a].net # 0
       PROVE  Discount(after) = Target(row, t)
  <2>1. ASSUME NEW a \in E
        PROVE  given[a] = share[a]
    <3>1. after[a].price \in Nat /\ after[a].discount \in Nat
      BY <1>3 DEF Line
    <3>2. after[a].discount = Share(row, t, up, a)
      BY <1>3, <1>12, <3>1
    <3>3. a \in DOMAIN row
      BY <1>1
    <3>4. given[a] = after[a].discount /\ share[a] = Share(row, t, up, a)
      BY <1>6, <1>7, <3>3
    <3> QED
      BY <3>2, <3>4
  <2>2. Total(given, E) = Total(share, E)
    <3> HIDE DEF given, share, E
    <3> QED
      BY <1>1, <2>1, TotalSame
  <2> QED
    BY <1>8, <1>9, <2>2
<1> QED
  BY <1>2, <1>5, <1>11, <1>12

\* What a coupon may take depends on the prices of the lines alone.
LEMMA TargetOfPrices ==
    ASSUME NEW row, Plain(row), NEW full, DOMAIN full = DOMAIN row,
           \A a \in DOMAIN row : full[a].price = row[a].price, NEW t
    PROVE  /\ Eligible(full, t) = Eligible(row, t)
           /\ Subtotal(full) = Subtotal(row)
           /\ Target(full, t) = Target(row, t)
<1>1. Eligible(full, t) = Eligible(row, t)
  BY DEF Eligible
<1>2. PricesOf(full) = PricesOf(row)
  BY DEF PricesOf
<1>3. /\ IsFiniteSet(DOMAIN row) /\ IsFiniteSet(Eligible(row, t))
      /\ Eligible(row, t) \subseteq DOMAIN row
      /\ Subtotal(row) = Total(PricesOf(row), DOMAIN row)
      /\ EligibleTotal(row, t) = Total(PricesOf(row), Eligible(row, t))
  BY PlainFacts
<1>4. /\ Subtotal(full) = PriceSum(full, DOMAIN full)
      /\ EligibleTotal(full, t) = PriceSum(full, Eligible(full, t))
  BY DEF Subtotal, EligibleTotal, PriceSum
<1>5. Subtotal(full) = Subtotal(row) /\ EligibleTotal(full, t) = EligibleTotal(row, t)
  BY <1>1, <1>2, <1>3, <1>4, PriceSumIsTotal
<1> QED
  BY <1>1, <1>5 DEF Target

-----------------------------------------------------------------------------
\* Orders, with a coupon or without.

PlacedTypes == DOMAIN placed \subseteq Article /\ \A a \in DOMAIN placed : placed[a] \in Line

PlacedInv ==
    /\ BeforeCheckout => terms = Unset
    /\ terms \in Terms \union {Unset}
    /\ PlacedTypes
    /\ LinesAddUp
    /\ GivesItsWorth

LEMMA InitPlaced == PricesInit => PlacedInv
BY DEF PricesInit, PlacedInv, BeforeCheckout, PlacedTypes, LinesAddUp, GivesItsWorth

\* Fee, net and discount of a well-formed line are not negative.
LEMMA LinesOfType ==
    ASSUME NEW line \in Line
    PROVE  line.fee >= 0 /\ line.net >= 0 /\ line.discount >= 0
BY DEF Line

LEMMA PlaceStep ==
    ASSUME PricesInv, PlacedInv, NEW cart \in SUBSET Article, NEW rate \in [Article -> Rates],
           PlaceLines(cart, rate)
    PROVE  PlacedInv'
<1> DEFINE row == PricedLines(cart, rate)
<1>1. Plain(row) /\ DOMAIN row = cart /\ cart # {}
  BY PricedIsPlain DEF PricedLines, PlaceLines
<1>2. CASE placed' = row /\ terms' = Unset
  <2>1. PlacedTypes'
    BY <1>1, <1>2 DEF PlacedTypes, Plain
  <2>2. ASSUME NEW a \in DOMAIN row
        PROVE  /\ row[a].price - row[a].discount = row[a].fee + row[a].commission + row[a].net
               /\ row[a].price > 0 => row[a].price - row[a].discount >= 1
    <3>1. row[a] \in Line /\ row[a].discount = 0
          /\ row[a].price = row[a].fee + row[a].commission + row[a].net
      BY <1>1 DEF Plain
    <3>2. row[a].price \in Nat
      BY <3>1 DEF Line
    <3> HIDE DEF row
    <3> QED
      BY <3>1, <3>2
  <2>3. LinesAddUp'
    BY <1>2, <2>1, <2>2, LinesOfType DEF LinesAddUp, PlacedTypes
  <2>4. GivesItsWorth'
    BY <1>2 DEF GivesItsWorth
  <2> QED
    BY <1>2, <2>1, <2>3, <2>4 DEF PlacedInv
<1>3. ASSUME NEW t \in Terms, Accepts(row, t), NEW up \in RoundedUp(row, t),
             placed' = ApplyCoupon(row, t, up), Discount(placed') # 0, terms' = t
      PROVE  PlacedInv'
  <2> HIDE DEF row
  <2>1. EligibleTotal(row, t) # 0
    BY <1>3 DEF Accepts
  <2>2. /\ DOMAIN placed' = DOMAIN row
        /\ \A a \in DOMAIN placed' :
             /\ placed'[a] \in Line
             /\ placed'[a].price = row[a].price
             /\ placed'[a].price - placed'[a].discount
                    = placed'[a].fee + placed'[a].commission + placed'[a].net
             /\ placed'[a].price > 0 => placed'[a].price - placed'[a].discount >= 1
        /\ Subtotal(row) - Discount(placed') >= MIN_CHARGE_CENTS
        /\ (\A a \in Eligible(row, t) :
                /\ placed'[a].discount < placed'[a].price - 1
                /\ t.sellerFunded => placed'[a].net # 0)
             => Discount(placed') = Target(row, t)
    BY <1>1, <1>3, <2>1, CouponGives
  <2>3. PlacedTypes'
    BY <1>1, <2>2 DEF PlacedTypes
  <2>4. LinesAddUp'
    BY <2>2, LinesOfType DEF LinesAddUp
  <2> DEFINE full == [a \in DOMAIN placed' |-> [placed'[a] EXCEPT !.discount = 0]]
             capped == {a \in Eligible(full, t) :
                          \/ placed'[a].discount >= placed'[a].price - 1
                          \/ t.sellerFunded /\ placed'[a].net = 0}
  <2>5. DOMAIN full = DOMAIN row /\ \A a \in DOMAIN row : full[a].price = row[a].price
    BY <2>2 DEF Line
  <2>6. Eligible(full, t) = Eligible(row, t) /\ Target(full, t) = Target(row, t)
    <3> HIDE DEF full
    <3> QED
      BY <1>1, <2>5, TargetOfPrices
  <2>7. Subtotal(placed') = Subtotal(row)
    BY <1>1, <2>2, TargetOfPrices
  <2>8. ASSUME capped = {}
        PROVE  Discount(placed') = Target(full, t)
    <3>1. ASSUME NEW a \in Eligible(row, t)
          PROVE  /\ placed'[a].discount < placed'[a].price - 1
                 /\ t.sellerFunded => placed'[a].net # 0
      <4>1. a \in DOMAIN placed'
        BY <2>2 DEF Eligible
      <4>2. placed'[a].discount \in Nat /\ placed'[a].price \in Nat
        BY <2>2, <4>1 DEF Line
      <4>3. ~ (placed'[a].discount >= placed'[a].price - 1)
        BY <2>6, <2>8
      <4> QED
        BY <2>6, <2>8, <4>2, <4>3
    <3> QED
      BY <2>2, <2>6, <3>1
  <2>9. GivesItsWorth'
    BY <1>3, <2>2, <2>7, <2>8 DEF GivesItsWorth
  <2>10. DOMAIN placed' # {}
    BY <1>1, <2>2
  <2> QED
    BY <1>3, <2>3, <2>4, <2>9, <2>10 DEF PlacedInv, BeforeCheckout
<1> QED
  BY <1>2, <1>3 DEF PlaceLines

LEMMA StepPlaced ==
    ASSUME PricesInv, PlacedInv, [PricesNext]_pricesVars
    PROVE  PlacedInv'
<1>1. CASE UNCHANGED <<placed, terms>>
  BY <1>1 DEF PlacedInv, BeforeCheckout, PlacedTypes, LinesAddUp, GivesItsWorth
<1>2. CASE \E cart \in SUBSET Article, rate \in [Article -> Rates] : PlaceLines(cart, rate)
  BY <1>2, PlaceStep
<1> QED
  BY <1>1, <1>2
     DEF PricesNext, AskFee, FillCache, WritePrice, SetFee, Invalidate, Expire, pricesVars

LEMMA PlacedHolds == PricesSpec => [](PricesInv /\ PlacedInv)
BY InitPrices, StepPrices, InitPlaced, StepPlaced, PTL DEF PricesSpec

\* Every variable stays in its type: a fee that a request has read is one that was
\* in force, and only the platform's part of a line may be below zero.
LEMMA InvTypes == PricesInv /\ PlacedInv => PricesTypeOK
BY DEF PricesInv, PriceTypes, PlacedInv, PlacedTypes, PricesTypeOK

THEOREM PricesTypes == PricesSpec => []PricesTypeOK
BY PlacedHolds, InvTypes, PTL

\* On every line of an order, with a coupon or without, the buyer pays what
\* provider, platform and seller get, neither provider nor seller gets less than
\* nothing, and a line that costs something keeps a cent.
THEOREM OrderLinesAddUp == PricesSpec => []LinesAddUp
<1>1. PlacedInv => LinesAddUp
  BY DEF PlacedInv
<1> QED
  BY <1>1, PlacedHolds, PTL

\* A coupon leaves an order of any number of lines the least amount that can be
\* charged, and unless a line's cap binds the lines' discounts are together what it
\* promises, to the cent.
THEOREM CouponGivesItsWorth == PricesSpec => []GivesItsWorth
<1>1. PlacedInv => GivesItsWorth
  BY DEF PlacedInv
<1> QED
  BY <1>1, PlacedHolds, PTL

=============================================================================
