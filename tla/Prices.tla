------------------------------- MODULE Prices -------------------------------
(***************************************************************************)
(* What a product costs and who gets what of it: the arithmetic of         *)
(* packages/shared and coupon-math.ts, the settings cache and the          *)
(* repricing of SettingsService, ProductsService.update as it prices, and  *)
(* CheckoutService.price.                                                  *)
(*                                                                         *)
(* Amounts are whole cents, rates basis points.                            *)
(***************************************************************************)
EXTENDS Integers, FiniteSets, FiniteSetsExt

CONSTANTS
    Article,        \* what has a price: a licence of a product
    Edited,         \* bound: the articles whose sellers change the price
    Editor,         \* requests that edit products or settings at the same time
    Fees,           \* provider fees an admin may set
    Bases,          \* sellers' own prices
    Rates,          \* commissions of the sellers' plans
    Terms,          \* coupons
    Unset           \* SQL NULL, and no cache

BPS == 10000
MAX_GATEWAY_FEE_BPS == 2000
MIN_CHARGE_CENTS == 100

Term == [type : {"PERCENT", "FIXED"}, value : Nat, scope : SUBSET Article,
         minOrder : Nat, sellerFunded : BOOLEAN]

\* What validateValue and the DTOs let through.
ASSUME PricesAssumption ==
    /\ IsFiniteSet(Article)
    /\ Edited \subseteq Article
    /\ Fees \subseteq 0 .. MAX_GATEWAY_FEE_BPS
    /\ Bases \subseteq Nat
    /\ Rates \subseteq 0 .. BPS
    /\ Terms \subseteq Term
    /\ Unset \notin Int \union Terms

-----------------------------------------------------------------------------
\* Prices and commissions.

ListPrice(base, fee) == (base * BPS + (BPS - fee) - 1) \div (BPS - fee)

Commission(gross, rate) == (gross * rate + BPS \div 2) \div BPS

Split(price, base, rate) ==
    [price |-> price, fee |-> price - base, commission |-> Commission(base, rate),
     net |-> base - Commission(base, rate), discount |-> 0]

-----------------------------------------------------------------------------
\* applyCoupon.

Subtotal(lines) == MapThenSumSet(LAMBDA a : lines[a].price, DOMAIN lines)
Eligible(lines, terms) == {a \in DOMAIN lines : lines[a].price > 0 /\ a \in terms.scope}
EligibleTotal(lines, terms) == MapThenSumSet(LAMBDA a : lines[a].price, Eligible(lines, terms))
Least(x, y) == IF x < y THEN x ELSE y

RawDiscount(total, terms) ==
    IF terms.type = "PERCENT" THEN (total * terms.value + BPS \div 2) \div BPS
    ELSE Least(terms.value, total)

WholeSubtotal(lines, terms) ==                 \* mutant: an order may be discounted to nothing
    RawDiscount(EligibleTotal(lines, terms), terms)
NotClamped(lines, terms) ==                    \* mutant: a total below the minimum charge
    Least(RawDiscount(EligibleTotal(lines, terms), terms), Subtotal(lines) - MIN_CHARGE_CENTS)
Target(lines, terms) ==
    LET most == Subtotal(lines) - MIN_CHARGE_CENTS
        raw == RawDiscount(EligibleTotal(lines, terms), terms)
    IN  IF most < 0 THEN 0 ELSE Least(raw, most)

\* The exact share of a line is target * price / total: its whole cents, and
\* what is left of a cent.
Whole(lines, terms, a) ==
    (Target(lines, terms) * lines[a].price) \div EligibleTotal(lines, terms)
Remainder(lines, terms, a) ==
    (Target(lines, terms) * lines[a].price) % EligibleTotal(lines, terms)

\* The lines that get one more cent: as many as cents are left, those with the
\* largest remainders.  Among equal ones the order of floating-point remainders
\* decides: any of them.
NoRest(lines, terms) == {{}}                   \* mutant: the cents left over are lost
RoundedUp(lines, terms) ==
    LET eligible == Eligible(lines, terms)
        left == Target(lines, terms)
                    - MapThenSumSet(LAMBDA a : Whole(lines, terms, a), eligible)
    IN  {S \in SUBSET eligible :
            /\ Cardinality(S) = left
            /\ \A a \in S, b \in eligible \ S :
                Remainder(lines, terms, a) >= Remainder(lines, terms, b)}

Share(lines, terms, up, a) == Whole(lines, terms, a) + (IF a \in up THEN 1 ELSE 0)

\* A line keeps a cent, and a seller does not pay to sell.
PaysToSell(line, share, terms) == Least(share, line.price - 1)    \* mutant: without the cap
Capped(line, share, terms) ==
    IF terms.sellerFunded THEN Least(Least(share, line.price - 1), line.net)
    ELSE Least(share, line.price - 1)

Discounted(line, cents, terms) ==
    IF terms.sellerFunded THEN [line EXCEPT !.discount = cents, !.net = @ - cents]
    ELSE [line EXCEPT !.discount = cents, !.commission = @ - cents]

ApplyCoupon(lines, terms, up) ==
    [a \in DOMAIN lines |->
        IF a \in Eligible(lines, terms)
        THEN Discounted(lines[a], Capped(lines[a], Share(lines, terms, up, a), terms), terms)
        ELSE lines[a]]

Discount(lines) == MapThenSumSet(LAMBDA a : lines[a].discount, DOMAIN lines)

-----------------------------------------------------------------------------
\* The rows, the cache, and the requests.

VARIABLES
    fee,        \* the provider fee in the Setting table
    feesSeen,   \* fees that have been in force
    cache,      \* SettingsService.cache: the fee, or Unset
    base,       \* basePriceCents; Unset in rows older than fee-inclusive pricing
    price,      \* priceCents
    asked,      \* the price each seller last asked for
    edit,       \* what each request is doing
    terms,      \* the coupon of the checkout, or Unset
    placed      \* the lines of the checkout; a behaviour ends with it

pricesVars == <<fee, feesSeen, cache, base, price, asked, edit, terms, placed>>

Still == [pc |-> "idle", article |-> {}, base |-> 0, fee |-> 0]
Edit == [pc : {"idle", "fill", "write", "saved"}, article : SUBSET Article, base : Nat, fee : Nat]
Line == [price : Nat, fee : Nat, commission : Int, net : Nat, discount : Nat]

\* A fee that a request has read is one that was in force; the platform may pay
\* more for a coupon than its commission, nobody else goes below zero.
PricesTypeOK ==
    /\ fee \in Fees
    /\ feesSeen \subseteq Fees
    /\ cache \in feesSeen \union {Unset}
    /\ base \in [Article -> Nat \union {Unset}]
    /\ price \in [Article -> Nat]
    /\ asked \in [Article -> Nat]
    /\ edit \in [Editor -> Edit]
    /\ \A e \in Editor : edit[e].pc \in {"fill", "write"} => edit[e].fee \in feesSeen
    /\ terms \in Terms \union {Unset}
    /\ DOMAIN placed \subseteq Article
    /\ \A a \in DOMAIN placed : placed[a] \in Line

\* Products that have always had a fee built in, and older ones.
PricesInit ==
    /\ fee \in Fees
    /\ feesSeen = {fee}
    /\ cache = Unset
    /\ base \in [Article -> Bases \union {Unset}]
    /\ price \in [Article -> Bases \union {ListPrice(b, fee) : b \in Bases}]
    /\ \A a \in Article :
        IF base[a] = Unset THEN price[a] \in Bases ELSE price[a] = ListPrice(base[a], fee)
    /\ asked = [a \in Article |-> IF base[a] = Unset THEN price[a] ELSE base[a]]
    /\ edit = [e \in Editor |-> Still]
    /\ terms = Unset
    /\ placed = [a \in {} |-> 0]

BeforeCheckout == DOMAIN placed = {}
rows == <<fee, feesSeen, base, price, asked>>

-----------------------------------------------------------------------------
\* A seller sets a price: the fee comes from the cache, or from the database
\* and then into the cache.
AskFee(e, a, b) ==
    /\ BeforeCheckout
    /\ edit[e] = Still
    /\ edit' = [edit EXCEPT ![e] =
            IF cache # Unset THEN [pc |-> "write", article |-> {a}, base |-> b, fee |-> cache]
            ELSE [pc |-> "fill", article |-> {a}, base |-> b, fee |-> fee]]
    /\ UNCHANGED <<rows, cache, terms, placed>>

FillCache(e) ==
    /\ edit[e].pc = "fill"
    /\ cache' = edit[e].fee
    /\ edit' = [edit EXCEPT ![e] = IF edit[e].article = {} THEN Still
                                   ELSE [edit[e] EXCEPT !.pc = "write"]]
    /\ UNCHANGED <<rows, terms, placed>>

WritePrice(e, a) ==
    /\ edit[e].pc = "write"
    /\ edit[e].article = {a}
    /\ base' = [base EXCEPT ![a] = edit[e].base]
    /\ price' = [price EXCEPT ![a] = ListPrice(edit[e].base, edit[e].fee)]
    /\ asked' = [asked EXCEPT ![a] = edit[e].base]
    /\ edit' = [edit EXCEPT ![e] = Still]
    /\ UNCHANGED <<fee, feesSeen, cache, terms, placed>>

\* CACHE_TTL_MS have passed.
Expire ==
    /\ BeforeCheckout
    /\ cache # Unset
    /\ cache' = Unset
    /\ UNCHANGED <<rows, edit, terms, placed>>

\* COALESCE("basePriceCents", "priceCents")
ListedAgain(a) == price[a]                    \* mutant: the fee is put on top of the old one
OwnPrice(a) == IF base[a] = Unset THEN price[a] ELSE base[a]

\* One transaction: the setting, and every listed price.
SetFee(e, f) ==
    /\ BeforeCheckout
    /\ edit[e] = Still
    /\ f # fee
    /\ fee' = f
    /\ feesSeen' = feesSeen \union {f}
    /\ base' = [a \in Article |-> OwnPrice(a)]
    /\ price' = [a \in Article |-> ListPrice(OwnPrice(a), f)]
    /\ edit' = [edit EXCEPT ![e].pc = "saved"]
    /\ UNCHANGED <<cache, asked, terms, placed>>

\* update drops the cache, and loads it again for its answer.
Invalidate(e) ==
    /\ edit[e].pc = "saved"
    /\ cache' = Unset
    /\ edit' = [edit EXCEPT ![e] = [Still EXCEPT !.pc = "fill", !.fee = fee]]
    /\ UNCHANGED <<rows, terms, placed>>

-----------------------------------------------------------------------------
\* A checkout prices its lines in one transaction, with the commission of each
\* seller's plan, and then the coupon, which is refused if it gives nothing.

PricedLines(cart, rate) == [a \in cart |-> Split(price[a], OwnPrice(a), rate[a])]

Accepts(lines, t) ==
    /\ Subtotal(lines) >= t.minOrder
    /\ EligibleTotal(lines, t) # 0

PlaceLines(cart, rate) ==
    /\ BeforeCheckout
    /\ \A e \in Editor : edit[e] = Still      \* bound: nothing else is under way
    /\ cart # {}
    /\ \/ /\ placed' = PricedLines(cart, rate)
          /\ terms' = Unset
       \/ LET lines == PricedLines(cart, rate) IN
          \E t \in Terms :
            /\ Accepts(lines, t)
            /\ \E up \in RoundedUp(lines, t) :
                /\ placed' = ApplyCoupon(lines, t, up)
                /\ Discount(placed') # 0
                /\ terms' = t
    /\ UNCHANGED <<rows, cache, edit>>

PricesNext ==
    \/ \E e \in Editor :
        \/ \E a \in Edited, b \in Bases : AskFee(e, a, b)
        \/ FillCache(e)
        \/ \E a \in Article : WritePrice(e, a)
        \/ \E f \in Fees : SetFee(e, f)
        \/ Invalidate(e)
    \/ Expire
    \/ \E cart \in SUBSET Article, rate \in [Article -> Rates] : PlaceLines(cart, rate)

PricesSpec == PricesInit /\ [][PricesNext]_pricesVars

-----------------------------------------------------------------------------
\* A price p leaves b after fee f, rounded to whole cents.
Leaves(p, b, f) == p * (BPS - f) >= b * BPS

\* However edits, fee changes and cache fills overlap, what is listed is the
\* least price that leaves the seller what the seller last asked for, after a
\* fee that was in force: no fee is built in twice, and none eats into the
\* seller's price.  Only rows older than fee-inclusive pricing list that itself.
PricedAtSomeFee ==
    \A a \in Article :
        IF base[a] = Unset THEN price[a] = asked[a]
        ELSE \E f \in feesSeen :
                /\ Leaves(price[a], asked[a], f)
                /\ price[a] > 0 => ~ Leaves(price[a] - 1, asked[a], f)

\* On every line of an order the buyer pays what provider, platform and seller
\* get; the provider's part and the seller's are not negative, and a line that
\* costs something keeps a cent.
LinesAddUp ==
    \A a \in DOMAIN placed : LET line == placed[a] IN
        /\ line.price - line.discount = line.fee + line.commission + line.net
        /\ line.fee >= 0
        /\ line.net >= 0
        /\ line.discount >= 0
        /\ line.price > 0 => line.price - line.discount >= 1

\* However a coupon is spread over the lines, the order keeps the least amount the
\* provider can charge; unless a line's cap binds, it gives exactly what it
\* promises: applyCoupon loses and invents no cent.
GivesItsWorth ==
    LET full == [a \in DOMAIN placed |-> [placed[a] EXCEPT !.discount = 0]]
        capped == {a \in Eligible(full, terms) :
                      \/ placed[a].discount >= placed[a].price - 1
                      \/ terms.sellerFunded /\ placed[a].net = 0}
    IN  terms # Unset =>
            /\ Subtotal(placed) - Discount(placed) >= MIN_CHARGE_CENTS
            /\ capped = {} => Discount(placed) = Target(full, terms)

=============================================================================
