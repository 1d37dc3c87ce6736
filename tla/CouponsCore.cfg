\* Two buyers compete for the last use, two requests at once, one product; two
\* editors and a checkout, three articles.
SPECIFICATION SideBySideSpec
CONSTANTS
    Buyer = {b1, b2}
    Product = {p1}
    Order = {o1, o2}
    Handler = {h1, h2}
    None = None
    Limits <- AnyLimit
    PerBuyerLimit = 1
    a1 = a1
    a2 = a2
    a3 = a3
    Article = {a1, a2, a3}
    Edited = {a1}
    Editor = {e1, e2}
    Fees = {0, 499}
    Bases = {1, 101, 333}
    Rates = {0, 1500}
    Terms <- SomeCoupons
    Unset = Unset
INVARIANTS TypesOK PricedAtSomeFee LinesAddUp GivesItsWorth
PROPERTY RedeemedWithinLimits
SYMMETRY Symmetry
CHECK_DEADLOCK FALSE
