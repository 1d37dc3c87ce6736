\* Two requests at once: on three products, or on two reviews of one product.
SPECIFICATION Spec
CONSTANTS
    p1 = p1
    p2 = p2
    p3 = p3
    Product = {p1, p2, p3}
    File = {f1}
    Handler = {h1, h2}
    None = None
    PlanLimits = {1}
    LargestLimit = 1
    Prepared = {p2, p3}
    Traded = {p1}
    AdminSets = {"ACTIVE", "SUSPENDED"}
    Purchase = {o1, o2}
    Rating = {1, 5}
    Writer = {w1, w2}
    MaxStale = 1
INVARIANTS TypesOK ListedWithinPlan OnSaleWasApproved SoldIsKept RatingIsOfVisible RefundedIsNotReviewed
SYMMETRY Symmetry
CHECK_DEADLOCK FALSE
