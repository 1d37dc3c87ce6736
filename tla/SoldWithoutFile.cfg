\* One request at a time, one product that starts as a complete draft.
SPECIFICATION ProductsSpec
CONSTANTS
    Product = {p1}
    File = {f1}
    Handler = {h1}
    None = None
    PlanLimits = {1}
    LargestLimit = 1
    Prepared = {p1}
    Traded = {p1}
    AdminSets = {}
INVARIANT SoldHasFile
CHECK_DEADLOCK FALSE
