\* Requests, webhooks and the job overlap.
SPECIFICATION Spec
CONSTANTS
    Sub = {s1, s2}
    Plan = {free, paid}
    Instant = {free}
    Handler = {h1, h2}
    None = None
    AdminSets = {}
    Lapsing = {}
    MaxStored = 1
INVARIANTS NobodySellsUnpaid OneLivePlan
PROPERTIES StartedPlanStays KeepsAccess
SYMMETRY Symmetry
CHECK_DEADLOCK FALSE
