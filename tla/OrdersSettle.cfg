\* The settle job alone answers for the payments of one order.
SPECIFICATION JobSpec
CONSTANTS
    Order = {o1}
    Attempt = {a1}
    Handler = {h1}
    Job = job
    None = None
    CheckoutResults <- MercadoPago
    HasLookup = TRUE
    HoldDays = 7
    BATCH = 1
    MaxFaults = 1
PROPERTY PendingSettles
