\* Two payments of one order; notifications arrive, nothing fails.
SPECIFICATION DeliverySpec
CONSTANTS
    Order = {o1}
    Attempt = {a1, a2}
    Handler = {h1}
    Job = job
    None = None
    CheckoutResults <- MercadoPago
    HasLookup = TRUE
    HoldDays = 0
    BATCH = 1
    MaxFaults = 0
PROPERTIES ApprovedIsHonoured DashboardRefundReachesPaidOrder
