\* No notification need arrive.
SPECIFICATION JobSpec
CONSTANTS
    Order = {o1}
    Attempt = {a1}
    Handler = {h1}
    Job = job
    None = None
    CheckoutResults <- MercadoPago
    HasLookup = TRUE
    HoldDays = 0
    BATCH = 1
    MaxFaults = 0
PROPERTY LostWebhookIsNotFatal
