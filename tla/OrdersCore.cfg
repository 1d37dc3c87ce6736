\* One order, one payment, three requests at once, one fault.
SPECIFICATION Spec
CONSTANTS
    Order = {o1}
    Attempt = {a1}
    Handler = {h1, h2, h3}
    Job = job
    None = None
    CheckoutResults <- AnyGateway
    HasLookup = TRUE
    HoldDays = 7
    BATCH = 1
    MaxFaults = 1
INVARIANTS TypeOK LedgerMatchesStatus ReversedWhereItSits SalesCountMatches ProcessedAtMostOnce PaidOnlyForTakenMoney ReversedOnlyForReturnedMoney
PROPERTY ImplementsLifecycle
SYMMETRY Symmetry
