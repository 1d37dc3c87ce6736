\* Two withdrawals, three actors at once, both payout modes, one fault.
SPECIFICATION Spec
CONSTANTS
    v1 = v1
    Vendor <- OneVendor
    Withdrawal = {w1, w2}
    Owner <- OneOwner
    Handler = {h1, h2}
    None = None
    PayoutModes <- EitherMode
    SupportsPayouts = TRUE
    TransferResults <- AnyResult
    MinWithdrawal = 1
    WithdrawalsPerWeek = 1
    MaxEarned = 2
    MaxTaken = 1
    MaxFaults = 1
INVARIANTS TypeOK HoldReturnedOnce TransferredOnce ReturnedOnlyIfNotSent OneOpenWithdrawal WithinWeeklyLimit OverdrawnOnlyByRefunds
PROPERTY FinalStaysFinal
SYMMETRY Symmetry
