\* One withdrawal and a chargeback, manual payouts.
SPECIFICATION Spec
CONSTANTS
    v1 = v1
    Vendor <- OneVendor
    Withdrawal = {w1}
    Owner <- OneOwner
    Handler = {h1}
    None = None
    PayoutModes <- Manual
    SupportsPayouts = TRUE
    TransferResults <- AnyResult
    MinWithdrawal = 1
    WithdrawalsPerWeek = 1
    MaxEarned = 1
    MaxTaken = 1
    MaxFaults = 0
PROPERTY NoPayoutWhileNegative
