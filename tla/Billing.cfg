SPECIFICATION BillingSpec
CONSTANTS
    Period = 2
    RetryOffsets <- Offsets
    Recoveries = {"cancel", "unpaid"}
    Prices = {2, 4}
    MaxTime = 4
    MaxEvents = 2
INVARIANTS PaidForOnce GoesOn
PROPERTIES RecoveryEnds
CHECK_DEADLOCK FALSE
