SPECIFICATION Spec
CONSTANTS
    Handlers = {1, 2}
    Asked = {1, 3}
    Platform = Platform
    Account = Account
    Sales <- MCSales
    RefundOf <- MCRefundOf
    DisputeOf <- MCDisputeOf
    Rate <- MCRate
    Opening = 3
    WarningFee = 1
    DisputeFee = 1
    Tools = TRUE
    MaxCrashes = 1
INVARIANTS
    EachMovementOnce
    SweptLedgerMatchesRows
CHECK_DEADLOCK FALSE
