SPECIFICATION Spec
CONSTANTS
    p1 = p1
    d1 = d1
    p2 = p2
    d2 = d2
    NoPayment = NoPayment
    NoDispute = NoDispute
    Payments = {p1}
    Disputes = {d1}
    MaxRefunds = 3
    Charges <- MCCharges
    RefundAmounts = {0, 1, 2, 3}
    ScenarioTargets <- BuiltInTargets
    MaxReopens = 1
INVARIANTS
    RefundsWithinAmount
    AmountRefundedCovers
    LedgerReconciles
    CollectedOncePerReversal
    DisputeRefundedOnce
PROPERTY
    SettlementIsFinal
CHECK_DEADLOCK FALSE
