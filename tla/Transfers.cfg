SPECIFICATION Spec
CONSTANTS
    acc = acc
    r1 = r1
    r2 = r2
    Accounts = {acc}
    Platform = Platform
    Bank = Bank
    MaxTransfers = 2
    Kinds <- MCKinds
    Requests = {r1, r2}
    Opening = 2
    Deposits = {2}
    MaxDeposited = 2
    MaxCharges = 1
    Terms <- MCTerms
    Refunds = {1, 3}
SYMMETRY Alike
INVARIANTS
    NeverOverdrawn
    LedgerMatchesRows
PROPERTIES
    ReversedGainsNothing
CHECK_DEADLOCK FALSE
