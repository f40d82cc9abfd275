SPECIFICATION Spec
CONSTANTS
    Modes = {"save", "subscription", "trial", "setup"}
    Callers = {1}
    Poll = poll
    None = none
    MaxTools = 1
    MaxDeaths = 1
INVARIANTS OneEnding FulfilledWhole VarianceOnce
PROPERTIES OnItsWaySettles SessionCloses PaidIsFulfilled
CHECK_DEADLOCK FALSE
