SPECIFICATION FairSpec
CONSTANTS
    e1 = e1
    e2 = e2
    w1 = w1
    w2 = w2
    w3 = w3
    r1 = r1
    r2 = r2
    Events = {e1}
    Deliveries = {w1, w2}
    NoDelivery = NoDelivery
    Scheduler = Scheduler
    Requests = {r1}
    FanOuts = {0, 1}
    MaxAttempts = 3
    Following = TRUE
    MaxManual = 1
    MaxCrashes = 1
INVARIANTS
    LadderKept
    OpenIsDriven
PROPERTIES
    FinalIsQuiet
    DeliveryEnds
CHECK_DEADLOCK FALSE
