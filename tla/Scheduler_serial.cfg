SPECIFICATION FairSpec
CONSTANTS
    j1 = j1
    j2 = j2
    j3 = j3
    c1 = c1
    NoTime = NoTime
    Jobs = {j1, j2}
    Callers = {}
    LeaseMs = 1
    BatchSize = 2
    MaxIterations = 2
    MaxAttempts = 2
    Delays = {0, 1}
    Flowing = TRUE
    ReuseIds = FALSE
    MaxTime = 3
    MaxRunAt = 2
    MaxCrashes = 1
INVARIANTS
    NeverEarly
    RunsOncePerCrash
PROPERTIES
    EveryJobEnds
