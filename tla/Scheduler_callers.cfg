SPECIFICATION FairSpec
CONSTANTS
    j1 = j1
    j2 = j2
    j3 = j3
    c1 = c1
    NoTime = NoTime
    Jobs = {j1, j2}
    Callers = {c1}
    LeaseMs = 1
    BatchSize = 1
    MaxIterations = 2
    MaxAttempts = 2
    Delays = {0, 1}
    Flowing = TRUE
    ReuseIds = TRUE
    MaxTime = 2
    MaxRunAt = 0
    MaxCrashes = 0
INVARIANTS
    
    ClaimIsExclusive
PROPERTIES
    FinishedIsFinal
    DrainsEnd
