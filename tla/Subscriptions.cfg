SPECIFICATION FairSpec
CONSTANTS
    r1 = r1
    Requests = {r1}
    NoDate = NoDate
    Interval = 2
    Lead = 1
    Limits = {2}
    MaxTime = 2
    MaxRequests = 3
    MaxCrashes = 1
INVARIANTS
    BilledAsAgreed
PROPERTIES
    TrialConverts
CHECK_DEADLOCK FALSE
