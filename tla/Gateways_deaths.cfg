CONSTANTS
    Outcomes = {"success", "declined", "authentication_required"}
    a = a
    b = b
    Callers = {a}
    Poll = poll
    MaxJobs = 2
    MaxAttempts = 2
    MaxDeaths = 1
    MaxRequests = 4
    Modelled = {"kora", "flutterwave", "tingg", "wewire", "quiddpay", "paystack", "stripe", "wise"}
    Steered = {}
SPECIFICATION FairSpec
INVARIANTS KeyedOnce
PROPERTIES OutcomeArrives
CHECK_DEADLOCK FALSE
