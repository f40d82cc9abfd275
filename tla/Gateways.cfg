CONSTANTS
    Outcomes = {"success", "declined", "authentication_required"}
    a = a
    b = b
    Callers = {a, b}
    Poll = poll
    MaxJobs = 2
    MaxAttempts = 2
    MaxDeaths = 0
    MaxRequests = 3
    Modelled = {"kora", "flutterwave", "tingg", "wewire", "quiddpay", "paystack", "stripe", "wise"}
    Steered = {"kora", "tingg", "quiddpay", "wise"}
SPECIFICATION Spec
SYMMETRY Alike
INVARIANTS OutcomeIsDriven PaidAttemptOnce
PROPERTIES PromiseKept
CHECK_DEADLOCK FALSE
