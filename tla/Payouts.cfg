SPECIFICATION Spec
CONSTANTS
    q = q
    v = v
    Requests = {1, 2}
    Asks <- MCAsks
    Quotes = {q, v}
    NoQuote = NoQuote
    Price <- MCOne
    AutoRefs = {11, 12}
    Slots = {1, 2, 3}
    Opening = 1
    Intervals = {"daily", "instant"}
    FirstInterval = "daily"
    MaxVersion = 3
    MaxFaults = 1
    Limit = 2
    Tools = TRUE
INVARIANTS
    CollectionPaidOnce
    QuoteMovesMoneyOnce

CHECK_DEADLOCK FALSE
