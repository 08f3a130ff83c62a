SPECIFICATION StreamSpec
CONSTANTS
    N = 2
    Amounts <- MCAmounts
    Currencies = {usd, eur}
    BudgetCurrency = usd
    Budgeted = {TRUE, FALSE}
    Limit = 1
    TTL = 1
    MaxClock = 2
    NoEntry = NoEntry
    s1 = s1
    s2 = s2
    k1 = k1
    Streams = {s1, s2}
    StreamIds <- MCStreamIds
    KeyOf <- MCKeyOf
    MaxFaults = 1
INVARIANTS
    StreamHoldsAreOwned
    CompletedIsAccounted
    OnlyWholeAnswersCount
PROPERTIES
    StreamsEnd
CHECK_DEADLOCK FALSE
