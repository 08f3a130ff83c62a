SPECIFICATION CoordSpec
CONSTANTS
    N = 2
    Amounts <- MCAmounts
    Currencies = {usd, eur}
    BudgetCurrency = usd
    Budgeted = {TRUE, FALSE}
    Limit = 1
    TTL = 1
    MaxClock = 2
    NoEntry = NoEntry
    r1 = r1
    r2 = r2
    pA = pA
    pB = pB
    k1 = k1
    Requests = {r1, r2}
    Replicas = {pA, pB}
    Placements <- MCPlacements
    KeyOf <- MCKeyOf
    Early = {}
    MaxFaults = 1
    NoTask = NoTask
INVARIANTS
    HoldsAreOwned
    HoldCoversCall
    CachedIsAccounted
PROPERTIES
    CallersAreAnswered
    AbandonedHoldsReturn
CHECK_DEADLOCK FALSE
