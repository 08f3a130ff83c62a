SPECIFICATION SqlSpec
CONSTANTS
    N = 2
    Amounts <- MCAmounts
    Currencies = {usd, eur}
    BudgetCurrency = usd
    Budgeted = {TRUE}
    Limit = 2
    TTL = 1
    MaxClock = 2
    NoEntry = NoEntry
    Nobody = Nobody
    Sessions = {s1, s2}
    MaxOps = 5
INVARIANTS
    DeadlockOnlyOnRehold
PROPERTIES
    ImplementsPortButForRehold
    OperationsEnd
CHECK_DEADLOCK FALSE
