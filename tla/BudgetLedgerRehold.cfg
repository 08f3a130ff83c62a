SPECIFICATION Spec
CONSTANTS
    N = 2
    Amounts <- MCAmounts
    Currencies = {usd, eur}
    BudgetCurrency = usd
    Budgeted = {TRUE}
    Limit = 3
    TTL = 1
    MaxClock = 3
    NoEntry = NoEntry
PROPERTIES
    FreshHoldSurvives
