SPECIFICATION Spec
CONSTANTS
    N = 2
    Amounts <- MCAmounts
    Currencies = {usd, eur}
    BudgetCurrency = usd
    Budgeted = {TRUE, FALSE}
    Limit = 3
    TTL = 1
    MaxClock = 3
    NoEntry = NoEntry
INVARIANTS
    ReservedMatchesHolds
    SpentMatchesCostLedger
    OverspendIsAccountedFor
PROPERTIES
    SettlementIsFinal
