SPECIFICATION FairSpec
CONSTANTS
    h1 = h1
    h2 = h2
    h3 = h3
    Callers <- MCCallers
    Leavers <- MCLeavers
    Sids = {s1}
    MaxTokens = 3
    MaxCalls = 4
    MaxClock = 1
    SessionTTL = 0
    RefreshTTL = 0
    Nobody = Nobody
INVARIANTS
    SpentTokensBuyNothing
    RotationIsWhole
    DeadlocksAreRevocations
PROPERTIES
    OperationsEnd
CHECK_DEADLOCK FALSE
