SPECIFICATION BreakerSpec
CONSTANTS
    Providers = {1, 2}
    r1 = r1
    r2 = r2
    Requests = {r1, r2}
    FailureThreshold = 2
    Cooldown = 1
    MaxAttempts = 2
    MaxClock = 2
    Never = Never
INVARIANTS
    ClosedIffShortStreak
PROPERTIES
    NoAdmissionWhileCooling
    OpenCircuitsReopenToTraffic
