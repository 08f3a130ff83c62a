SPECIFICATION RateSpec
CONSTANTS
    p1 = p1
    h1 = h1
    h2 = h2
    Replicas = {p1}
    Redis = Redis
    Handlers = {h1, h2}
    ReplicaOf <- MCReplicaOf
    Burst = 2
    Unit = 3
    Rate = 1
    Second = 2
    MaxClock = 5
    MaxMishaps = 2
    Never = Never
SYMMETRY Interchangeable
INVARIANTS
    LimitHolds
    ExpiryChangesNoAnswer
    RetryAfterIsEnough
