CONSTANTS
    c1 = c1
    c2 = c2
    c3 = c3
    o1 = o1
    o2 = o2
    k1 = k1
    k2 = k2
    none = none
    Calls <- MCCalls
    Orgs <- MCOrgs
    LockKeys <- MCLockKeys
    LockKey <- MCLockKey
    Nobody = none
SPECIFICATION MCSpec
INVARIANTS
    ChainIntact
    NoSilentGap
PROPERTIES
    ImplementsLog
    RecordingEnds
CHECK_DEADLOCK FALSE
