SPECIFICATION Spec
CONSTANTS
    c1 = c1
    c2 = c2
    l1 = l1
    l2 = l2
    k1 = k1
    k2 = k2
    Callers <- MCCallers
    Logins <- MCLogins
    KeySets <- MCKeySets
    Kids <- MCKids
    None = None
    TTL = 2
    MinInterval = 2
    Timeout = 1
INVARIANT LoginsAreSingleUse
INVARIANT MissesFetchOneByOne
PROPERTY RetiredKeysExpire
CHECK_DEADLOCK FALSE
