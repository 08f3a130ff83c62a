SPECIFICATION FairSpec
CONSTANTS
    k1 = k1
    j2 = j2
    o1 = o1
    o2 = o2
    p1 = p1
    p2 = p2
    Creds <- MCCreds
    KindOf <- MCKindOf
    Orgs <- MCOrgs
    OrgOf <- MCOrgOf
    Providers <- MCProviders
    OwnerOf <- MCOwnerOf
    MaxAttempts = 2
    Allowance = 1
    None = None
INVARIANT CallsAreAdmitted
INVARIANT NoFalseRefusal
PROPERTY RequestsAreAnswered
CHECK_DEADLOCK FALSE
