SPECIFICATION FairSpec
CONSTANTS
    r1 = r1
    r2 = r2
    r3 = r3
    q1 = q1
    t1 = t1
    t2 = t2
    s1 = s1
    none = none
    NoReq = NoReq
    NoEntry = NoEntry
    Req <- Requests
    Question <- OneQuestion
    Transport <- TwoTransports
    Subnet <- TwoSubnets
    NoSubnet <- none
    Independent = TRUE
    Calls <- IndependentCalls
INVARIANTS
    CacheIsolation
CHECK_DEADLOCK FALSE
