SPECIFICATION FairSpec
CONSTANTS
    r1 = r1
    r2 = r2
    r3 = r3
    u1 = u1
    u2 = u2
    None = None
    Requests <- ThreeRequests
    MaxOpen = 2
    MaxIdle = 1
    Lifetime = TRUE
    Anonymous = FALSE
    Urls <- TwoUrls
    Up <- OneUp
INVARIANTS TypeOK PoolIsSound
PROPERTY WaitsEnd
CHECK_DEADLOCK FALSE
