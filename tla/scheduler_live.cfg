SPECIFICATION FairSpec
CONSTANTS
    a = a
    b = b
    c1 = c1
    l1 = l1
    l2 = l2
    m1 = m1
    None = None
    Ids <- TwoIds
    Callers <- OneCaller
    Loops <- OneLoop
    Admins <- Nothing
    Stored <- PairOnDemand
    Bodies <- Nothing
    Uses <- AUsesB
    Timed <- Nothing
    Faults <- Nothing
    MaxExecs = 2
PROPERTIES EveryCallReturns LimitedScheduleEnds
CHECK_DEADLOCK FALSE
