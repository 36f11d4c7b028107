SPECIFICATION Spec
CONSTANTS
    a = a
    b = b
    c1 = c1
    l1 = l1
    l2 = l2
    m1 = m1
    None = None
    Ids <- TwoIds
    Callers <- OneCaller
    Loops <- TwoLoops
    Admins <- Nothing
    Stored <- PairOnce
    Bodies <- Nothing
    Uses <- AUsesB
    Timed <- OneId
    Faults <- AllFaults
    MaxExecs = 2
SYMMETRY Symmetry
INVARIANTS MaxRunsRespected StoreIsTruthful AnswersAreFresh
CHECK_DEADLOCK FALSE
