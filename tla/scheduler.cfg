SPECIFICATION Spec
CONSTANTS
    a = a
    b = b
    c1 = c1
    l1 = l1
    l2 = l2
    m1 = m1
    None = None
    Ids <- OneId
    Callers <- OneCaller
    Loops <- TwoLoops
    Admins <- OneAdmin
    Stored <- Unlimited
    Bodies <- Edits
    Uses <- Nothing
    Timed <- Nothing
    Faults <- Nothing
    MaxExecs = 1
SYMMETRY Symmetry
INVARIANTS TypeOK SingleFlight
CHECK_DEADLOCK FALSE
