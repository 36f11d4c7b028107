SPECIFICATION Spec
CONSTANTS
    h1 = h1
    h2 = h2
    h3 = h3
    h4 = h4
    h5 = h5
    h6 = h6
    w1 = w1
    w2 = w2
    s1 = s1
    None = None
    Handles <- MCHandles
    Workers <- MCWorkers
    Sessions <- MCSessions
    DefaultTTL = 1
    DefaultExp = 2
    SuspendExp = 1
    Extensions <- ShortenOrExtend
    Waits = {1}
INVARIANTS TypeOK AtMostOneRun NoFork
PROPERTIES OneShotHandles
