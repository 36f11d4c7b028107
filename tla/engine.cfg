SPECIFICATION FairSpec
CONSTANTS
    Journeys <- MCJourneys
    Steps <- MCSteps
    Root = "Login"
    Encrypted = {"Profile"}
    StartOf <- MCStart
    Conf <- MCConf
    Answers = {"", "done", "over", "other", "null"}
    MaxTick = 2
    SlowSteps <- MCSlow
    None = None
INVARIANTS
    TypeOK
    CallDiscipline
    PauseCanBeAnswered
PROPERTIES
    ReturnsChildResult
    InvocationEnds
CHECK_DEADLOCK FALSE
