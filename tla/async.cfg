SPECIFICATION FairSpec
CONSTANTS
    Scenarios <- MCScenarios
    Listeners = {l1, l2}
INVARIANTS
    TypeOK
    AnswersAreTrue
    SharedStateAgrees
PROPERTIES
    EverythingEnds
    EndsAreHeard
CHECK_DEADLOCK FALSE
