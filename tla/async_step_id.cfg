SPECIFICATION FairSpec
CONSTANTS
    Scenarios <- MCScenarios
    Listeners = {l1, l2}
INVARIANT OwnStepID
CHECK_DEADLOCK FALSE
