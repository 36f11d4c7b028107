SPECIFICATION FairSpec
CONSTANTS
    Clients <- MCClients
    Ids = {1, 2, 3}
    Names <- MCNames
    Menus <- MCMenus
    Answers = {1, 2}
    SchemaName <- MCSchemaName
    MaxRequests = 3
INVARIANTS
    TypeOK
    RunsWhatWasStored
    PathsAreTrue
    MadeOnce
    ValidatorsMatchStore
PROPERTIES
    Answered
CHECK_DEADLOCK FALSE
