SPECIFICATION Spec
CONSTANTS
    Clients <- MCClients
    Ids = {1, 2, 3}
    Names <- MCNames
    Menus <- MCMenus
    Answers = {1, 2}
    SchemaName <- MCSchemaName
    MaxRequests = 3
INVARIANT NamesUnique
CHECK_DEADLOCK FALSE
