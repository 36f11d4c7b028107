SPECIFICATION Spec
CONSTANTS
    EscapedAs <- MCEscapedAs
    FieldTypes <- MCFieldTypes
    FlowTypes <- MCFlowTypes
    BuiltIn <- MCBuiltIn
    SchemaAccepts <- MCSchemaAccepts
    VerifyAccepts <- MCVerifyAccepts
    Symbols <- MCSymbols
    Identifiers <- MCIdentifiers
    Canon <- MCCanon
    CustomTypes <- MCCustomTypes
    RouteInputs <- MCRouteInputs
    ProxyInputs <- MCProxyInputs
    ScriptInputs <- MCScriptInputs
    BindingInputs <- MCBindingInputs
    JourneyInputs <- MCJourneyInputs
    StepInputs <- MCStepInputs
    InstanceInputs <- MCInstanceInputs
    MaxDepth = 2
    Environment <- MCEnvironment
    RunContexts <- MCContexts
    Resolvers <- MCResolvers
    Literals <- MCLiterals
INVARIANTS
    FirstDeclaredRouteWins
    ForwardedAsConfigured
    
    SavedJourneysAreSound
    ScriptsAreAsDescribed
CHECK_DEADLOCK FALSE
