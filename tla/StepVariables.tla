--------------------------- MODULE StepVariables ---------------------------
(***************************************************************************)
(* How the placeholders of a step configuration get from the author to the *)
(* step: they are found and validated when a journey is saved              *)
(* (types/journey.validation.go), those of the static environment are      *)
(* replaced when the journey is compiled (runtime_journey.go), and the     *)
(* rest when the step is executed (types/step.type.go).                    *)
(*                                                                         *)
(* A string is a sequence of symbols, of which "${", "}" and "." have a    *)
(* meaning; offsets count symbols, and the prefix of a placeholder is one. *)
(* The properties of a configuration are named by their path, a sequence   *)
(* of keys; a step without a configuration has null at the path <<>>.      *)
(*                                                                         *)
(* The nodes of a step are the step itself, at the place <<>>, and the     *)
(* steps inside it: <<2, 1>> is the first step inside the second.          *)
(***************************************************************************)
EXTENDS Integers, Sequences, FiniteSets, SequencesExt, FiniteSetsExt

CONSTANTS
    FieldTypes,   \* the Go types of the properties of the step implementations
    FlowTypes,    \* the journey types each step type is registered for
    BuiltIn,      \* the step types of the default registry
    SchemaAccepts(_, _),  \* what the JSON schema of a type says of properties
    VerifyAccepts(_, _),  \* what VerifyConfig of a type says of them, Chain aside
    Symbols,      \* what strings are made of
    Identifiers   \* the symbols that are names: [A-Za-z_][A-Za-z0-9_-]*

Open == "${"
Close == "}"
Dot == "."

ASSUME SymbolAssumption == Identifiers \cap {Open, Close, Dot} = {}

Str(s) == [type |-> "string", value |-> s]
Nil == [type |-> "nil", value |-> <<>>]
Bad(what) == [type |-> "error", value |-> {what}]
Config(props) == [type |-> "config", value |-> props]
Composites == {"Chain", "AsyncWait", "AsyncExec"}
Inside(nodes, at) == {p \in DOMAIN nodes : p # <<>> /\ Front(p) = at}

NextAt(s, symbol, from) == {i \in from..Len(s) : s[i] = symbol}

\* strings.SplitN(path, ".", 2), 0 unless both parts are there.
Split(path) ==
    LET dots == NextAt(path, Dot, 1)
    IN  IF dots = {} THEN 0
        ELSE IF Min(dots) \in {1, Len(path)} THEN 0 ELSE Min(dots)

-----------------------------------------------------------------------------
(***************************************************************************)
(* Saving.                                                                 *)
(***************************************************************************)

\* The error of discoverPlaceholders.
MalformedPlaceholder == <<[template |-> <<>>, startsAt |-> 0, endsAt |-> 0]>>

\* discoverPlaceholders: what it finds from a cursor on.
PlaceholdersFrom(s) ==
    LET from[cursor \in 1..(Len(s) + 1)] ==
          LET opens == NextAt(s, Open, cursor)
              start == Min(opens)
              closes == NextAt(s, Close, start + 1)
              end == Min(closes)
              path == SubSeq(s, start + 1, end - 1)
          IN  IF opens = {} THEN <<>>
              ELSE IF closes = {} \/ Split(path) = 0 \/ from[end + 1] = MalformedPlaceholder
              THEN MalformedPlaceholder
              ELSE <<[template |-> path, startsAt |-> start, endsAt |-> end + 1]>> \o from[end + 1]
    IN  from
DiscoverPlaceholders(s) == PlaceholdersFrom(s)[1]

\* staticPlaceholderPath
StaticPath(path) ==
    \/ path[1] = "outcome"
    \/ \E i \in 2..Len(path) : path[i] = "outcome" /\ path[i - 1] = "config"
    \/ \E i \in 3..Len(path) : path[i] \in {"step_type", "name"} /\ path[i - 2] = "steps"

\* isExactStepPlaceholder
IsExact(s, placeholders) ==
    /\ Len(placeholders) = 1
    /\ placeholders[1].startsAt = 1 /\ placeholders[1].endsAt = Len(s) + 1
    /\ <<Open>> \o placeholders[1].template \o <<Close>> = s

\* inferStepVariableType: "" when the type is any or unknown.
InferType(stepType, path) ==
    IF <<stepType, path>> \in DOMAIN FieldTypes THEN FieldTypes[<<stepType, path>>] ELSE ""

\* The strings of a configuration that discoverVariables looks at: what is under a
\* key "vars", at any level, is not.
Strings(node) == {p \in DOMAIN node.props : node.props[p].type = "string" /\ "vars" \notin Range(p)}
Placeholders(node, p) == DiscoverPlaceholders(node.props[p].value)

\* Properties that define the structure of a journey.
Structural(node, p) == StaticPath(p) \/ (p = <<"steps">> /\ node.type \in Composites)

\* discoverVariables: what it refuses.
Discoverable(node) ==
    \A p \in Strings(node) :
        /\ Placeholders(node, p) # MalformedPlaceholder
        /\ Structural(node, p) => Placeholders(node, p) = <<>>

\* An explicit or an earlier type comes first, then the one of the field, then
\* "string" for a placeholder with text around it.
VariableType(node, p) ==
    LET declared == IF p \in DOMAIN node.vars THEN node.vars[p].type ELSE ""
        inferred == InferType(node.type, p)
    IN  IF declared # "" THEN declared
        ELSE IF inferred # "" THEN inferred
        ELSE IF IsExact(node.props[p].value, Placeholders(node, p)) THEN "" ELSE "string"

\* The metadata of a node, made anew.
WithVariables(node) ==
    [node EXCEPT !.vars = [p \in {q \in Strings(node) : Placeholders(node, q) # <<>>} |->
                              [type |-> VariableType(node, p), placeholders |-> Placeholders(node, p)]]]

\* generateNestedStepVariables: whether it succeeds at a place.
Generates(nodes) ==
    LET ok[at \in DOMAIN nodes] ==
          /\ Discoverable(nodes[at])
          /\ nodes[at].type \in Composites => \A p \in Inside(nodes, at) : ok[p]
    IN  ok

\* GenerateStepVariables: the step with the metadata of all its nodes, Nil when a
\* placeholder is refused.
GenerateStepVariables(step) ==
    IF ~Generates(step.nodes)[<<>>] THEN Nil
    ELSE [step EXCEPT !.nodes = [at \in DOMAIN @ |-> WithVariables(@[at])]]

\* validVariableType
ValidVariableType(type) ==
    type \in {"", "string", "number", "float", "integer", "int", "boolean", "bool", "object", "array"}

\* AsStringOr of a property.
Source(node, p) ==
    IF p \in DOMAIN node.props /\ node.props[p].type = "string" THEN node.props[p].value ELSE <<>>

\* validateStepVariables: the offsets are in order and inside the string, and a
\* token stands where they say.
ValidVars(node) ==
    \A p \in DOMAIN node.vars :
        LET s == Source(node, p)
            ps == node.vars[p].placeholders
        IN  /\ ValidVariableType(node.vars[p].type)
            /\ \A i \in DOMAIN ps :
                 /\ ps[i].startsAt >= (IF i = 1 THEN 1 ELSE ps[i - 1].endsAt)
                 /\ ps[i].endsAt <= Len(s) + 1
                 /\ SubSeq(s, ps[i].startsAt, ps[i].endsAt - 1)
                      = <<Open>> \o ps[i].template \o <<Close>>
                 /\ Split(ps[i].template) # 0

\* NormalizeJourneyType
NormalizeJourneyType(type) ==
    CASE type \in {"resource", "resource-journey", "proxy-journey"} -> "resource"
      [] type \in {"workflow", "workflow-journey"} -> "workflow"
      [] OTHER -> "auth"

\* StepFlowTypes: a step without any runs in authentication journeys.
StepFlowTypes(type) == IF FlowTypes[type] = {} THEN {"auth"} ELSE FlowTypes[type]

\* BLACKLIST_STEPS_CHAIN
ChainBlacklist == {"Chain", "SubJourney", "AsyncWait", "AsyncExec"}

\* ValidateStep, of a type that has no steps to verify.
Configured(node) == <<>> \notin DOMAIN node.props
ValidLeaf(node) ==
    /\ node.type \in DOMAIN FlowTypes
    /\ Configured(node) =>
         SchemaAccepts(node.type, node.props) /\ VerifyAccepts(node.type, node.props) /\ ValidVars(node)

\* Chain.VerifyConfig: the steps directly inside it.
VerifyChain(nodes, at) ==
    \A p \in Inside(nodes, at) :
        /\ nodes[p].type \notin ChainBlacklist
        /\ nodes[p].type \in BuiltIn => ValidLeaf(nodes[p])

\* ValidateStep: the type is registered, and its schema, its VerifyConfig and the
\* variables accept the configuration if there is one.
ValidateStep(nodes, at) ==
    LET node == nodes[at]
    IN  IF node.type # "Chain" THEN ValidLeaf(node)
        ELSE /\ node.type \in DOMAIN FlowTypes
             /\ Configured(node) =>
                  SchemaAccepts(node.type, node.props) /\ VerifyChain(nodes, at) /\ ValidVars(node)

\* ValidateStepForJourneyType
ValidStep(nodes, at, journeyType) ==
    /\ ValidateStep(nodes, at)
    /\ NormalizeJourneyType(journeyType) \in StepFlowTypes(nodes[at].type)

\* validateNestedStepsForJourneyType, at a place.
ValidNested(nodes, journeyType) ==
    LET ok[at \in DOMAIN nodes] ==
          \A p \in Inside(nodes, at) : ValidStep(nodes, p, journeyType) /\ ok[p]
    IN  ok

\* Faulty PrepareJourney: nested steps are not looked at.
PrepareTopLevelOnly(journey) ==
    LET steps == [id \in DOMAIN journey.steps |-> GenerateStepVariables(journey.steps[id])]
    IN  IF /\ journey.start \in DOMAIN journey.steps
           /\ \A id \in DOMAIN steps :
                /\ steps[id] # Nil
                /\ ValidStep(steps[id].nodes, <<>>, journey.type)
                /\ \A o \in DOMAIN steps[id].outcomes :
                     steps[id].outcomes[o] \in {""} \cup DOMAIN steps
        THEN [journey EXCEPT !.type = NormalizeJourneyType(journey.type), !.steps = steps]
        ELSE Nil

\* PrepareJourneyConfiguration: the journey as it is saved, Nil if it is refused.
PrepareJourney(journey) ==
    LET steps == [id \in DOMAIN journey.steps |-> GenerateStepVariables(journey.steps[id])]
    IN  IF /\ journey.start \in DOMAIN journey.steps
           /\ \A id \in DOMAIN steps :
                /\ steps[id] # Nil
                /\ ValidStep(steps[id].nodes, <<>>, journey.type)
                /\ ValidNested(steps[id].nodes, journey.type)[<<>>]
                /\ \A o \in DOMAIN steps[id].outcomes :
                     steps[id].outcomes[o] \in {""} \cup DOMAIN steps
        THEN [journey EXCEPT !.type = NormalizeJourneyType(journey.type), !.steps = steps]
        ELSE Nil

-----------------------------------------------------------------------------
(***************************************************************************)
(* Compiling.                                                              *)
(***************************************************************************)

\* fmt.Sprint of a value.
Text(v) == IF v.type = "string" THEN v.value ELSE IF v.type = "nil" THEN <<>> ELSE <<v.value>>

\* configPlaceholderPattern: ${prefix.path}, the prefix a name, without braces in the path.
PatternAt(s, i) ==
    {j \in (i + 3)..Len(s) :
        /\ s[i] = Open /\ s[i + 1] \in Identifiers /\ s[j] = Close
        /\ \A k \in (i + 1)..(j - 1) : s[k] \notin {Open, Close}
        /\ Split(SubSeq(s, i + 1, j - 1)) = 2}

\* The templates of a string, prefix and path: what FindAllStringSubmatchIndex finds.
Templates(s) ==
    UNION {{SubSeq(s, i + 1, j - 1) : j \in PatternAt(s, i)} : i \in DOMAIN s}

\* The text a builder writes from i on, where texts has what replaces a template.
WrittenFrom(s, texts) ==
    LET from[i \in 1..(Len(s) + 1)] ==
          LET j == Min(PatternAt(s, i))
              template == SubSeq(s, i + 1, j - 1)
          IN  IF i = Len(s) + 1 THEN <<>>
              ELSE IF PatternAt(s, i) = {} THEN <<s[i]>> \o from[i + 1]
              ELSE (IF template \in DOMAIN texts THEN texts[template] ELSE SubSeq(s, i, j)) \o from[j + 1]
    IN  from
Written(s, texts) == WrittenFrom(s, texts)[1]

\* A value that is one placeholder and nothing else.
IsOneTemplate(s) == s # <<>> /\ Len(s) \in PatternAt(s, 1)

\* resolveStaticEnvironmentString; a name that is not in env is an error.
EnvTemplates(s) == {t \in Templates(s) : t[1] = "env"}
EnvName(t) == SubSeq(t, 3, Len(t))
EnvResolves(v, env) == v.type = "string" => \A t \in EnvTemplates(v.value) : EnvName(t) \in DOMAIN env
ResolveStaticString(v, env) ==
    LET s == v.value
    IN  IF v.type # "string" THEN v
        ELSE IF IsOneTemplate(s) /\ s[2] = "env" THEN env[EnvName(SubSeq(s, 2, Len(s) - 1))]
        ELSE Str(Written(s, [t \in EnvTemplates(s) |-> Text(env[EnvName(t)])]))

\* resolveStaticEnvironmentPlaceholders: whether it succeeds, and what it makes.
EnvironmentResolves(step, env) ==
    \A at \in DOMAIN step.nodes : \A p \in DOMAIN step.nodes[at].props :
        EnvResolves(step.nodes[at].props[p], env)
ResolveStatic(step, env) ==
    LET Resolved(node) == [node EXCEPT !.props = [p \in DOMAIN @ |-> ResolveStaticString(@[p], env)]]
    IN  [step EXCEPT !.nodes = [at \in DOMAIN @ |-> Resolved(@[at])]]

\* Faulty CompileStep: the offsets of the saved journey are kept.
CompileKeepingOffsets(step, env) ==
    IF EnvironmentResolves(step, env) THEN ResolveStatic(step, env) ELSE Nil

\* compileRuntimeJourney, for one step: the metadata is made anew after the
\* substitution, with the types that were found when the journey was saved.
CompileStep(step, env) ==
    IF EnvironmentResolves(step, env) THEN GenerateStepVariables(ResolveStatic(step, env)) ELSE Nil

-----------------------------------------------------------------------------
(***************************************************************************)
(* Executing.                                                              *)
(***************************************************************************)

\* resolvePlaceholderValue: a context first, then a resolver of that name.
Lookup(template, contexts, resolvers) ==
    LET prefix == template[1]
        path == SubSeq(template, 3, Len(template))
    IN  IF Split(template) # 2 \/ prefix \notin DOMAIN contexts \cup DOMAIN resolvers THEN Bad("resolver")
        ELSE IF prefix \notin DOMAIN contexts THEN resolvers[prefix]
        ELSE IF path \in DOMAIN contexts[prefix] THEN contexts[prefix][path] ELSE Nil

\* convertStepVariable; of the numbers, Booleans and JSON values it parses the
\* strings of one symbol are enough here.
Convert(s, type, literals) ==
    IF type \in {"", "string"} THEN Str(s)
    ELSE IF Len(s) = 1 /\ s[1] \in DOMAIN literals /\ literals[s[1]] = type
    THEN [type |-> type, value |-> s[1]]
    ELSE Bad("conversion")

\* The text a builder writes up to a placeholder, and all of it.
ReplacedUpTo(s, ps, values) ==
    LET text[i \in 0..Len(ps)] ==
          IF i = 0 THEN <<>>
          ELSE text[i - 1] \o SubSeq(s, IF i = 1 THEN 1 ELSE ps[i - 1].endsAt, ps[i].startsAt - 1)
                 \o Text(values[i])
    IN  text
Replaced(s, ps, values) ==
    ReplacedUpTo(s, ps, values)[Len(ps)]
      \o SubSeq(s, IF ps = <<>> THEN 1 ELSE ps[Len(ps)].endsAt, Len(s))

\* resolveStepVariable
ResolveVariable(s, var, contexts, resolvers, literals) ==
    LET ps == var.placeholders
        values == [i \in DOMAIN ps |-> Lookup(ps[i].template, contexts, resolvers)]
        exact == values[1]
        cut == \E i \in DOMAIN ps : \/ ps[i].startsAt < (IF i = 1 THEN 1 ELSE ps[i - 1].endsAt)
                                    \/ ps[i].endsAt > Len(s) + 1
        native == \/ exact.type = "error" \/ var.type = ""
                  \/ exact.type = var.type /\ var.type \in {"object", "array"}
    IN  IF IsExact(s, ps) /\ native THEN exact
        ELSE IF cut THEN Bad("offsets")
        ELSE IF \E i \in DOMAIN ps : values[i].type = "error" THEN Bad("resolver")
        ELSE Convert(Replaced(s, ps, values), var.type, literals)

\* ResolveStepConfig: every variable replaces its property in a copy (add and
\* apply of configUpdateNode); one that cannot be resolved stops the step.
ResolveStepConfig(node, contexts, resolvers, literals) ==
    LET resolved == [p \in DOMAIN node.vars |->
                        ResolveVariable(Source(node, p), node.vars[p], contexts, resolvers, literals)]
        errors == {p \in DOMAIN resolved : resolved[p].type = "error"}
    IN  IF errors # {} THEN [type |-> "error", value |-> UNION {resolved[p].value : p \in errors}]
        ELSE Config([p \in DOMAIN node.props |-> IF p \in DOMAIN resolved THEN resolved[p]
                                                 ELSE node.props[p]])

-----------------------------------------------------------------------------
(***************************************************************************)
(* Configurations of cached instances (config_placeholders.go).            *)
(***************************************************************************)

\* resolveConfigPlaceholder: contexts are refused, every other prefix needs a resolver.
InstanceResolves(t, contexts, resolvers) ==
    t[1] \notin contexts /\ t[1] \in DOMAIN resolvers /\ resolvers[t[1]].type # "error"

\* resolveConfigStringPlaceholders; nil is written out when there is text around it.
ResolveInstanceString(v, contexts, resolvers) ==
    LET s == v.value
        texts == [t \in Templates(s) |-> IF resolvers[t[1]].type = "nil" THEN <<"<nil>">>
                                         ELSE Text(resolvers[t[1]])]
    IN  IF v.type # "string" THEN v
        ELSE IF \E t \in Templates(s) : ~InstanceResolves(t, contexts, resolvers) THEN Bad("resolver")
        ELSE IF IsOneTemplate(s) THEN resolvers[s[2]] ELSE Str(Written(s, texts))

\* NewCacheConfigPlaceholderResolver and resolveConfigPlaceholders: without any
\* resolver the configuration is passed on as it is.
ResolveInstanceConfig(config, contexts, resolvers) ==
    LET resolved == [p \in DOMAIN config |-> ResolveInstanceString(config[p], contexts, resolvers)]
    IN  IF DOMAIN resolvers = {} THEN Config(config)
        ELSE IF \E p \in DOMAIN resolved : resolved[p].type = "error" THEN Bad("resolver")
        ELSE Config(resolved)
=============================================================================
