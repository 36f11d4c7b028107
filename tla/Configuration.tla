--------------------------- MODULE Configuration ---------------------------
(***************************************************************************)
(* What the code makes of one configured thing: the route a request is     *)
(* given, the request the HTTPProxy step forwards, the outcome a script    *)
(* ends in and the names it finds bound, the journey that is saved, and    *)
(* the configuration a step or an instance gets.  Every behaviour starts   *)
(* with one input; the step of its kind computes the result, and the       *)
(* properties compare that with a definition that says what is promised    *)
(* without saying how it is done.                                          *)
(***************************************************************************)
EXTENDS RouteTable, ScriptStep, StepVariables

CONSTANTS
    RouteInputs,    \* a table of routes and a request to look up
    ProxyInputs,    \* a table, the configuration of an HTTPProxy step, a request
    ScriptInputs,   \* a script, what it calls and the outcomes of its step
    BindingInputs,  \* a type of scripts and the providers of bindings
    JourneyInputs,  \* a journey to save
    StepInputs,     \* a step and the place in it to execute
    InstanceInputs, \* the configuration of an instance and the resolvers of its host
    MaxDepth,       \* how deep steps are nested
    Environment,    \* the static environment
    RunContexts,    \* what each context of a running step has
    Resolvers,      \* what each registered resolver answers to a step
    Literals        \* the symbols that are numbers or Booleans, with their type

-----------------------------------------------------------------------------
(***************************************************************************)
(* What inputs look like.                                                  *)
(***************************************************************************)
Tokens == [kind : {"literal", "param"}, value : STRING] \cup {Star, Rest}
HostPatterns == {h \in [kind : {"any", "wildcard", "exact"}, labels : Seq(STRING)] :
                     h.kind = "any" => h.labels = <<>>}
URIs == [scheme : STRING, host : HostPatterns, path : Seq(Tokens)]

IsTable(routes) ==
    /\ routes \in Seq(Range(routes))
    /\ \A i \in DOMAIN routes : routes[i].uris \in Seq(URIs) /\ routes[i].upstream.known \in BOOLEAN

IsRequest(req) == req.host \in Seq(STRING) /\ req.path \in Seq(STRING)

IsPolicy(p) == p.source \in {"header", "query"} /\ (p.kind = "equals" => \E v \in p.values : p.values = {v})

\* A rewrite is by whole segments; a configured base has a scheme, a host and a path,
\* the first two of which may be missing.
IsProxyConfig(config) ==
    /\ \A p \in DOMAIN config.rewrites : p \in Seq(STRING) /\ config.rewrites[p] \in Seq(STRING)
    /\ config.base # <<>> => config.base[1][2] \in Seq(STRING) /\ config.base[2] \in Seq(STRING)

ASSUME RouteAssumption ==
    \A c \in RouteInputs : c.kind = "route" /\ IsTable(c.routes) /\ IsRequest(c.req)

ASSUME ProxyAssumption ==
    \A c \in ProxyInputs :
        /\ c.kind = "proxy" /\ IsTable(c.table.routes) /\ IsRequest(c.req) /\ IsProxyConfig(c.config)
        /\ \A i \in DOMAIN c.table.routes : \A j \in DOMAIN c.table.routes[i].policies :
               IsPolicy(c.table.routes[i].policies[j])

ASSUME ScriptAssumption ==
    \A c \in ScriptInputs :
        /\ c.kind = "script" /\ c.hasDeclared \in BOOLEAN /\ c.catches \in BOOLEAN
        /\ c.declared \in Seq(DOMAIN Canon) /\ c.calls \in Seq(DOMAIN Canon)

\* Only scripts of their own type are the target of schedules (runScriptTarget).
ASSUME BindingAssumption ==
    \A c \in BindingInputs :
        /\ c.kind = "bindings" /\ c.runBy \in {"step", "schedule"}
        /\ c.runBy = "schedule" => NormalizeScriptType(c.type) = "schedule"

\* A configured value, or one that a placeholder stands for; a resolver may fail.
IsValue(v) == v = [type |-> v.type, value |-> v.value] /\ v.type # "error" /\ Text(v) \in Seq(Symbols)
IsResolver(v) == IsValue(v) \/ v = Bad("resolver")

IsNode(node) ==
    /\ node = [type |-> node.type, props |-> node.props, vars |-> node.vars]
    /\ \A p \in DOMAIN node.props : IsValue(node.props[p])
    /\ ~Configured(node) => DOMAIN node.props = {<<>>} /\ node.props[<<>>] = Nil

\* The nodes of a step are a tree, and only Chain and the asynchronous steps have
\* steps inside, in their configuration.
IsStep(step) ==
    /\ step = [outcomes |-> step.outcomes, nodes |-> step.nodes]
    /\ <<>> \in DOMAIN step.nodes
    /\ \A at \in DOMAIN step.nodes :
         /\ at \in Seq(Nat) /\ Len(at) <= MaxDepth /\ IsNode(step.nodes[at])
         /\ at # <<>> => /\ Front(at) \in DOMAIN step.nodes
                         /\ step.nodes[Front(at)].type \in Composites /\ Configured(step.nodes[Front(at)])

ASSUME JourneyAssumption ==
    /\ MaxDepth \in Nat
    /\ \A c \in JourneyInputs :
         /\ c.kind = "journey"
         /\ c.journey = [type |-> c.journey.type, start |-> c.journey.start, steps |-> c.journey.steps]
         /\ \A id \in DOMAIN c.journey.steps : IsStep(c.journey.steps[id])

\* The type of a Go field is one that variables have (inferStepVariableType).
ASSUME FieldAssumption == \A f \in DOMAIN FieldTypes : ValidVariableType(FieldTypes[f])

ASSUME StepAssumption ==
    \A c \in StepInputs :
        c.kind = "step" /\ IsStep(c.step) /\ c.at \in DOMAIN c.step.nodes

ASSUME ValueAssumption ==
    /\ "<nil>" \in Symbols
    /\ \A n \in DOMAIN Environment : IsValue(Environment[n])
    /\ \A x \in DOMAIN RunContexts : \A n \in DOMAIN RunContexts[x] : IsValue(RunContexts[x][n])
    /\ \A x \in DOMAIN Resolvers : IsResolver(Resolvers[x])

ASSUME InstanceAssumption ==
    \A c \in InstanceInputs :
        /\ c.kind = "instance" /\ \A p \in DOMAIN c.config : IsValue(c.config[p])
        /\ \A x \in DOMAIN c.resolvers : IsResolver(c.resolvers[x])

-----------------------------------------------------------------------------
VARIABLES input, output
vars == <<input, output>>

\* What was computed, once it is: a sequence of at most one element.
None == <<>>
Result == output[1]

Init ==
    /\ \/ input \in RouteInputs \/ input \in ProxyInputs
       \/ input \in ScriptInputs \/ input \in BindingInputs
       \/ input \in JourneyInputs \/ input \in StepInputs \/ input \in InstanceInputs
    /\ output = None

Compute(kind) == output = None /\ input.kind = kind /\ UNCHANGED input

MatchRoute == Compute("route") /\ output' = <<Match(input.routes, input.req)>>

ForwardRequest == Compute("proxy") /\ output' = <<Proxy(input.table, input.config, input.req)>>

RunScript ==
    /\ Compute("script")
    /\ LET script == SavedScript([type |-> input.type, declared |-> input.declared,
                                  hasDeclared |-> input.hasDeclared])
       IN  output' = <<[script |-> script, end |-> ExecuteScript(script, input.calls, input.catches, input.asks)]>>

BindScript ==
    /\ Compute("bindings")
    /\ output' = <<[described |-> Descriptors(input.type, input.providers),
                    bound |-> IF input.runBy = "schedule" THEN ResolvedScheduleBindings(input.providers)
                              ELSE StepBindings(input.type, input.providers)]>>

SaveJourney == Compute("journey") /\ output' = <<PrepareJourney(input.journey)>>

\* Save, compile and execute.  A refused step stays refused.
RunStep ==
    /\ Compute("step")
    /\ LET saved == GenerateStepVariables(input.step)
           compiled == CompileStep(saved, Environment)
       IN  output' = <<IF saved = Nil THEN Bad("save")
                       ELSE IF \E at \in DOMAIN saved.nodes : ~ValidateStep(saved.nodes, at) THEN Bad("save")
                       ELSE IF compiled = Nil THEN Bad("compile")
                       ELSE ResolveStepConfig(compiled.nodes[input.at], RunContexts, Resolvers, Literals)>>

ConfigureInstance ==
    /\ Compute("instance")
    /\ output' = <<ResolveInstanceConfig(input.config, DOMAIN RunContexts, input.resolvers)>>

Next ==
    \/ MatchRoute \/ ForwardRequest \/ RunScript \/ BindScript
    \/ SaveJourney \/ RunStep \/ ConfigureInstance

Spec == Init /\ [][Next]_vars

-----------------------------------------------------------------------------
Computed(kind) == output # None /\ input.kind = kind

\* Route table: the tree with its pruning finds the first route, in the order of
\* declaration, that fits the request, with the segments it captured.
FirstDeclaredRouteWins ==
    Computed("route") => Result = FirstDeclared(input.routes, input.req)

\* What a policy asks of a request: a header or parameter that is sent, and that
\* is one of the values; an absent one is the empty string to a pattern.
Allows(p, req) ==
    LET given == IF p.source = "query" THEN req.query ELSE req.headers
        sent == p.name \in DOMAIN given /\ given[p.name] # ""
    IN  \/ p.kind = ""
        \/ /\ p.name # "" /\ sent
           /\ p.kind = "present" \/ (p.kind \in {"equals", "matches"} /\ given[p.name] \in p.values)
        \/ /\ p.name # "" /\ ~sent
           /\ p.kind = "matches" /\ "" \in p.values /\ p.values # {""}

\* A header comes from the innermost layer that speaks of it, and from the client
\* only if it is not hop-by-hop.
InnermostHeader(n, headers, hop, layers) ==
    LET speaking == {i \in DOMAIN layers : n \in layers[i].strip \cup DOMAIN layers[i].add}
        inner == CHOOSE i \in speaking : \A j \in speaking : j <= i
    IN  IF speaking # {}
        THEN IF n \in DOMAIN layers[inner].add THEN {layers[inner].add[n]} ELSE {}
        ELSE IF n \in DOMAIN headers /\ n \notin hop THEN {headers[n]} ELSE {}

\* A body keeps its Content-Type, even if a layer strips it.
ExpectedHeader(n, req, hop, layers) ==
    LET said == InnermostHeader(n, req.headers, hop, layers)
    IN  IF said = {} /\ n = "Content-Type" /\ req.bodyType # "" THEN {req.bodyType} ELSE said

\* What an answer of the step owes to its configuration.
Forwarded(table, config, req, result) ==
    LET uri == EffectiveURI(config, req)
        chosen == FirstDeclared(table.routes, RequestOf(uri, req.method))
        route == table.routes[chosen.order]
        layers == <<table.layer, route.upstream, route.layer>>
        allowed == \A i \in DOMAIN route.policies : Allows(route.policies[i], req)
        direct == config.base # <<>> \/ route.upstream.url = ""
        able == config.savable /\ req.readable /\ (direct \/ route.upstream.parses)
        Expected(n) == ExpectedHeader(n, req, table.hop, layers)
    IN  /\ result.status = IF chosen = NoTable THEN 404 ELSE IF ~Complete(uri) THEN 0
                           ELSE IF chosen.order = 0 THEN 404 ELSE IF ~allowed THEN 403
                           ELSE IF ~able THEN 0 ELSE IF req.upstreamFails THEN 502 ELSE 200
        /\ result.status \in {200, 502} =>
             /\ direct => result.target.base = uri.base /\ result.target.path = Escaped(uri.path)
             /\ ~direct
                  => /\ result.target.base = route.upstream.url
                     /\ result.target.path =
                          Escaped(route.upstream.path
                                    \o IF route.rewrite = <<>> THEN Escaped(uri.path)
                                       ELSE ApplyRewrite(route.rewrite, chosen, Escaped(uri.path)))
             /\ result.answer \cap (table.hop \cup {"Content-Length"}) = {}
             /\ \A n \in DOMAIN result.headers : Expected(n) = {result.headers[n]}
             /\ \A n \in DOMAIN req.headers \cup UNION {DOMAIN layers[i].add : i \in 1..3} :
                    n \notin DOMAIN result.headers => Expected(n) = {}

\* HTTPProxy: the first declared route decides.  A request is forwarded only if
\* every policy of it holds, the hop-by-hop headers of the client never pass and
\* those of the upstream never come back, and of table, upstream and route the
\* innermost that speaks of a header decides, except that a Content-Type they strip is
\* put back.  A path reaches its own host as it was asked for; what an upstream gets of
\* it is escaped once more.
ForwardedAsConfigured ==
    Computed("proxy") => Forwarded(input.table, input.config, input.req, Result)

\* Scripts: a script that declares outcomes ends in one of them, and whichever way
\* outcomes are spelled in script and step, the one it calls last, blank ones
\* aside, leads to the targets of that name.
ScriptsEndInDeclaredOutcomes ==
    Computed("script") /\ Result.end.ok =>
        /\ IsRunnableScriptType(Result.script.type)
        /\ Result.end.outcome = "" => input.asks
        /\ Result.end.outcome # "" =>
             \E last \in DOMAIN input.calls :
                 LET name == Canon[input.calls[last]]
                 IN  /\ \A i \in DOMAIN input.calls : i > last => Canon[input.calls[i]] = ""
                     /\ Result.script.hasDeclared =>
                          \E i \in DOMAIN input.declared : Canon[input.declared[i]] = name
                     /\ OutcomeTargets(input.outcomes, Result.end.outcome)
                          = {input.outcomes[n] : n \in {m \in DOMAIN input.outcomes : Canon[m] = name}}

\* Script bindings: a name the REST API lists for a type of scripts is bound when a
\* script of the type runs, in a step or in a schedule, except what the host's own
\* provider describes and does not bind, and except the result of a schedule in a
\* Script step.  A provider that replaces the default bindings has to describe its own.
DescribedBindingsAreBound ==
    Computed("bindings") /\ Result.described.ok /\ Result.bound.ok =>
        LET configured == ConfiguredBindings(input.type, input.providers)
            silent == configured # <<>> /\ configured[1].mode = "replace" /\ ~configured[1].describes
            hosts == IF configured = <<>> THEN {} ELSE configured[1].described \ configured[1].bound
            results == IF NormalizeScriptType(input.type) = "schedule" /\ input.runBy = "step"
                       THEN {"previousResult", "SetResult"} ELSE {}
        IN  silent \/ Result.described.names \ Result.bound.names \subseteq hosts \cup results

\* A script finds what the REST API describes and ends where its step says.
ScriptsAreAsDescribed == ScriptsEndInDeclaredOutcomes /\ DescribedBindingsAreBound

-----------------------------------------------------------------------------
(***************************************************************************)
(* What a configured string stands for, said without offsets: which of its *)
(* symbols belong to placeholders, and the text with these replaced.       *)
(***************************************************************************)

\* Whether a placeholder is open after so many symbols.
InsideUpTo(s) ==
    LET in[n \in 0..Len(s)] == IF n = 0 THEN FALSE
                               ELSE IF in[n - 1] THEN s[n] # Close ELSE s[n] = Open
    IN  in

\* A span is the first and the last place of a placeholder.
TemplateOf(s, span) == SubSeq(s, span[1] + 1, span[2] - 1)

\* The placeholders of a step: from "${" to the next "}", whatever is in between.
PlacedAt(s, i, j) ==
    /\ i < j /\ s[i] = Open /\ ~InsideUpTo(s)[i - 1] /\ s[j] = Close
    /\ \A k \in (i + 1)..(j - 1) : s[k] # Close
Placed(s) == {span \in (DOMAIN s) \X (DOMAIN s) : PlacedAt(s, span[1], span[2])}
WellFormed(s) == ~InsideUpTo(s)[Len(s)] /\ \A span \in Placed(s) : Split(TemplateOf(s, span)) # 0
Whole(s) == <<1, Len(s)>> \in Placed(s)

\* The placeholders of the environment and of instances: a name, and no braces inside.
PatternedAt(s, i, j) ==
    /\ i + 4 <= j /\ s[i] = Open /\ s[i + 1] \in Identifiers /\ s[i + 2] = Dot /\ s[j] = Close
    /\ \A k \in (i + 1)..(j - 1) : s[k] \notin {Open, Close}
Patterns(s) == {span \in (DOMAIN s) \X (DOMAIN s) : PatternedAt(s, span[1], span[2])}

\* The text with a text in the place of each span.
Filled(s, spans, texts) ==
    FlattenSeq([k \in DOMAIN s |->
        IF \E span \in spans : span[1] = k
        THEN texts[TemplateOf(s, CHOOSE span \in spans : span[1] = k)]
        ELSE IF \E span \in spans : span[1] < k /\ k <= span[2] THEN <<>> ELSE <<s[k]>>])

Same(v, w) == v.type = w.type /\ v.value = w.value

-----------------------------------------------------------------------------
\* What an author may write: placeholders that are closed and name something, none
\* in what defines the structure of a journey, and no unknown types.
WellWritten(node) ==
    \A p \in Strings(node) :
        LET s == node.props[p].value
        IN  WellFormed(s) /\ (Placed(s) # {} => ~Structural(node, p))
TypesKnown(node) ==
    \A p \in Strings(node) \cap DOMAIN node.vars :
        Placed(node.props[p].value) # {} => ValidVariableType(node.vars[p].type)

\* What is taken of the nodes of a step, whatever the journey: known types, what
\* their schemas and their own checks accept, no Chain, SubJourney or asynchronous
\* step directly in a Chain, and what is well written.
Admitted(nodes, at) ==
    LET node == nodes[at]
    IN  /\ node.type \in DOMAIN FlowTypes
        /\ Configured(node) => /\ SchemaAccepts(node.type, node.props)
                               /\ node.type = "Chain" \/ VerifyAccepts(node.type, node.props)
        /\ at # <<>> /\ nodes[Front(at)].type = "Chain" =>
             node.type \notin {"Chain", "SubJourney", "AsyncWait", "AsyncExec"}
        /\ WellWritten(node) /\ TypesKnown(node)

Sound(journey) ==
    /\ journey.start \in DOMAIN journey.steps
    /\ \A id \in DOMAIN journey.steps :
         LET step == journey.steps[id]
         IN  /\ \A o \in DOMAIN step.outcomes : step.outcomes[o] \in {""} \cup DOMAIN journey.steps
             /\ \A at \in DOMAIN step.nodes :
                  /\ Admitted(step.nodes, at)
                  /\ NormalizeJourneyType(journey.type) \in StepFlowTypes(step.nodes[at].type)

\* The metadata of a saved node is about all its placeholders, and where they are.
DescribedBy(node, saved) ==
    /\ saved.type = node.type /\ saved.props = node.props
    /\ DOMAIN saved.vars = {p \in Strings(node) : Placed(node.props[p].value) # {}}
    /\ \A p \in DOMAIN saved.vars :
         LET ps == saved.vars[p].placeholders
         IN  {<<ps[k].startsAt, ps[k].endsAt - 1>> : k \in DOMAIN ps} = Placed(node.props[p].value)

\* Journeys: exactly those are saved whose steps, the nested ones included, are
\* known, may be used in a journey of the type and where they stand, are accepted by
\* the schema and the check of their type, are well written and lead to each other;
\* and what is saved with them is where their placeholders are.
SavedJourneysAreSound ==
    Computed("journey") =>
        /\ Result # Nil <=> Sound(input.journey)
        /\ Result # Nil =>
             \A id \in DOMAIN input.journey.steps :
                 \A at \in DOMAIN input.journey.steps[id].nodes :
                     DescribedBy(input.journey.steps[id].nodes[at], Result.steps[id].nodes[at])

-----------------------------------------------------------------------------
EnvSpans(s) == {span \in Patterns(s) : s[span[1] + 1] = "env"}
EnvKnown(v) ==
    v.type = "string" => \A span \in EnvSpans(v.value) : EnvName(TemplateOf(v.value, span)) \in DOMAIN Environment
AfterEnv(v) ==
    LET s == v.value
        texts == [t \in {TemplateOf(s, span) : span \in EnvSpans(s)} |-> Text(Environment[EnvName(t)])]
    IN  IF v.type # "string" THEN v
        ELSE IF <<1, Len(s)>> \in EnvSpans(s) THEN Environment[EnvName(TemplateOf(s, <<1, Len(s)>>))]
        ELSE Str(Filled(s, EnvSpans(s), texts))

\* What a property of a node stands for: the value of its environment, in which the
\* values of the other placeholders take their place; converted to the type that was
\* declared or that the field has, with or without text around them (which
\* docs/features/contexts-and-placeholders.md:67 says is always a string), and to a
\* string only if there is neither.  What is under a key "vars" is left as it is.
Meaning(node, p) ==
    LET v == AfterEnv(node.props[p])
        s == v.value
        declared == IF p \in DOMAIN node.vars THEN node.vars[p].type ELSE ""
        inferred == InferType(node.type, p)
        type == IF declared # "" THEN declared ELSE IF inferred # "" THEN inferred
                ELSE IF Whole(node.props[p].value) /\ Whole(s) THEN "" ELSE "string"
        templates == {TemplateOf(s, span) : span \in Placed(s)}
        Value(t) == Lookup(t, RunContexts, Resolvers)
        native == Value(TemplateOf(s, <<1, Len(s)>>))
    IN  IF v.type # "string" \/ "vars" \in Range(p) THEN v
        ELSE IF templates = {} THEN v
        ELSE IF \E t \in templates : Value(t).type = "error" THEN Bad("resolver")
        ELSE IF Whole(s) /\ (type = "" \/ (type \in {"object", "array"} /\ native.type = type)) THEN native
        ELSE Convert(Filled(s, Placed(s), [t \in templates |-> Text(Value(t))]), type, Literals)

\* Placeholders: after saving, compiling and resolving, a property is what its
\* author wrote with the placeholders replaced, whatever the environment put in
\* between moved the offsets to; and what is not accepted is refused before it runs.
StepsGetWhatWasWritten ==
    Computed("step") =>
        LET nodes == input.step.nodes
            node == nodes[input.at]
            Compiled(n) == [n EXCEPT !.props = [p \in DOMAIN @ |-> AfterEnv(@[p])]]
            meaning == [p \in DOMAIN node.props |-> Meaning(node, p)]
            errors == {p \in DOMAIN node.props : meaning[p].type = "error"}
            unsaved == \E at \in DOMAIN nodes : ~Admitted(nodes, at)
            uncompiled == \E at \in DOMAIN nodes :
                              \/ \E p \in DOMAIN nodes[at].props : ~EnvKnown(nodes[at].props[p])
                              \/ ~WellWritten(Compiled(nodes[at]))
        IN  IF unsaved THEN Same(Result, Bad("save"))
            ELSE IF uncompiled THEN Same(Result, Bad("compile"))
            ELSE IF errors # {}
            THEN Same(Result, [type |-> "error", value |-> UNION {meaning[p].value : p \in errors}])
            ELSE /\ Result.type = "config" /\ DOMAIN Result.value = DOMAIN node.props
                 /\ \A p \in DOMAIN node.props : Same(Result.value[p], meaning[p])

\* Instance configurations: a factory gets what the resolvers give for every
\* placeholder, and nothing at all if one cannot be resolved or is of a context; only
\* a host without any resolver gets the placeholders themselves.
InstancesGetResolvedValues ==
    Computed("instance") =>
        LET strings == {p \in DOMAIN input.config : input.config[p].type = "string"}
            Spans(p) == Patterns(input.config[p].value)
            TemplatesOf(p) == {TemplateOf(input.config[p].value, span) : span \in Spans(p)}
            Value(t) == input.resolvers[t[1]]
            InstanceText(t) == IF Value(t).type = "nil" THEN <<"<nil>">> ELSE Text(Value(t))
            refused == \E p \in strings : \E t \in TemplatesOf(p) :
                           \/ t[1] \in DOMAIN RunContexts \/ t[1] \notin DOMAIN input.resolvers
                           \/ Value(t).type = "error"
            Stands(p) == LET s == input.config[p].value
                         IN  IF <<1, Len(s)>> \in Spans(p) THEN Value(TemplateOf(s, <<1, Len(s)>>))
                             ELSE Str(Filled(s, Spans(p), [t \in TemplatesOf(p) |-> InstanceText(t)]))
        IN  IF DOMAIN input.resolvers = {} THEN Same(Result, Config(input.config))
            ELSE IF refused THEN Same(Result, Bad("resolver"))
            ELSE /\ Result.type = "config" /\ DOMAIN Result.value = DOMAIN input.config
                 /\ \A p \in DOMAIN input.config :
                      Same(Result.value[p], IF p \in strings THEN Stands(p) ELSE input.config[p])

\* Steps and instances get what the placeholders stand for, or nothing at all: the
\* two grammars of placeholders.
PlaceholdersAreResolved == StepsGetWhatWasWritten /\ InstancesGetResolvedValues
=============================================================================
