----------------------------- MODULE ScriptStep -----------------------------
(***************************************************************************)
(* The Script step (steps/script.step.go): which names a script finds      *)
(* bound, which ones the REST API says it will find, and where the outcome *)
(* it selects leads to.  The JavaScript engine is external; of a script    *)
(* only the calls of setOutcome, whether it catches their errors, and the  *)
(* inputs it asks for are kept.  A provider of bindings is code of the     *)
(* host: what it describes and what it binds are two things.               *)
(***************************************************************************)
EXTENDS Integers, Sequences, FiniteSets, SequencesExt

CONSTANTS
    Canon,       \* every spelling of a name, trimmed and in lower case
    CustomTypes  \* script types of the host, and whether they are runnable

\* Trimming and lower case change nothing the second time.
ASSUME CanonAssumption == \A v \in DOMAIN Canon : Canon[v] \in DOMAIN Canon /\ Canon[Canon[v]] = Canon[v]

NoScript == [type |-> "", declared |-> <<>>, hasDeclared |-> FALSE]

\* scriptTypesRegistry and RegisterScriptType
Runnable ==
    [auth |-> TRUE, resource |-> TRUE, workflow |-> TRUE, schedule |-> TRUE,
     library |-> FALSE, async |-> FALSE] @@ CustomTypes

\* NormalizeScriptType
NormalizeScriptType(type) == IF type = "journey" THEN "auth" ELSE type

IsAllowedType(type) == NormalizeScriptType(type) \in DOMAIN Runnable
IsRunnableScriptType(type) == IsAllowedType(type) /\ Runnable[NormalizeScriptType(type)]

\* isDefaultExtensibleScriptType
Extensible(type) == NormalizeScriptType(type) \in {"auth", "resource", "workflow", "schedule"}

\* SupportsDeclaredScriptOutcomes
SupportsDeclaredOutcomes(type) == NormalizeScriptType(type) \in {"auth", "resource", "workflow"}

-----------------------------------------------------------------------------
(***************************************************************************)
(* Bindings.                                                               *)
(***************************************************************************)
Contexts == {"ctx", "encCtx", "closedCtx", "tempCtx"}
RequestNames == {"request", "requestQuery", "requestHeader"}

\* defaultScriptBindingDescriptors, before the ones of the type are chosen.
AllDescribed ==
    Contexts \cup RequestNames
      \cup {"args", "http", "scheduleCache", "previousResult", "SetResult", "realm",
            "encoding", "crypto", "setOutcome", "clientInputs", "logger"}

\* scriptBindingDescriptorsForType
DescribedForType(type) ==
    CASE NormalizeScriptType(type) = "auth" -> AllDescribed \ {"previousResult", "SetResult"}
      [] NormalizeScriptType(type) = "resource" ->
            AllDescribed \ {"clientInputs", "previousResult", "SetResult"}
      [] NormalizeScriptType(type) = "workflow" ->
            AllDescribed \ (RequestNames \cup {"clientInputs", "previousResult", "SetResult"})
      [] NormalizeScriptType(type) = "schedule" ->
            AllDescribed \ (Contexts \cup RequestNames \cup {"clientInputs", "setOutcome"})
      [] OTHER -> {}

\* configuredBindings: the provider of the type, or the default one for a type
\* that has bindings of its own; <<>> when there is none.
ConfiguredBindings(type, providers) ==
    LET own == NormalizeScriptType(type)
    IN  CASE own \in DOMAIN providers -> <<providers[own]>>
          [] own \notin DOMAIN providers /\ Extensible(type) /\ "default" \in DOMAIN providers ->
                <<providers["default"]>>
          [] OTHER -> <<>>

\* Whether the host's code is called and fails (BindingDescriptors, GetBindings).
ProviderFails(configured, call) == configured # <<>> /\ call \in configured[1].failing

\* What a provider makes of the defaults: it extends or replaces them.
Merged(defaults, configured, names) ==
    IF configured = <<>> THEN defaults
    ELSE IF configured[1].mode = "replace" THEN names ELSE defaults \cup names

\* ScriptBindingDescriptors: the names the REST API lists.  A provider that
\* describes nothing leaves the list of the defaults.
Descriptors(type, providers) ==
    LET configured == ConfiguredBindings(type, providers)
        describes == configured # <<>> /\ configured[1].describes
    IN  IF ~describes THEN [ok |-> TRUE, names |-> DescribedForType(type)]
        ELSE IF ProviderFails(configured, "describe") THEN [ok |-> FALSE, names |-> {}]
        ELSE [ok |-> TRUE,
              names |-> Merged(DescribedForType(type), configured, configured[1].described)]

\* scriptBindings
DefaultBindings(type) ==
    LET own == NormalizeScriptType(type)
    IN  IF ~Extensible(type) THEN {"args", "setOutcome"}
        ELSE {"args", "http", "scheduleCache", "realm", "encoding", "crypto", "setOutcome"}
               \cup (IF own # "schedule" THEN Contexts ELSE {})
               \cup (IF own \in {"auth", "resource"} THEN RequestNames ELSE {})
               \cup (IF own = "auth" THEN {"clientInputs"} ELSE {})

\* scheduleScriptBindings
ScheduleBindings ==
    {"args", "script_id", "timeout_seconds", "http", "scheduleCache", "previousResult",
     "SetResult", "realm", "encoding", "crypto", "logger"}

\* The end of resolvedScriptBindings and of ResolvedScheduleScriptBindings.
ResolvedBindings(defaults, configured) ==
    IF ProviderFails(configured, "bind") THEN [ok |-> FALSE, names |-> {}]
    ELSE [ok |-> TRUE,
          names |-> Merged(defaults, configured, IF configured = <<>> THEN {} ELSE configured[1].bound)]

\* What a Script step binds, of whatever runnable type its script is; it adds the logger.
StepBindings(type, providers) ==
    LET resolved == ResolvedBindings(DefaultBindings(type), ConfiguredBindings(type, providers))
    IN  IF resolved.ok THEN [resolved EXCEPT !.names = @ \cup {"logger"}] ELSE resolved

\* ResolvedScheduleScriptBindings: what a schedule binds for its script.
ResolvedScheduleBindings(providers) ==
    ResolvedBindings(ScheduleBindings, ConfiguredBindings("schedule", providers))

-----------------------------------------------------------------------------
(***************************************************************************)
(* Outcomes.                                                               *)
(***************************************************************************)

\* normalizeOutcomeNames: trimmed, in lower case, without empty and repeated ones.
KeptUpTo(values) ==
    LET kept[n \in 0..Len(values)] ==
            IF n = 0 THEN <<>>
            ELSE LET name == Canon[values[n]]
                 IN  IF name = "" \/ Contains(kept[n - 1], name) THEN kept[n - 1]
                     ELSE Append(kept[n - 1], name)
    IN  kept
NormalizeOutcomeNames(values) == KeptUpTo(values)[Len(values)]

\* NormalizeDeclaredScriptOutcomes: the script as it is saved, NoScript if refused.
NormalizeDeclared(script) ==
    LET names == NormalizeOutcomeNames(script.declared)
    IN  IF ~SupportsDeclaredOutcomes(script.type)
        THEN [script EXCEPT !.declared = <<>>, !.hasDeclared = FALSE]
        ELSE IF ~script.hasDeclared THEN script
        ELSE IF names = <<>> /\ script.declared # <<>> THEN NoScript
        ELSE [script EXCEPT !.declared = names]

\* validateRESTScript: what saveScript stores, NoScript if it refuses.
SavedScript(script) ==
    IF IsAllowedType(script.type)
    THEN NormalizeDeclared([script EXCEPT !.type = NormalizeScriptType(script.type)])
    ELSE NoScript

\* DeclaredScriptOutcomes
DeclaredOutcomes(script) ==
    IF SupportsDeclaredOutcomes(script.type) /\ script.hasDeclared
    THEN NormalizeOutcomeNames(script.declared) ELSE <<>>

\* scriptOutcomeSetter: a blank call is an error, which ends a script that does not
\* catch it and changes nothing in one that does; of the other calls the last counts.
SetOutcome(script, calls, catches) ==
    LET said == {i \in DOMAIN calls : Canon[calls[i]] # ""}
        last == calls[CHOOSE i \in said : \A j \in said : j <= i]
    IN  IF ~catches /\ said # DOMAIN calls THEN "throws"
        ELSE IF said = {} THEN ""
        ELSE IF SupportsDeclaredOutcomes(script.type) THEN Canon[last] ELSE last

\* Faulty ExecuteScript: declared outcomes are not enforced.
ExecuteUndeclared(script, calls, catches, asks) ==
    LET outcome == SetOutcome(script, calls, catches)
    IN  IF \/ script = NoScript \/ ~IsRunnableScriptType(script.type)
           \/ outcome = "throws" \/ (outcome = "" /\ ~asks)
        THEN [ok |-> FALSE, outcome |-> ""]
        ELSE [ok |-> TRUE, outcome |-> outcome]

\* Script.Execute
ExecuteScript(script, calls, catches, asks) ==
    LET outcome == SetOutcome(script, calls, catches)
    IN  IF \/ script = NoScript \/ ~IsRunnableScriptType(script.type)
           \/ outcome = "throws" \/ (outcome = "" /\ ~asks)
           \/ /\ outcome # "" /\ SupportsDeclaredOutcomes(script.type) /\ script.hasDeclared
              /\ ~\E d \in Range(DeclaredOutcomes(script)) : Canon[d] = Canon[outcome]
        THEN [ok |-> FALSE, outcome |-> ""]
        ELSE [ok |-> TRUE, outcome |-> outcome]

\* GetOutcomeID of a Script step: the targets of every name that is spelled like
\* the outcome, "" for none.
OutcomeTargets(outcomes, outcome) ==
    {outcomes[n] : n \in {m \in DOMAIN outcomes : Canon[m] = Canon[outcome]}}
=============================================================================
