--------------------------- MODULE Administration ---------------------------
(***************************************************************************)
(* The REST API while journeys and schemas are changed (rest.api.go), and  *)
(* what a request finds on its way to a run: the cache of routes, the      *)
(* cache of compiled journeys and the static environment                   *)
(* (runtime_journey.go), the signing key of tokens (token.journey.go) and  *)
(* the compiled schemas (schema.storage.go, types/developer.schema.go).    *)
(* Every step is one access to a store or one section of a lock, so that   *)
(* requests interleave where they do in the program.                       *)
(*                                                                         *)
(* The stores are nstore's: Load, Save, Delete and ListOfCache are atomic, *)
(* Save gives a new id to what has none and a new revision to everything.  *)
(***************************************************************************)
EXTENDS Integers, Sequences, FiniteSets

CONSTANTS
    Clients,      \* handlers that run at the same time
    Ids,          \* ids of journeys and of schemas; a set of naturals
    Names,        \* names of journeys, which are also the first segments of paths
    Menus,        \* what a behaviour is about: [requests, journeys, schemas]
    Answers,      \* what the resolver of the environment may return
    SchemaName(_), \* the name of a schema, which its body stands for
    MaxRequests   \* bound on the requests of a behaviour

None == 0
Absent == [rev |-> 0]
NoEntry == [version |-> 0]
Idle == "idle"
OpenCall == 0
FailedCall == -1
SchemaOps == {"saveSchema", "deleteSchema", "validate"}

\* A journey: its revision, its name, realm and type, whether it is active or
\* confidential and whether it uses the environment.
JourneyConfigs == [rev: Nat, name: Names, realm: Names, type: STRING, active: BOOLEAN,
                   confidential: BOOLEAN, env: BOOLEAN]

\* The requests of the routes; what is saved has an id or gets a new one.
SaveRequests == [op: {"save"}, id: Ids \cup {None}, journey: JourneyConfigs]
RealmRequests == [op: {"get", "delete"}, id: Ids, realm: Names]
RouteRequests == [op: {"route"}, name: Names]
InvokeRequests == [op: {"invoke"}, id: Ids, realm: Names]
SchemaRequests == [op: {"saveSchema"}, id: Ids \cup {None}, body: Nat \ {None}]
                  \cup [op: {"deleteSchema", "validate"}, id: Ids]
Requests == SaveRequests \cup RealmRequests \cup RouteRequests \cup InvokeRequests \cup SchemaRequests

ASSUME IdsAssumption == Ids \subseteq Nat \ {0}
ASSUME ClientsAssumption == IsFiniteSet(Clients) /\ MaxRequests \in Nat
ASSUME AnswersAssumption == Answers \cap {None, OpenCall, FailedCall} = {}
ASSUME MenusAssumption ==
    \A m \in Menus :
        /\ m.requests \subseteq Requests
        /\ DOMAIN m.journeys = Ids
        /\ \A i \in Ids : m.journeys[i] = Absent \/ (m.journeys[i] \in JourneyConfigs /\ m.journeys[i].rev = 1)
        /\ m.schemas \in [Ids -> Nat]

VARIABLES
    menu,         \* the menu of the behaviour
    left,         \* requests that may still come
    journeys,     \* JourneyStorage: Absent, or the configuration and its revision
    revision,     \* the last revision that was given
    routeCache,   \* journeyRouteCache.entries
    compiled,     \* runtimeJourneyCache.entries
    envValue,     \* staticEnvironmentCache.values of the one path, None if not there
    pending,      \* staticEnvironmentCache.pending: the number of the call, or None
    calls,        \* every staticEnvironmentCall: OpenCall, FailedCall or its value
    keys,         \* how many keys for journey tokens are stored
    keyLock,      \* journeyKeyMu
    schemas,      \* DeveloperSchemaStorage, the body or None
    validators,   \* DeveloperSchemaCompiler.schemas by id
    pc, req,      \* where the handler of a client is, and its request
    found,        \* the journey (or the schema) it has found, loaded or compiled
    reply,        \* its answer: the status, and the journey and revision that ran
    stored,       \* history: the revisions a request could have found
    matched,      \* history: the journeys its path could have meant
    missing,      \* history: the path, if it meant none, and what could have been refused
    used,         \* history: the values of the environment that runs have used
    lone,         \* history: schema requests that had no other beside them so far
    dirty,        \* history: schemas that were not written by a request alone
    panicked      \* history: the resolver has panicked

stores == <<menu, left, journeys, revision, keys, keyLock>>
environment == <<envValue, pending, calls, panicked>>
routing == <<routeCache, compiled>>
schemaState == <<schemas, validators, lone, dirty>>
history == <<stored, matched, missing, used>>
vars == <<menu, left, journeys, revision, routeCache, compiled, envValue, pending, calls, keys,
          keyLock, schemas, validators, pc, req, found, reply, stored, matched, missing, used, lone,
          dirty, panicked>>

-----------------------------------------------------------------------------
\* routeJourneyMatches
Matches(journey, prefix) ==
    journey # Absent /\ journey.active /\ journey.type = "resource" /\ journey.name = prefix

\* The journeys a request for the prefix could run.
Candidates(store, prefix) == {i \in Ids : Matches(store[i], prefix)}

\* GetJourneyState: the journey is not to be found by a request with that realm, or only
\* if the host grants it a confidential one.
Refusable(journey, realm) ==
    journey = Absent \/ ~(journey # Absent /\ journey.active)
      \/ journey.confidential \/ journey.realm # realm

\* History: what a request would miss at that moment.
Misses(store, r) ==
    {<<None, n>> : n \in {m \in Names : r.op = "route" /\ m = r.name /\ Candidates(store, m) = {}}}
    \cup {p \in Ids \X Names : Refusable(store[p[1]], p[2])}

Active(c) == pc[c] # Idle
Goto(c, step) == pc' = [pc EXCEPT ![c] = step]
Answer(c, status, ran) ==
    Goto(c, Idle) /\ reply' = [reply EXCEPT ![c] = [status |-> status, ran |-> ran]]
Nothing == <<0, 0>>

\* History: what the requests under way see of a change of the journeys.
Witnessed ==
    /\ stored' = [c \in Clients |->
                    IF Active(c) /\ req[c].op \notin SchemaOps
                    THEN stored[c] \cup {<<i, journeys'[i].rev>> : i \in {j \in Ids : journeys'[j] # Absent}}
                    ELSE stored[c]]
    /\ matched' = [c \in Clients |->
                     IF Active(c) /\ req[c].op = "route"
                     THEN matched[c] \cup Candidates(journeys', req[c].name) ELSE matched[c]]
    /\ missing' = [c \in Clients |->
                     IF Active(c) /\ req[c].op \notin SchemaOps
                     THEN missing[c] \cup Misses(journeys', req[c]) ELSE missing[c]]

Init ==
    /\ menu \in Menus /\ left = MaxRequests
    /\ journeys = menu.journeys /\ revision = 1
    /\ routeCache = [n \in Names |-> None]
    /\ compiled = [i \in Ids |-> NoEntry]
    /\ envValue = None /\ pending = None /\ calls = <<>>
    /\ keys = 0 /\ keyLock = None
    /\ schemas = menu.schemas /\ validators = menu.schemas
    /\ pc = [c \in Clients |-> Idle]
    /\ req = [c \in Clients |-> [op |-> "none"]]
    /\ found = [c \in Clients |-> Absent]
    /\ reply = [c \in Clients |-> [status |-> 0, ran |-> Nothing]]
    /\ stored = [c \in Clients |-> {}] /\ matched = [c \in Clients |-> {}]
    /\ missing = [c \in Clients |-> {}]
    /\ used = {} /\ lone = [c \in Clients |-> TRUE] /\ dirty = {} /\ panicked = FALSE

\* The first step of the handler of a request.
Entry(op) ==
    CASE op = "save" -> "check"
      [] op \in {"get", "delete"} -> "find"
      [] op = "route" -> "cached"
      [] op = "invoke" -> "load"
      [] op = "saveSchema" -> "checkSchema"
      [] op = "deleteSchema" -> "findSchema"
      [] op = "validate" -> "loadSchema"

\* History: whether another client is at work on the schema of the request.
Beside(c, r) == {d \in Clients \ {c} : Active(d) /\ req[d].op \in SchemaOps /\ req[d].id = r.id}

Receive(c) ==
    /\ pc[c] = Idle /\ left > 0
    /\ \E r \in menu.requests :
        /\ req' = [req EXCEPT ![c] = r]
        /\ Goto(c, Entry(r.op))
        /\ stored' = [stored EXCEPT ![c] = {<<i, journeys[i].rev>> : i \in {j \in Ids : journeys[j] # Absent}}]
        /\ matched' = [matched EXCEPT ![c] = IF r.op = "route" THEN Candidates(journeys, r.name) ELSE {}]
        /\ missing' = [missing EXCEPT ![c] = IF r.op \in SchemaOps THEN {} ELSE Misses(journeys, r)]
        /\ lone' = IF r.op \notin SchemaOps THEN lone
                   ELSE [d \in Clients |-> IF d = c THEN Beside(c, r) = {}
                                           ELSE lone[d] /\ d \notin Beside(c, r)]
        /\ reply' = [reply EXCEPT ![c] = [status |-> 0, ran |-> Nothing]]
    /\ left' = left - 1
    /\ UNCHANGED <<menu, journeys, revision, keys, keyLock, routing, environment, schemas,
                   validators, found, used, dirty>>

-----------------------------------------------------------------------------
(***************************************************************************)
(* Saving, reading and deleting journeys.                                  *)
(***************************************************************************)

\* findJourneyByNameRealm
SameName(r) ==
    {i \in Ids \ {r.id} : journeys[i] # Absent /\ journeys[i].name = r.journey.name
                                               /\ journeys[i].realm = r.journey.realm}

\* saveJourney, resolveJourneySaveTarget: another journey has the name, or not.
CheckName(c) ==
    /\ pc[c] = "check"
    /\ IF SameName(req[c]) # {} THEN Answer(c, 409, Nothing)
       ELSE Goto(c, "store") /\ UNCHANGED reply
    /\ UNCHANGED <<stores, routing, environment, schemaState, req, found, history>>

\* JourneyStorage.Save: nothing is stored if the journey is not valid or the store
\* fails.  What has no id gets one that nobody has.
StoreJourney(c) ==
    /\ pc[c] = "store"
    /\ \/ /\ Answer(c, 400, Nothing)
          /\ UNCHANGED <<journeys, revision, stored, matched, missing>>
       \/ \E i \in IF req[c].id # None THEN {req[c].id} ELSE {j \in Ids : journeys[j] = Absent} :
            /\ journeys' = [journeys EXCEPT ![i] = [req[c].journey EXCEPT !.rev = revision + 1]]
            /\ revision' = revision + 1
            /\ Witnessed
            /\ Goto(c, "clear") /\ UNCHANGED reply
    /\ UNCHANGED <<menu, left, keys, keyLock, routing, environment, schemaState, req, found, used>>

\* routeCache.Clear, and the answer of saveJourney or deleteJourney.
ClearRoutes(c) ==
    /\ pc[c] = "clear"
    /\ routeCache' = [n \in Names |-> None]
    /\ Answer(c, 200, Nothing)
    /\ UNCHANGED <<stores, compiled, environment, schemaState, req, found, history>>

\* getJourney and deleteJourney: what is not there, or not in the realm, may be the
\* path of a resource journey named like the realm.
FindJourney(c) ==
    /\ pc[c] = "find"
    /\ LET here == journeys[req[c].id] # Absent /\ journeys[req[c].id].realm = req[c].realm
       IN  CASE ~here ->
                  /\ Goto(c, "cached")
                  /\ req' = [req EXCEPT ![c] = [op |-> "route", name |-> req[c].realm]]
                  /\ matched' = [matched EXCEPT ![c] = Candidates(journeys, req[c].realm)]
                  /\ missing' = [missing EXCEPT ![c] = Misses(journeys, req'[c])]
                  /\ UNCHANGED reply
             [] here /\ req[c].op = "delete" -> Goto(c, "remove") /\ UNCHANGED <<reply, req, matched, missing>>
             [] OTHER -> Answer(c, 200, <<req[c].id, journeys[req[c].id].rev>>) /\ UNCHANGED <<req, matched, missing>>
    /\ UNCHANGED <<stores, routing, environment, schemaState, found, stored, used>>

\* deleteJourney: the store may fail, or another request was first.
RemoveJourney(c) ==
    /\ pc[c] = "remove"
    /\ \/ /\ Answer(c, 500, Nothing)
          /\ UNCHANGED <<journeys, stored, matched, missing>>
       \/ /\ journeys[req[c].id] # Absent
          /\ journeys' = [journeys EXCEPT ![req[c].id] = Absent]
          /\ Witnessed
          /\ Goto(c, "clear") /\ UNCHANGED reply
    /\ UNCHANGED <<menu, left, revision, keys, keyLock, routing, environment, schemaState, req,
                   found, used>>

-----------------------------------------------------------------------------
(***************************************************************************)
(* Finding the journey of a path.                                          *)
(***************************************************************************)

\* resolveRouteJourney: the cache is asked first,
RouteCacheGet(c) ==
    /\ pc[c] = "cached"
    /\ LET id == routeCache[req[c].name]
       IN  IF id = None THEN Goto(c, "search") /\ UNCHANGED found
           ELSE Goto(c, "verify") /\ found' = [found EXCEPT ![c] = [id |-> id]]
    /\ UNCHANGED <<stores, routing, environment, schemaState, req, reply, history>>

\* What the lookup hands on: the journey, and its realm as the realm of the request.
Led(id, realm) == [id |-> id, realm |-> realm]

\* Faulty VerifyRoute: what the cache says is not looked at again.
TrustRoute(c) ==
    /\ pc[c] = "verify"
    /\ Goto(c, "load")
    /\ \E realm \in Names : found' = [found EXCEPT ![c] = Led(found[c].id, realm)]
    /\ UNCHANGED <<stores, routing, environment, schemaState, req, reply, history>>

\* then the journey it names is loaded and has to match still;
VerifyRoute(c) ==
    /\ pc[c] = "verify"
    /\ LET journey == journeys[found[c].id]
       IN  IF Matches(journey, req[c].name)
           THEN Goto(c, "load") /\ found' = [found EXCEPT ![c] = Led(@.id, journey.realm)]
           ELSE Goto(c, "forget") /\ UNCHANGED found
    /\ UNCHANGED <<stores, routing, environment, schemaState, req, reply, history>>

\* routeCache.Delete
ForgetRoute(c) ==
    /\ pc[c] = "forget"
    /\ routeCache' = [routeCache EXCEPT ![req[c].name] = None]
    /\ Goto(c, "search")
    /\ UNCHANGED <<stores, compiled, environment, schemaState, req, found, reply, history>>

\* findRouteJourneyByName: the first of the list that matches, in any realm.
SearchRoute(c) ==
    /\ pc[c] = "search"
    /\ LET hits == Candidates(journeys, req[c].name)
       IN  \/ hits = {} /\ Answer(c, 404, Nothing) /\ UNCHANGED found
           \/ \E h \in hits : /\ found' = [found EXCEPT ![c] = Led(h, journeys[h].realm)]
                              /\ Goto(c, "remember") /\ UNCHANGED reply
    /\ UNCHANGED <<stores, routing, environment, schemaState, req, history>>

\* routeCache.Set
RememberRoute(c) ==
    /\ pc[c] = "remember"
    /\ routeCache' = [routeCache EXCEPT ![req[c].name] = found[c].id]
    /\ Goto(c, "load")
    /\ UNCHANGED <<stores, compiled, environment, schemaState, req, found, reply, history>>

-----------------------------------------------------------------------------
(***************************************************************************)
(* Loading and compiling it.                                               *)
(***************************************************************************)

\* invokeJourney and invokeRouteJourney: PrepareExecution may refuse the request; then
\* loadJourney, up to the lookup in the cache of compiled journeys.
LoadJourney(c) ==
    /\ pc[c] = "load"
    /\ LET led == IF req[c].op = "invoke" THEN Led(req[c].id, req[c].realm) ELSE found[c]
           journey == journeys[led.id]
       IN  \/ Answer(c, 403, Nothing) /\ UNCHANGED found
           \/ /\ journey = Absent \/ ~(journey # Absent /\ journey.active)
              /\ Answer(c, 404, Nothing) /\ UNCHANGED found
           \/ /\ journey # Absent /\ journey.active
              /\ found' = [found EXCEPT ![c] = [id |-> led.id, realm |-> led.realm,
                                                journey |-> journey, env |-> None]]
              /\ Goto(c, "lookup") /\ UNCHANGED reply
    /\ UNCHANGED <<stores, routing, environment, schemaState, req, history>>

\* GetJourneyState, once the journey is compiled: one of another realm is refused, and a
\* confidential one unless the host lets the request start it.
Run(c, entry) ==
    \/ /\ found[c].journey.realm = found[c].realm
       /\ found' = [found EXCEPT ![c] = [id |-> found[c].id, entry |-> entry]]
       /\ used' = used \cup ({entry.env} \ {None})
       /\ Goto(c, "run") /\ UNCHANGED reply
    \/ /\ found[c].journey.confidential \/ found[c].journey.realm # found[c].realm
       /\ Answer(c, 404, Nothing) /\ UNCHANGED <<found, used>>

\* runtimeJourney, under the read lock; the version is the revision.
LookupCompiled(c) ==
    /\ pc[c] = "lookup"
    /\ LET entry == compiled[found[c].id]
       IN  IF entry # NoEntry /\ entry.version = found[c].journey.rev THEN Run(c, entry)
           ELSE /\ Goto(c, IF found[c].journey.env THEN "resolve" ELSE "compile")
                /\ UNCHANGED <<found, used, reply>>
    /\ UNCHANGED <<stores, routing, environment, schemaState, req, stored, matched, missing>>

\* staticEnvironmentCache.resolve, first section: a known value, a call under way
\* to wait for, or a call of one's own.
BeginResolve(c) ==
    /\ pc[c] = "resolve"
    /\ CASE envValue # None ->
              found' = [found EXCEPT ![c].env = envValue] /\ Goto(c, "compile")
                /\ UNCHANGED <<calls, pending>>
         [] envValue = None /\ pending # None ->
              found' = [found EXCEPT ![c].env = pending] /\ Goto(c, "wait")
                /\ UNCHANGED <<calls, pending>>
         [] OTHER ->
              /\ calls' = Append(calls, OpenCall) /\ pending' = Len(calls) + 1
              /\ found' = [found EXCEPT ![c].env = Len(calls) + 1]
              /\ Goto(c, "ask")
    /\ UNCHANGED <<stores, routing, envValue, panicked, schemaState, req, reply, history>>

\* Faulty EndResolve: a call that fails is forgotten without being closed.
EndResolveQuietly(c) ==
    /\ pc[c] = "ask"
    /\ \/ \E v \in Answers :
            /\ calls' = [calls EXCEPT ![found[c].env] = v]
            /\ envValue' = v
            /\ found' = [found EXCEPT ![c].env = v]
            /\ Goto(c, "compile") /\ UNCHANGED reply
       \/ Answer(c, 500, Nothing) /\ UNCHANGED <<calls, envValue, found>>
    /\ pending' = None
    /\ UNCHANGED <<stores, routing, panicked, schemaState, req, history>>

\* Faulty EndResolve: an error is kept like a value.
EndResolveKeepingErrors(c) ==
    /\ pc[c] = "ask"
    /\ \E v \in Answers \cup {FailedCall} :
            /\ calls' = [calls EXCEPT ![found[c].env] = v]
            /\ envValue' = v
            /\ found' = [found EXCEPT ![c].env = v]
            /\ IF v = FailedCall THEN Answer(c, 500, Nothing) ELSE Goto(c, "compile") /\ UNCHANGED reply
    /\ pending' = None
    /\ UNCHANGED <<stores, routing, panicked, schemaState, req, history>>

\* The resolver answers and the second section publishes: a value is kept, an error
\* is not, and whoever waits is woken either way.
EndResolve(c) ==
    /\ pc[c] = "ask"
    /\ \/ \E v \in Answers :
            /\ calls' = [calls EXCEPT ![found[c].env] = v]
            /\ envValue' = v
            /\ found' = [found EXCEPT ![c].env = v]
            /\ Goto(c, "compile") /\ UNCHANGED reply
       \/ /\ calls' = [calls EXCEPT ![found[c].env] = FailedCall]
          /\ Answer(c, 500, Nothing) /\ UNCHANGED <<envValue, found>>
    /\ pending' = None
    /\ UNCHANGED <<stores, routing, panicked, schemaState, req, history>>

\* A resolver that panics leaves its call pending; the server answers for it.
ResolverPanics(c) ==
    /\ pc[c] = "ask"
    /\ panicked' = TRUE
    /\ Answer(c, 500, Nothing)
    /\ UNCHANGED <<stores, routing, envValue, pending, calls, schemaState, req, found, history>>

\* <-call.done
AwaitCall(c) ==
    /\ pc[c] = "wait" /\ calls[found[c].env] # OpenCall
    /\ LET v == calls[found[c].env]
       IN  IF v = FailedCall THEN Answer(c, 500, Nothing) /\ UNCHANGED found
           ELSE found' = [found EXCEPT ![c].env = v] /\ Goto(c, "compile") /\ UNCHANGED reply
    /\ UNCHANGED <<stores, routing, environment, schemaState, req, history>>

CompiledEntry(c) ==
    [version |-> found[c].journey.rev, of |-> found[c].journey.rev, env |-> found[c].env]

\* Faulty PublishCompiled: an entry that appeared meanwhile is taken as it is.
PublishFirst(c) ==
    /\ pc[c] = "compile"
    /\ LET current == compiled[found[c].id]
       IN  IF current # NoEntry THEN Run(c, current) /\ UNCHANGED compiled
           ELSE /\ compiled' = [compiled EXCEPT ![found[c].id] = CompiledEntry(c)]
                /\ Run(c, CompiledEntry(c))
    /\ UNCHANGED <<stores, routeCache, environment, schemaState, req, stored, matched, missing>>

\* compileRuntimeJourney, and the end of runtimeJourney under the lock: an entry of
\* the same version that appeared meanwhile is used, another one replaced.
PublishCompiled(c) ==
    /\ pc[c] = "compile"
    /\ LET current == compiled[found[c].id]
       IN  IF current # NoEntry /\ current.version = found[c].journey.rev
           THEN Run(c, current) /\ UNCHANGED compiled
           ELSE /\ compiled' = [compiled EXCEPT ![found[c].id] = CompiledEntry(c)]
                /\ Run(c, CompiledEntry(c))
    /\ UNCHANGED <<stores, routeCache, environment, schemaState, req, stored, matched, missing>>

-----------------------------------------------------------------------------
(***************************************************************************)
(* Running it.  The run itself is the subject of the module Engine; here   *)
(* it ends, or pauses and needs a signed token.                            *)
(***************************************************************************)
Ran(c) == <<found[c].id, found[c].entry.of>>

\* getJourneyKey, without the lock.
EndRun(c) ==
    /\ pc[c] = "run"
    /\ \/ Answer(c, 200, Ran(c))
       \/ keys > 0 /\ Answer(c, 200, Ran(c))
       \/ keys = 0 /\ Goto(c, "lockKey") /\ UNCHANGED reply
    /\ UNCHANGED <<stores, routing, environment, schemaState, req, found, history>>

LockKey(c) ==
    /\ pc[c] = "lockKey" /\ keyLock = None
    /\ keyLock' = c /\ Goto(c, "createKey")
    /\ UNCHANGED <<menu, left, journeys, revision, keys, routing, environment, schemaState, req,
                   found, reply, history>>

\* Faulty CreateKey: the key is not looked for again under the lock.
CreateKeyAlways(c) ==
    /\ pc[c] = "createKey"
    /\ keys' = keys + 1 /\ Answer(c, 200, Ran(c))
    /\ keyLock' = None
    /\ UNCHANGED <<menu, left, journeys, revision, routing, environment, schemaState, req, found,
                   history>>

\* signJourneyToken, under the lock: the key is looked for again and only then made;
\* storing it may fail.
CreateKey(c) ==
    /\ pc[c] = "createKey"
    /\ \/ keys > 0 /\ Answer(c, 200, Ran(c)) /\ UNCHANGED keys
       \/ keys = 0 /\ keys' = 1 /\ Answer(c, 200, Ran(c))
       \/ keys = 0 /\ Answer(c, 500, Nothing) /\ UNCHANGED keys
    /\ keyLock' = None
    /\ UNCHANGED <<menu, left, journeys, revision, routing, environment, schemaState, req, found,
                   history>>

-----------------------------------------------------------------------------
(***************************************************************************)
(* Schemas of developers.                                                  *)
(***************************************************************************)

\* History: the request has ended; a save by itself makes its schema clean.
Settle(c, saved) ==
    dirty' = IF lone[c] /\ saved THEN dirty \ {req[c].id}
             ELSE IF lone[c] THEN dirty ELSE dirty \cup {req[c].id}

\* saveSchema, validateSchemaUniqueness: another schema has the name, or not.
CheckSchema(c) ==
    /\ pc[c] = "checkSchema"
    /\ IF \E i \in Ids \ {req[c].id} :
            schemas[i] # None /\ SchemaName(schemas[i]) = SchemaName(req[c].body)
       THEN Answer(c, 409, Nothing) /\ Settle(c, FALSE)
       ELSE Goto(c, "compileSchema") /\ UNCHANGED <<reply, dirty>>
    /\ UNCHANGED <<stores, routing, environment, schemas, validators, lone, req, found, history>>

\* The validators when a body is compiled: without an id it is kept under its realm and
\* name, where nobody looks for the validator of a stored schema.
CompiledUnder(id, body) ==
    IF id = None THEN validators ELSE [validators EXCEPT ![id] = body]

\* Faulty CompileSchema: what is compiled already stays.
CompileMissing(c) ==
    /\ pc[c] = "compileSchema"
    /\ validators' = IF req[c].id # None /\ validators[req[c].id] # None THEN validators
                     ELSE CompiledUnder(req[c].id, req[c].body)
    /\ Goto(c, "storeSchema") /\ UNCHANGED <<reply, dirty>>
    /\ UNCHANGED <<stores, routing, environment, schemas, lone, req, found, history>>

\* DeveloperSchemaStorage.Save: the new body is compiled before it is stored,
CompileSchema(c) ==
    /\ pc[c] = "compileSchema"
    /\ \/ Answer(c, 400, Nothing) /\ Settle(c, FALSE) /\ UNCHANGED validators
       \/ /\ validators' = CompiledUnder(req[c].id, req[c].body)
          /\ Goto(c, "storeSchema") /\ UNCHANGED <<reply, dirty>>
    /\ UNCHANGED <<stores, routing, environment, schemas, lone, req, found, history>>

\* A new id is one that nobody has used or asks for.
NewSchemaIds ==
    {i \in Ids : /\ schemas[i] = None /\ validators[i] = None
                 /\ \A d \in Clients : Active(d) /\ req[d].op \in SchemaOps => req[d].id # i}

\* and stays compiled when it cannot be stored.
StoreSchema(c) ==
    /\ pc[c] = "storeSchema"
    /\ \/ /\ \E i \in IF req[c].id = None THEN NewSchemaIds ELSE {req[c].id} :
                schemas' = [schemas EXCEPT ![i] = req[c].body]
          /\ Answer(c, 200, Nothing) /\ Settle(c, TRUE)
       \/ /\ Answer(c, 400, Nothing) /\ dirty' = dirty \cup {req[c].id}
          /\ UNCHANGED schemas
    /\ UNCHANGED <<stores, routing, environment, validators, lone, req, found, history>>

\* deleteSchema
FindSchema(c) ==
    /\ pc[c] = "findSchema"
    /\ IF schemas[req[c].id] = None THEN Answer(c, 404, Nothing) /\ Settle(c, FALSE)
       ELSE Goto(c, "evictSchema") /\ UNCHANGED <<reply, dirty>>
    /\ UNCHANGED <<stores, routing, environment, schemas, validators, lone, req, found, history>>

\* DeveloperSchemaStorage.Delete: the compiled schema goes first,
EvictSchema(c) ==
    /\ pc[c] = "evictSchema"
    /\ validators' = IF schemas[req[c].id] = None THEN validators
                     ELSE [validators EXCEPT ![req[c].id] = None]
    /\ Goto(c, "removeSchema")
    /\ UNCHANGED <<stores, routing, environment, schemas, lone, dirty, req, found, reply, history>>

\* then the stored one, if the store can do it.
RemoveSchema(c) ==
    /\ pc[c] = "removeSchema"
    /\ \/ schemas' = [schemas EXCEPT ![req[c].id] = None] /\ Answer(c, 204, Nothing)
       \/ Answer(c, 500, Nothing) /\ UNCHANGED schemas
    /\ Settle(c, FALSE)
    /\ UNCHANGED <<stores, routing, environment, validators, lone, req, found, history>>

\* DeveloperSchemaStorage.Validate: the stored schema is loaded,
LoadSchema(c) ==
    /\ pc[c] = "loadSchema"
    /\ IF schemas[req[c].id] = None
       THEN Answer(c, 404, Nothing) /\ Settle(c, FALSE) /\ UNCHANGED found
       ELSE /\ found' = [found EXCEPT ![c] = [body |-> schemas[req[c].id]]]
            /\ Goto(c, "validator") /\ UNCHANGED <<reply, dirty>>
    /\ UNCHANGED <<stores, routing, environment, schemas, validators, lone, req, history>>

\* DeveloperSchemaCompiler.Validate: a compiled one is used whatever was loaded,
FindValidator(c) ==
    /\ pc[c] \in {"validator", "recheck"}
    /\ LET body == validators[req[c].id]
       IN  IF body = None /\ pc[c] = "validator"
           THEN Goto(c, "compileLoaded") /\ UNCHANGED <<reply, dirty>>
           ELSE /\ Answer(c, IF body = None THEN 500 ELSE 200, <<req[c].id, body>>)
                /\ Settle(c, FALSE)
    /\ UNCHANGED <<stores, routing, environment, schemas, validators, lone, req, found, history>>

\* otherwise the loaded one is compiled, even if it was replaced meanwhile.
CompileLoaded(c) ==
    /\ pc[c] = "compileLoaded"
    /\ validators' = [validators EXCEPT ![req[c].id] = found[c].body]
    /\ Goto(c, "recheck")
    /\ UNCHANGED <<stores, routing, environment, schemas, lone, dirty, req, found, reply, history>>

-----------------------------------------------------------------------------
Step(c) ==
    \/ CheckName(c) \/ StoreJourney(c) \/ ClearRoutes(c) \/ FindJourney(c) \/ RemoveJourney(c)
    \/ RouteCacheGet(c) \/ VerifyRoute(c) \/ ForgetRoute(c) \/ SearchRoute(c) \/ RememberRoute(c)
    \/ LoadJourney(c) \/ LookupCompiled(c) \/ BeginResolve(c) \/ EndResolve(c)
    \/ ResolverPanics(c) \/ AwaitCall(c) \/ PublishCompiled(c)
    \/ EndRun(c) \/ LockKey(c) \/ CreateKey(c)
    \/ CheckSchema(c) \/ CompileSchema(c) \/ StoreSchema(c) \/ FindSchema(c) \/ EvictSchema(c) \/ RemoveSchema(c)
    \/ LoadSchema(c) \/ FindValidator(c) \/ CompileLoaded(c)

Next == \E c \in Clients : Receive(c) \/ Step(c)

Spec == Init /\ [][Next]_vars
FairSpec == Spec /\ \A c \in Clients : WF_vars(Step(c))

-----------------------------------------------------------------------------
(***************************************************************************)
(* Properties.                                                             *)
(***************************************************************************)
TypeOK ==
    /\ left \in 0..MaxRequests /\ revision \in 1..(MaxRequests + 1)
    /\ \A i \in Ids : journeys[i] = Absent \/ journeys[i].rev \in 1..revision
    /\ routeCache \in [Names -> Ids \cup {None}]
    /\ \A i \in Ids : compiled[i] = NoEntry \/ compiled[i].version \in 1..revision
    /\ envValue \in Answers \cup {None} /\ pending \in 0..Len(calls)
    /\ keyLock \in Clients \cup {None} /\ keys \in Nat

\* Requests race changes of the journeys, the cache of routes and the cache of
\* compiled journeys: whatever runs, or is read, is a revision that was stored while
\* the request was under way.
RunsWhatWasStored ==
    \A c \in Clients :
        pc[c] = Idle /\ req[c].op \in {"route", "invoke", "get"} /\ reply[c].status = 200
            => reply[c].ran \in stored[c]

\* resolveRouteJourney: a path is not found only if at some moment of the request no
\* active resource journey had its name, or the journey of that name that it was led to
\* could be refused: it was gone, inactive, confidential or in another realm than the
\* lookup had seen.  What happens to other journeys makes no difference.
NotFoundIsTrue ==
    \A c \in Clients :
        pc[c] = Idle /\ req[c].op = "route" /\ reply[c].status = 404
            => \/ <<None, req[c].name>> \in missing[c]
               \/ found[c].id \in matched[c] /\ <<found[c].id, found[c].realm>> \in missing[c]

\* resolveRouteJourney: the journey that answers a path had its name at some moment
\* of the request, whoever wrote the cached route that led there, and whenever.
PathLeadsToItsName ==
    \A c \in Clients :
        pc[c] = Idle /\ req[c].op = "route" /\ reply[c].status = 200
            => reply[c].ran[1] \in matched[c]

\* A path is answered by a journey of its name if there is one, and by no other, over
\* all saves and deletions that race the lookup and the cache of routes.
PathsAreTrue == PathLeadsToItsName /\ NotFoundIsTrue

\* staticEnvironmentCache: as long as the manager lives every run sees one value of
\* a path of the environment, whatever the resolver answers later, and however many
\* journeys are compiled at once.
EnvIsStatic == Cardinality(used) <= 1

\* signJourneyToken: first pauses that come together share one key.
OneSigningKey == keys <= 1

\* What the first request makes for all others is made once: the values of the static
\* environment and the signing key.
MadeOnce == EnvIsStatic /\ OneSigningKey

\* DeveloperSchemaStorage: what validates is what is stored, once a save that no other
\* request on the schema overlapped has ended, and until one that was overlapped or
\* could not be stored.
ValidatorsMatchStore ==
    \A i \in Ids :
        (\A c \in Clients : Active(c) => req[c].op \notin SchemaOps \/ req[c].id # i) /\ i \notin dirty
            => validators[i] \in {None, schemas[i]}

\* Every request is answered: nobody waits for ever for the environment or for the
\* key, unless the resolver has panicked.
Answered == \A c \in Clients : Active(c) ~> (pc[c] = Idle \/ panicked)

\* saveJourney: names are unique in a realm (docs/features/rest-api.md).
NamesUnique ==
    \A i, j \in Ids :
        i # j /\ journeys[i] # Absent /\ journeys[j] # Absent
            => journeys[i].name # journeys[j].name \/ journeys[i].realm # journeys[j].realm
=============================================================================
