------------------------ MODULE AdministrationProofs ------------------------
(***************************************************************************)
(* Proofs about Administration, for any clients, journeys, requests and    *)
(* answers of the resolver: the types, what runs and what a path leads to, *)
(* what is made once, and what validates.                                  *)
(***************************************************************************)
EXTENDS Administration, FiniteSetTheorems, SequenceTheorems, TLAPS

(***************************************************************************)
(* The parts of the inductive invariant.  A client is at p with request q, *)
(* has found f and has answered a.                                         *)
(***************************************************************************)
Known == [id: Ids]
LedTo == [id: Ids, realm: Names]
Loaded == [id: Ids, realm: Names, journey: JourneyConfigs, env: Answers \cup Nat]
Entries == [version: Nat, of: Nat, env: Answers \cup {None}]
Compiled == [id: Ids, entry: Entries]

\* Where the handler of a request can be, and what it has found there.
PlaceOK(p, q, f) ==
    /\ p \in {"check", "store"} => q \in SaveRequests
    /\ p = "clear" => q.op \in {"save", "delete"}
    /\ p = "find" => q \in RealmRequests
    /\ p = "remove" => q \in RealmRequests /\ q.op = "delete"
    /\ p \in {"cached", "verify", "forget", "search", "remember"} => q \in RouteRequests
    /\ p \in {"load", "lookup", "resolve", "ask", "wait", "compile", "run", "lockKey", "createKey"}
         => q \in RouteRequests \/ q \in InvokeRequests
    /\ p = "verify" => f \in Known
    /\ p = "remember" \/ (p = "load" /\ q.op = "route") => f \in LedTo
    /\ p \in {"lookup", "resolve", "ask", "wait", "compile"} => f \in Loaded
    /\ p \in {"run", "lockKey", "createKey"} => f \in Compiled
    /\ p \in {"checkSchema", "compileSchema", "storeSchema"} => q \in SchemaRequests /\ q.op = "saveSchema"
    /\ p \in {"findSchema", "evictSchema", "removeSchema"} => q \in SchemaRequests /\ q.op = "deleteSchema"
    /\ p \in {"loadSchema", "validator", "compileLoaded", "recheck"} =>
         q \in SchemaRequests /\ q.op = "validate"
    /\ p \in {"validator", "compileLoaded", "recheck"} => f \in [body: Nat]

Places == {"check", "store", "clear", "find", "remove", "cached", "verify", "forget", "search",
           "remember", "load", "lookup", "resolve", "ask", "wait", "compile", "run", "lockKey",
           "createKey", "checkSchema", "compileSchema", "storeSchema", "findSchema", "evictSchema",
           "removeSchema", "loadSchema", "validator", "compileLoaded", "recheck", Idle}

Functions ==
    /\ DOMAIN pc = Clients /\ DOMAIN req = Clients /\ DOMAIN found = Clients
    /\ DOMAIN reply = Clients /\ DOMAIN stored = Clients /\ DOMAIN matched = Clients
    /\ DOMAIN missing = Clients /\ DOMAIN lone = Clients

\* The handlers.
HandlersOK ==
    /\ Functions /\ menu \in Menus
    /\ \A c \in Clients : pc[c] \in Places /\ PlaceOK(pc[c], req[c], found[c])

\* The journeys, and what is cached of them.
JourneysOK ==
    /\ left \in Nat /\ revision \in Nat \ {0} /\ DOMAIN journeys = Ids /\ DOMAIN compiled = Ids
    /\ \A i \in Ids : journeys[i] = Absent \/ (journeys[i] \in JourneyConfigs /\ journeys[i].rev \in 1..revision)
    /\ routeCache \in [Names -> Ids \cup {None}]
    /\ \A i \in Ids : \/ compiled[i] = NoEntry
                      \/ /\ compiled[i] \in Entries /\ compiled[i].version \in 1..revision
                         /\ compiled[i].of = compiled[i].version
    /\ keyLock \in Clients \cup {None} /\ keys \in {0, 1}

\* Every revision was given to a save; every save still to come has its request.
Saving == {c \in Clients : pc[c] \in {"check", "store"}}
Budget == revision + left + Cardinality(Saving) <= MaxRequests + 1

(***************************************************************************)
(* What a request has witnessed, s, m and g for stored, matched and missing *)
(* covers what is stored now, what it has in hand and what it answered.    *)
(***************************************************************************)
Covers(p, q, s, m, g) ==
    /\ s \subseteq Ids \X (1..revision)
    /\ p # Idle /\ q.op \notin SchemaOps => \A i \in Ids : journeys[i] # Absent => <<i, journeys[i].rev>> \in s
    /\ p # Idle /\ q.op = "route" => Candidates(journeys, q.name) \subseteq m
    /\ p # Idle /\ q.op \notin SchemaOps => Misses(journeys, q) \subseteq g

\* The journey in hand may be refused only if the request could have missed it.
Excused(f, g) == f.journey.confidential \/ f.journey.realm # f.realm => <<f.id, f.realm>> \in g

HandOK(p, q, f, s, m, g) ==
    /\ p \in {"remember", "load"} /\ q.op = "route" => f.id \in m
    /\ p \in {"lookup", "resolve", "ask", "wait", "compile"} =>
         <<f.id, f.journey.rev>> \in s /\ Excused(f, g) /\ (q.op = "route" => f.id \in m)
    /\ p \in {"run", "lockKey", "createKey"} => <<f.id, f.entry.of>> \in s /\ (q.op = "route" => f.id \in m)

AnswerOK(q, f, a, s, m, g) ==
    /\ q.op \in {"route", "invoke", "get"} /\ a.status = 200 => a.ran \in s
    /\ q.op = "route" /\ a.status = 200 => a.ran[1] \in m
    /\ q.op = "route" /\ a.status = 404 =>
         <<None, q.name>> \in g \/ (f.id \in m /\ <<f.id, f.realm>> \in g)

WitnessOK(p, q, f, a, s, m, g) ==
    Covers(p, q, s, m, g) /\ HandOK(p, q, f, s, m, g) /\ (p = Idle => AnswerOK(q, f, a, s, m, g))

Witnesses ==
    \A c \in Clients : WitnessOK(pc[c], req[c], found[c], reply[c], stored[c], matched[c], missing[c])

\* The environment: one call at a time, made while there is no value, and every value
\* that anybody has is the one that is kept.
EnvInHand(p, f) ==
    /\ p \in {"lookup", "resolve"} => f.env = None
    /\ p = "ask" => envValue = None /\ pending # None /\ f.env = pending
    /\ p = "wait" => f.env \in 1..Len(calls)
    /\ p = "compile" => f.env \in {None, envValue}

EnvOK ==
    /\ calls \in Seq(Answers \cup {OpenCall, FailedCall})
    /\ envValue \in Answers \cup {None} /\ pending \in 0..Len(calls)
    /\ \A k \in 1..Len(calls) : calls[k] \in {OpenCall, FailedCall, envValue}
    /\ \A i \in Ids : compiled[i] # NoEntry => compiled[i].env \in {None, envValue}
    /\ used \subseteq {envValue} \ {None}
    /\ \A c \in Clients : EnvInHand(pc[c], found[c])
    /\ \A c, d \in Clients : pc[c] = "ask" /\ pc[d] = "ask" => c = d

\* The schemas: a request that is alone on its schema finds what it left.
At(c, i) == Active(c) /\ req[c].op \in SchemaOps /\ req[c].id = i
Valid(i) == validators[i] \in {None, schemas[i]}

SchemaInHand(p, q, f) ==
    LET i == q.id
    IN  /\ p \in {"checkSchema", "compileSchema", "findSchema", "evictSchema", "loadSchema", "validator",
                  "compileLoaded", "recheck"} /\ i \notin dirty => Valid(i)
        /\ p = "storeSchema" => validators[i] = q.body
        /\ p = "removeSchema" /\ i \notin dirty => validators[i] = None
        /\ p \in {"validator", "compileLoaded"} => f.body = schemas[i]

SchemasOK ==
    /\ schemas \in [Ids -> Nat] /\ validators \in [Ids -> Nat]
    /\ \A c, d \in Clients : \A i \in Ids : At(c, i) /\ At(d, i) /\ lone[c] => c = d
    /\ \A c \in Clients : \A i \in Ids : At(c, i) /\ lone[c] => SchemaInHand(pc[c], req[c], found[c])
    /\ \A i \in Ids : (\A c \in Clients : ~At(c, i)) /\ i \notin dirty => Valid(i)

TypeInv == HandlersOK /\ JourneysOK
IndInv == TypeInv /\ Budget /\ Witnesses /\ EnvOK /\ SchemasOK

-----------------------------------------------------------------------------
(***************************************************************************)
(* A step of client c takes it to p, with request q, what it has found f   *)
(* and answer a.                                                           *)
(***************************************************************************)
Moves(c, p, q, f, a) ==
    /\ pc'[c] = p /\ req'[c] = q /\ found'[c] = f /\ reply'[c] = a
    /\ \A d \in Clients \ {c} : /\ pc'[d] = pc[d] /\ req'[d] = req[d] /\ found'[d] = found[d]
                                /\ reply'[d] = reply[d]
    /\ DOMAIN pc' = Clients /\ DOMAIN req' = Clients /\ DOMAIN found' = Clients
    /\ DOMAIN reply' = Clients

\* What it has witnessed becomes s, m and g; what the others have stays.
Sees(c, s, m, g) ==
    /\ stored'[c] = s /\ matched'[c] = m /\ missing'[c] = g
    /\ \A d \in Clients \ {c} : stored'[d] = stored[d] /\ matched'[d] = matched[d] /\ missing'[d] = missing[d]
    /\ DOMAIN stored' = Clients /\ DOMAIN matched' = Clients /\ DOMAIN missing' = Clients

\* The handlers stay in order.
LEMMA HandlersMove ==
    ASSUME HandlersOK, NEW c \in Clients, NEW p, NEW q, NEW f, NEW a, Moves(c, p, q, f, a),
           DOMAIN stored' = Clients, DOMAIN matched' = Clients, DOMAIN missing' = Clients,
           DOMAIN lone' = Clients, UNCHANGED menu, p \in Places, PlaceOK(p, q, f)
    PROVE  HandlersOK'
  BY DEF HandlersOK, Functions, Moves

\* No save begins.
LEMMA BudgetMove ==
    ASSUME Budget, NEW c \in Clients, NEW p, NEW q, NEW f, NEW a, Moves(c, p, q, f, a),
           revision \in Nat, left \in Nat, UNCHANGED <<left, revision>>,
           p \in {"check", "store"} => pc[c] \in {"check", "store"}
    PROVE  Budget'
  <1>1. Saving' \subseteq Saving
    BY DEF Saving, Moves
  <1>2. IsFiniteSet(Saving)
    BY ClientsAssumption, FS_Subset DEF Saving
  <1>3. Cardinality(Saving') <= Cardinality(Saving) /\ Cardinality(Saving) \in Nat
        /\ Cardinality(Saving') \in Nat
    BY <1>1, <1>2, FS_Subset, FS_CardinalityType
  <1> QED  BY <1>3, ClientsAssumption DEF Budget

\* The witnesses stay right while the journeys stay.
LEMMA WitnessMove ==
    ASSUME Witnesses, NEW c \in Clients, NEW p, NEW q, NEW f, NEW a, Moves(c, p, q, f, a),
           NEW s, NEW m, NEW g, Sees(c, s, m, g), UNCHANGED <<journeys, revision>>,
           WitnessOK(p, q, f, a, s, m, g)
    PROVE  Witnesses'
  <1> SUFFICES ASSUME NEW d \in Clients
               PROVE  WitnessOK(pc[d], req[d], found[d], reply[d], stored[d], matched[d], missing[d])'
    BY DEF Witnesses
  <1>1. CASE d = c
    BY <1>1 DEF Moves, Sees, WitnessOK, Covers, HandOK, Excused, AnswerOK, Candidates, Matches, Misses,
             Refusable
  <1>2. CASE d # c
    <2>1. WitnessOK(pc[d], req[d], found[d], reply[d], stored[d], matched[d], missing[d])
      BY DEF Witnesses
    <2>2. /\ pc'[d] = pc[d] /\ req'[d] = req[d] /\ found'[d] = found[d] /\ reply'[d] = reply[d]
          /\ stored'[d] = stored[d] /\ matched'[d] = matched[d] /\ missing'[d] = missing[d]
      BY <1>2 DEF Moves, Sees
    <2> QED  BY <2>1, <2>2 DEF WitnessOK, Covers, HandOK, Excused, AnswerOK, Candidates, Matches, Misses,
             Refusable
  <1> QED  BY <1>1, <1>2

\* So does the environment.
LEMMA EnvMove ==
    ASSUME EnvOK, NEW c \in Clients, NEW p, NEW q, NEW f, NEW a, Moves(c, p, q, f, a),
           UNCHANGED <<envValue, pending, calls, compiled, used>>,
           EnvInHand(p, f), p # "ask"
    PROVE  EnvOK'
  <1>1. \A d \in Clients : EnvInHand(pc[d], found[d])'
    BY DEF EnvOK, EnvInHand, Moves
  <1>2. \A d, e \in Clients : pc'[d] = "ask" /\ pc'[e] = "ask" => d = e
    BY DEF EnvOK, Moves
  <1> QED  BY <1>1, <1>2 DEF EnvOK

\* So do the schemas when the request is about something else.
LEMMA SchemasMove ==
    ASSUME SchemasOK, NEW c \in Clients, NEW p, NEW q, NEW f, NEW a, Moves(c, p, q, f, a),
           UNCHANGED <<schemas, validators, lone, dirty>>,
           req[c].op \notin SchemaOps, q.op \notin SchemaOps
    PROVE  SchemasOK'
  <1>1. \A d \in Clients : \A i \in Ids : At(d, i)' <=> At(d, i)
    BY DEF At, Active, Moves
  <1>2. ASSUME NEW d \in Clients, NEW i \in Ids, At(d, i), lone[d]
        PROVE  SchemaInHand(pc[d], req[d], found[d])'
    <2>1. d # c
      BY <1>2 DEF At
    <2>2. SchemaInHand(pc[d], req[d], found[d])
      BY <1>2 DEF SchemasOK
    <2>3. pc'[d] = pc[d] /\ req'[d] = req[d] /\ found'[d] = found[d]
      BY <2>1 DEF Moves
    <2> QED  BY <2>2, <2>3 DEF SchemaInHand, Valid
  <1> QED  BY <1>1, <1>2 DEF SchemasOK, Valid

\* A step that changes no journey, no environment and no schema.
LEMMA PlainStep ==
    ASSUME IndInv, NEW c \in Clients, NEW p, NEW q, NEW f, NEW a, Moves(c, p, q, f, a),
           NEW m, NEW g, Sees(c, stored[c], m, g),
           UNCHANGED <<menu, left, journeys, revision, compiled, envValue, pending, calls, used,
                       schemas, validators, lone, dirty>>,
           routeCache' \in [Names -> Ids \cup {None}], keyLock' \in Clients \cup {None}, keys' \in {0, 1},
           req[c].op \notin SchemaOps, q.op \notin SchemaOps,
           p \in Places, PlaceOK(p, q, f), EnvInHand(p, f), p # "ask",
           p \in {"check", "store"} => pc[c] \in {"check", "store"},
           WitnessOK(p, q, f, a, stored[c], m, g)
    PROVE  IndInv'
  <1>1. HandlersOK /\ JourneysOK /\ Budget /\ Witnesses /\ EnvOK /\ SchemasOK
    BY DEF IndInv, TypeInv
  <1>2. HandlersOK'
    BY <1>1, HandlersMove DEF Sees, HandlersOK, Functions
  <1>3. JourneysOK'
    BY <1>1 DEF JourneysOK
  <1>4. Budget'
    BY <1>1, BudgetMove DEF JourneysOK
  <1>5. Witnesses'
    BY <1>1, WitnessMove
  <1>6. EnvOK'
    BY <1>1, EnvMove
  <1>7. SchemasOK'
    BY <1>1, SchemasMove
  <1> QED  BY <1>2, <1>3, <1>4, <1>5, <1>6, <1>7 DEF IndInv, TypeInv

\* A client goes on with what it has found.
LEMMA MovesOn ==
    ASSUME Functions, NEW c \in Clients, NEW p, Goto(c, p), UNCHANGED <<req, found, reply>>
    PROVE  Moves(c, p, req[c], found[c], reply[c])
  BY DEF Functions, Moves, Goto

\* A client finds something and goes on.
LEMMA MovesWith ==
    ASSUME Functions, NEW c \in Clients, NEW p, NEW f, Goto(c, p),
           found' = [found EXCEPT ![c] = f], UNCHANGED <<req, reply>>
    PROVE  Moves(c, p, req[c], f, reply[c])
  BY DEF Functions, Moves, Goto

\* A client answers.
LEMMA MovesIdle ==
    ASSUME Functions, NEW c \in Clients, NEW v, NEW r, Answer(c, v, r), UNCHANGED <<req, found>>
    PROVE  Moves(c, Idle, req[c], found[c], [status |-> v, ran |-> r])
  BY DEF Functions, Moves, Goto, Answer

\* It has witnessed nothing new.
LEMMA SeesNothing ==
    ASSUME Functions, NEW c \in Clients, UNCHANGED <<stored, matched, missing>>
    PROVE  Sees(c, stored[c], matched[c], missing[c])
  BY DEF Functions, Sees

\* What the invariant says of one client.
LEMMA Here ==
    ASSUME IndInv, NEW c \in Clients
    PROVE  /\ Functions /\ pc[c] \in Places /\ PlaceOK(pc[c], req[c], found[c])
           /\ WitnessOK(pc[c], req[c], found[c], reply[c], stored[c], matched[c], missing[c])
           /\ EnvInHand(pc[c], found[c])
           /\ routeCache \in [Names -> Ids \cup {None}] /\ keyLock \in Clients \cup {None}
           /\ keys \in {0, 1}
  BY DEF IndInv, TypeInv, HandlersOK, JourneysOK, Witnesses, EnvOK

\* The fields of the requests.
LEMMA RequestFields ==
    /\ \A q \in SaveRequests : /\ q.op = "save" /\ q.op \notin SchemaOps
                               /\ q.id \in Ids \cup {None} /\ q.journey \in JourneyConfigs
    /\ \A q \in RealmRequests : /\ q.op \in {"get", "delete"} /\ q.op \notin SchemaOps
                                /\ q.id \in Ids /\ q.realm \in Names
    /\ \A q \in RouteRequests : q.op = "route" /\ q.op \notin SchemaOps /\ q.name \in Names
    /\ \A q \in InvokeRequests : q.op = "invoke" /\ q.op \notin SchemaOps /\ q.id \in Ids /\ q.realm \in Names
    /\ \A q \in SchemaRequests : /\ q.op \in SchemaOps /\ q.id \in Ids \cup {None}
                                 /\ q.op # "saveSchema" => q.id \in Ids
                                 /\ q.op = "saveSchema" => q.body \in Nat /\ q.body # None
    /\ {"save", "delete", "route"} \cap SchemaOps = {}
  BY DEF SaveRequests, RealmRequests, RouteRequests, InvokeRequests, SchemaRequests, SchemaOps

\* What a step leaves alone that only reads, or only writes the cache of routes or the key.
Plain ==
    /\ UNCHANGED <<menu, left, journeys, revision, compiled, envValue, pending, calls, used,
                   schemas, validators, lone, dirty>>
    /\ routeCache' \in [Names -> Ids \cup {None}] /\ keyLock' \in Clients \cup {None} /\ keys' \in {0, 1}

\* A plain step that answers.
LEMMA AnswerStep ==
    ASSUME IndInv, NEW c \in Clients, NEW v, NEW r, Answer(c, v, r), pc[c] # Idle,
           req[c].op \notin SchemaOps, UNCHANGED <<req, found, stored, matched, missing>>, Plain,
           AnswerOK(req[c], found[c], [status |-> v, ran |-> r], stored[c], matched[c], missing[c])
    PROVE  IndInv'
  <1> DEFINE a == [status |-> v, ran |-> r]
  <1>1. /\ WitnessOK(pc[c], req[c], found[c], reply[c], stored[c], matched[c], missing[c]) /\ Functions
    BY Here
  <1>2. Moves(c, Idle, req[c], found[c], a) /\ Sees(c, stored[c], matched[c], missing[c])
    BY <1>1, MovesIdle, SeesNothing
  <1> HIDE DEF a
  <1>3. Covers(Idle, req[c], stored[c], matched[c], missing[c])
    BY <1>1 DEF WitnessOK, Covers
  <1>4. HandOK(Idle, req[c], found[c], stored[c], matched[c], missing[c])
    BY DEF HandOK, Idle
  <1>5. PlaceOK(Idle, req[c], found[c]) /\ EnvInHand(Idle, found[c]) /\ Idle \in Places
    BY DEF PlaceOK, EnvInHand, Places, Idle
  <1>6. WitnessOK(Idle, req[c], found[c], a, stored[c], matched[c], missing[c])
    BY <1>3, <1>4 DEF WitnessOK, a
  <1> QED  BY <1>2, <1>5, <1>6, PlainStep DEF Plain, Idle

\* A plain step that goes on.
LEMMA GoStep ==
    ASSUME IndInv, NEW c \in Clients, NEW p \in Places, NEW f, Goto(c, p), pc[c] # Idle,
           found' = [found EXCEPT ![c] = f] \/ (UNCHANGED found /\ f = found[c]),
           req[c].op \notin SchemaOps, UNCHANGED <<req, reply, stored, matched, missing>>, Plain,
           PlaceOK(p, req[c], f), EnvInHand(p, f), p \notin {Idle, "ask", "check"},
           p = "store" => pc[c] = "check",
           HandOK(p, req[c], f, stored[c], matched[c], missing[c])
    PROVE  IndInv'
  <1>1. /\ WitnessOK(pc[c], req[c], found[c], reply[c], stored[c], matched[c], missing[c]) /\ Functions
    BY Here
  <1>2. Moves(c, p, req[c], f, reply[c]) /\ Sees(c, stored[c], matched[c], missing[c])
    BY <1>1, MovesOn, MovesWith, SeesNothing
  <1>3. Covers(p, req[c], stored[c], matched[c], missing[c])
    BY <1>1 DEF WitnessOK, Covers
  <1>4. WitnessOK(p, req[c], f, reply[c], stored[c], matched[c], missing[c])
    BY <1>3 DEF WitnessOK
  <1> QED  BY <1>2, <1>4, PlainStep DEF Plain

-----------------------------------------------------------------------------
(***************************************************************************)
(* The steps that only read, or only write the cache of routes or the key. *)
(***************************************************************************)

\* saveJourney looks for the name.
LEMMA CheckNameStep ==
    ASSUME IndInv, NEW c \in Clients, CheckName(c)
    PROVE  IndInv'
  <1>1. pc[c] = "check" /\ req[c] \in SaveRequests
    BY Here DEF CheckName, PlaceOK
  <1>2. req[c].op = "save" /\ req[c].op \notin SchemaOps
    BY <1>1, RequestFields
  <1>3. Plain /\ UNCHANGED <<req, found, stored, matched, missing>>
    BY Here DEF CheckName, Plain, stores, routing, environment, schemaState, history
  <1>4. CASE Answer(c, 409, Nothing)
    <2>1. AnswerOK(req[c], found[c], [status |-> 409, ran |-> Nothing], stored[c], matched[c], missing[c])
      BY <1>2 DEF AnswerOK
    <2> QED  BY <1>1, <1>2, <1>3, <1>4, <2>1, AnswerStep DEF Idle
  <1>5. CASE Goto(c, "store") /\ UNCHANGED reply
    <2>1. PlaceOK("store", req[c], found[c]) /\ EnvInHand("store", found[c]) /\ "store" \in Places
          /\ HandOK("store", req[c], found[c], stored[c], matched[c], missing[c])
      BY <1>1 DEF PlaceOK, EnvInHand, Places, HandOK
    <2> QED  BY <1>1, <1>2, <1>3, <1>5, <2>1, GoStep DEF Idle
  <1> QED  BY <1>4, <1>5 DEF CheckName

\* saveJourney and deleteJourney clear the cache of routes.
LEMMA ClearRoutesStep ==
    ASSUME IndInv, NEW c \in Clients, ClearRoutes(c)
    PROVE  IndInv'
  <1>1. pc[c] = "clear" /\ req[c].op \in {"save", "delete"}
    BY Here DEF ClearRoutes, PlaceOK
  <1>2. req[c].op \notin SchemaOps
    BY <1>1, RequestFields
  <1>3. routeCache' \in [Names -> Ids \cup {None}]
    BY DEF ClearRoutes
  <1>4. Plain /\ UNCHANGED <<req, found, stored, matched, missing>>
    BY <1>3, Here DEF ClearRoutes, Plain, stores, routing, environment, schemaState, history
  <1>5. AnswerOK(req[c], found[c], [status |-> 200, ran |-> Nothing], stored[c], matched[c], missing[c])
    BY <1>1 DEF AnswerOK
  <1> QED  BY <1>1, <1>2, <1>4, <1>5, AnswerStep DEF Idle, ClearRoutes

\* getJourney and deleteJourney look for their journey.
LEMMA FindJourneyStep ==
    ASSUME IndInv, NEW c \in Clients, FindJourney(c)
    PROVE  IndInv'
  <1>1. /\ pc[c] = "find" /\ req[c] \in RealmRequests /\ Functions
        /\ Covers(pc[c], req[c], stored[c], matched[c], missing[c])
    BY Here DEF FindJourney, PlaceOK, WitnessOK
  <1>2. req[c].op \in {"get", "delete"} /\ req[c].op \notin SchemaOps /\ req[c].realm \in Names
        /\ req[c].id \in Ids
    BY <1>1, RequestFields
  <1>3. Plain /\ UNCHANGED <<found, stored>>
    BY Here DEF FindJourney, Plain, stores, routing, environment, schemaState
  <1> DEFINE here == journeys[req[c].id] # Absent /\ journeys[req[c].id].realm = req[c].realm
  <1>4. CASE ~here
    <2> DEFINE q == [op |-> "route", name |-> req[c].realm]
               m == Candidates(journeys, req[c].realm)
               g == Misses(journeys, q)
    <2>1. /\ Goto(c, "cached") /\ req' = [req EXCEPT ![c] = q]
          /\ matched' = [matched EXCEPT ![c] = m] /\ missing' = [missing EXCEPT ![c] = g]
          /\ UNCHANGED reply
      BY <1>1, <1>4 DEF FindJourney, Functions
    <2>2. q \in RouteRequests /\ q.op = "route" /\ q.name = req[c].realm /\ q.op \notin SchemaOps
      BY <1>2 DEF RouteRequests, SchemaOps
    <2>3. m = Candidates(journeys, q.name) /\ g = Misses(journeys, q)
      BY <2>2
    <2> HIDE DEF q, m, g
    <2>4. Moves(c, "cached", q, found[c], reply[c]) /\ Sees(c, stored[c], m, g)
      BY <1>1, <1>3, <2>1 DEF Functions, Moves, Sees, Goto
    <2>5. /\ PlaceOK("cached", q, found[c]) /\ EnvInHand("cached", found[c]) /\ "cached" \in Places
          /\ HandOK("cached", q, found[c], stored[c], m, g)
      BY <2>2 DEF PlaceOK, EnvInHand, Places, HandOK
    <2>6. Covers("cached", q, stored[c], m, g)
      BY <1>1, <1>2, <2>2, <2>3 DEF Covers, Idle
    <2>7. WitnessOK("cached", q, found[c], reply[c], stored[c], m, g)
      BY <2>5, <2>6 DEF WitnessOK, Idle
    <2> QED  BY <1>2, <1>3, <2>2, <2>4, <2>5, <2>7, PlainStep DEF Plain
  <1>5. CASE here /\ req[c].op = "delete"
    <2>1. Goto(c, "remove") /\ UNCHANGED <<reply, req, matched, missing>>
      BY <1>5 DEF FindJourney
    <2>2. PlaceOK("remove", req[c], found[c]) /\ EnvInHand("remove", found[c]) /\ "remove" \in Places
          /\ HandOK("remove", req[c], found[c], stored[c], matched[c], missing[c])
      BY <1>1, <1>5 DEF PlaceOK, EnvInHand, Places, HandOK
    <2> QED  BY <1>1, <1>2, <1>3, <2>1, <2>2, GoStep DEF Idle
  <1>6. CASE here /\ req[c].op # "delete"
    <2> DEFINE r == <<req[c].id, journeys[req[c].id].rev>>
    <2>1. Answer(c, 200, r) /\ UNCHANGED <<req, matched, missing>>
      BY <1>6 DEF FindJourney
    <2>2. r \in stored[c]
      BY <1>1, <1>2, <1>6 DEF Covers, Idle
    <2> HIDE DEF r
    <2>3. AnswerOK(req[c], found[c], [status |-> 200, ran |-> r], stored[c], matched[c], missing[c])
      BY <1>2, <2>2 DEF AnswerOK
    <2> QED  BY <1>1, <1>2, <1>3, <2>1, <2>3, AnswerStep DEF Idle
  <1> QED  BY <1>4, <1>5, <1>6

\* resolveRouteJourney, step by step.
LEMMA RouteSteps ==
    ASSUME IndInv, NEW c \in Clients,
           \/ RouteCacheGet(c) \/ VerifyRoute(c) \/ ForgetRoute(c) \/ SearchRoute(c) \/ RememberRoute(c)
    PROVE  IndInv'
  <1> DEFINE q == req[c]
             s == stored[c]
             m == matched[c]
             g == missing[c]
  <1>1. /\ pc[c] \in {"cached", "verify", "forget", "search", "remember"} /\ q \in RouteRequests
        /\ Covers(pc[c], q, s, m, g) /\ HandOK(pc[c], q, found[c], s, m, g)
        /\ routeCache \in [Names -> Ids \cup {None}] /\ PlaceOK(pc[c], q, found[c])
    BY Here DEF RouteCacheGet, VerifyRoute, ForgetRoute, SearchRoute, RememberRoute, PlaceOK, WitnessOK
  <1>2. q.op = "route" /\ q.op \notin SchemaOps /\ q.name \in Names
    BY <1>1, RequestFields
  <1>3. UNCHANGED <<req, stored, matched, missing>>
    BY DEF RouteCacheGet, VerifyRoute, ForgetRoute, SearchRoute, RememberRoute, history
  <1>4. (RememberRoute(c) => found[c].id \in Ids) /\ (VerifyRoute(c) => found[c].id \in Ids)
    BY <1>1 DEF RememberRoute, VerifyRoute, PlaceOK, Known, LedTo
  <1>5. Plain
    <2>1. UNCHANGED <<menu, left, journeys, revision, compiled, envValue, pending, calls, used,
                      schemas, validators, lone, dirty, keyLock, keys>>
      BY DEF RouteCacheGet, VerifyRoute, ForgetRoute, SearchRoute, RememberRoute, stores, routing,
             environment, schemaState, history
    <2>2. routeCache' \in [Names -> Ids \cup {None}]
      BY <1>1, <1>2, <1>4 DEF RouteCacheGet, VerifyRoute, ForgetRoute, SearchRoute, RememberRoute, routing
    <2> QED  BY <2>1, <2>2, Here DEF Plain
  <1>6. /\ Candidates(journeys, q.name) \subseteq m /\ (Candidates(journeys, q.name) = {} => <<None, q.name>> \in g)
    <2>1. Candidates(journeys, q.name) \subseteq m /\ Misses(journeys, q) \subseteq g
      BY <1>1, <1>2 DEF Covers, Idle
    <2>2. ASSUME Candidates(journeys, q.name) = {} PROVE <<None, q.name>> \in Misses(journeys, q)
      BY <1>2, <2>2 DEF Misses
    <2> QED  BY <2>1, <2>2
  <1>7. ASSUME NEW i \in Candidates(journeys, q.name)
        PROVE  i \in Ids /\ i \in m /\ Led(i, journeys[i].realm) \in LedTo /\ Led(i, journeys[i].realm).id = i
    <2>1. i \in Ids /\ i \in m /\ journeys[i] # Absent
      BY <1>6, <1>7 DEF Candidates, Matches
    <2>2. journeys[i].realm \in Names
      BY <2>1 DEF IndInv, TypeInv, JourneysOK, JourneyConfigs
    <2> QED  BY <2>1, <2>2 DEF Led, LedTo
  <1>8. \A p \in {"verify", "forget", "search", "remember", "load"} :
            p \in Places /\ p \notin {Idle, "ask", "check", "store"}
    BY DEF Places, Idle
  <1>9. \A p \in {"verify", "forget", "search", "remember", "load"} : \A f : EnvInHand(p, f)
    BY DEF EnvInHand
  <1>a. CASE RouteCacheGet(c)
    <2>1. CASE routeCache[q.name] = None
      <3>1. Goto(c, "search") /\ UNCHANGED <<found, reply>>
        BY <1>a, <2>1 DEF RouteCacheGet
      <3>2. PlaceOK("search", q, found[c]) /\ HandOK("search", q, found[c], s, m, g)
        BY <1>1 DEF PlaceOK, HandOK
      <3> QED  BY <1>1, <1>2, <1>3, <1>5, <1>8, <1>9, <3>1, <3>2, GoStep DEF Idle
    <2>2. CASE routeCache[q.name] # None
      <3> DEFINE f == [id |-> routeCache[q.name]]
      <3>1. Goto(c, "verify") /\ found' = [found EXCEPT ![c] = f] /\ UNCHANGED reply
        BY <1>a, <2>2 DEF RouteCacheGet
      <3>2. f \in Known
        BY <1>1, <1>2, <2>2 DEF Known
      <3> HIDE DEF f
      <3>3. PlaceOK("verify", q, f) /\ HandOK("verify", q, f, s, m, g)
        BY <1>1, <3>2 DEF PlaceOK, HandOK
      <3> QED  BY <1>1, <1>2, <1>3, <1>5, <1>8, <1>9, <3>1, <3>3, GoStep DEF Idle
    <2> QED  BY <2>1, <2>2
  <1>b. CASE VerifyRoute(c)
    <2>1. pc[c] = "verify" /\ found[c] \in Known /\ UNCHANGED reply /\ found[c].id \in Ids /\ Functions
      BY <1>1, <1>4, <1>b, Here DEF VerifyRoute, PlaceOK
    <2>2. CASE Matches(journeys[found[c].id], q.name)
      <3>1. PICK f : f = Led(found[c].id, journeys[found[c].id].realm)
        OBVIOUS
      <3>2. Goto(c, "load") /\ found' = [found EXCEPT ![c] = f]
        BY <1>b, <2>1, <2>2, <3>1 DEF VerifyRoute, Functions
      <3>3. found[c].id \in Candidates(journeys, q.name)
        BY <2>1, <2>2 DEF Candidates
      <3>4. PlaceOK("load", q, f) /\ HandOK("load", q, f, s, m, g)
        BY <1>1, <1>7, <3>1, <3>3 DEF PlaceOK, HandOK
      <3> QED  BY <1>1, <1>2, <1>3, <1>5, <1>8, <1>9, <2>1, <3>2, <3>4, GoStep DEF Idle
    <2>3. CASE ~Matches(journeys[found[c].id], q.name)
      <3>1. Goto(c, "forget") /\ UNCHANGED found
        BY <1>b, <2>3 DEF VerifyRoute
      <3>2. PlaceOK("forget", q, found[c]) /\ HandOK("forget", q, found[c], s, m, g)
        BY <1>1 DEF PlaceOK, HandOK
      <3> QED  BY <1>1, <1>2, <1>3, <1>5, <1>8, <1>9, <2>1, <3>1, <3>2, GoStep DEF Idle
    <2> QED  BY <2>2, <2>3
  <1>c. CASE ForgetRoute(c)
    <2>1. Goto(c, "search") /\ UNCHANGED <<found, reply>>
      BY <1>c DEF ForgetRoute
    <2>2. PlaceOK("search", q, found[c]) /\ HandOK("search", q, found[c], s, m, g)
      BY <1>1 DEF PlaceOK, HandOK
    <2> QED  BY <1>1, <1>2, <1>3, <1>5, <1>8, <1>9, <2>1, <2>2, GoStep DEF Idle
  <1>d. CASE SearchRoute(c)
    <2>1. CASE Candidates(journeys, q.name) = {} /\ Answer(c, 404, Nothing) /\ UNCHANGED found
      <3>1. AnswerOK(q, found[c], [status |-> 404, ran |-> Nothing], s, m, g)
        BY <1>6, <2>1 DEF AnswerOK
      <3> QED  BY <1>1, <1>2, <1>3, <1>5, <2>1, <3>1, AnswerStep DEF Idle
    <2>2. ASSUME NEW h \in Candidates(journeys, q.name), Goto(c, "remember"), UNCHANGED reply,
                 found' = [found EXCEPT ![c] = Led(h, journeys[h].realm)]
          PROVE  IndInv'
      <3>1. PICK f : f = Led(h, journeys[h].realm)
        OBVIOUS
      <3>2. found' = [found EXCEPT ![c] = f]
        BY <2>2, <3>1
      <3>3. PlaceOK("remember", q, f) /\ HandOK("remember", q, f, s, m, g)
        BY <1>1, <1>7, <3>1 DEF PlaceOK, HandOK
      <3> QED  BY <1>1, <1>2, <1>3, <1>5, <1>8, <1>9, <2>2, <3>2, <3>3, GoStep DEF Idle
    <2> QED  BY <1>d, <2>1, <2>2 DEF SearchRoute
  <1>e. CASE RememberRoute(c)
    <2>1. pc[c] = "remember" /\ Goto(c, "load") /\ UNCHANGED <<found, reply>>
      BY <1>e DEF RememberRoute
    <2>2. PlaceOK("load", q, found[c]) /\ HandOK("load", q, found[c], s, m, g)
      BY <1>1, <2>1 DEF PlaceOK, HandOK
    <2> QED  BY <1>1, <1>2, <1>3, <1>5, <1>8, <1>9, <2>1, <2>2, GoStep DEF Idle
  <1> QED  BY <1>a, <1>b, <1>c, <1>d, <1>e

\* loadJourney: a journey that cannot be found any more could be missed.
LEMMA LoadJourneyStep ==
    ASSUME IndInv, NEW c \in Clients, LoadJourney(c)
    PROVE  IndInv'
  <1> DEFINE q == req[c]
             s == stored[c]
             m == matched[c]
             g == missing[c]
  <1>1. /\ pc[c] = "load" /\ PlaceOK(pc[c], q, found[c]) /\ (q \in RouteRequests \/ q \in InvokeRequests)
        /\ Covers(pc[c], q, s, m, g) /\ HandOK(pc[c], q, found[c], s, m, g)
    BY Here DEF LoadJourney, PlaceOK, WitnessOK
  <1>2. /\ q.op \in {"route", "invoke"} /\ q.op \notin SchemaOps
        /\ q.op = "invoke" => q.id \in Ids /\ q.realm \in Names
        /\ q.op = "route" => found[c] \in LedTo
    BY <1>1, RequestFields DEF PlaceOK
  <1>3. Plain /\ UNCHANGED <<req, stored, matched, missing>>
    BY Here DEF LoadJourney, Plain, stores, routing, environment, schemaState, history
  <1>4. PICK led \in LedTo : led = IF q.op = "invoke" THEN Led(q.id, q.realm) ELSE found[c]
    BY <1>2 DEF Led, LedTo
  <1> DEFINE i == led.id
             n == led.realm
  <1>5. i \in Ids /\ n \in Names /\ (q.op = "route" => i = found[c].id /\ n = found[c].realm /\ i \in m)
    BY <1>1, <1>2, <1>4 DEF LedTo, HandOK
  <1>6. ASSUME Refusable(journeys[i], n) PROVE <<i, n>> \in g
    <2>1. Misses(journeys, q) \subseteq g
      BY <1>1, <1>2 DEF Covers, Idle
    <2>2. <<i, n>> \in Misses(journeys, q)
      BY <1>5, <1>6 DEF Misses
    <2> QED  BY <2>1, <2>2
  <1>7. \/ Answer(c, 403, Nothing) /\ UNCHANGED found
        \/ /\ journeys[i] = Absent \/ ~(journeys[i] # Absent /\ journeys[i].active)
           /\ Answer(c, 404, Nothing) /\ UNCHANGED found
        \/ /\ journeys[i] # Absent /\ journeys[i].active
           /\ found' = [found EXCEPT ![c] = [id |-> i, realm |-> n, journey |-> journeys[i], env |-> None]]
           /\ Goto(c, "lookup") /\ UNCHANGED reply
    BY <1>4 DEF LoadJourney
  <1> HIDE DEF i, n
  <1>8. CASE Answer(c, 403, Nothing) /\ UNCHANGED found
    <2>1. AnswerOK(q, found[c], [status |-> 403, ran |-> Nothing], s, m, g)
      BY DEF AnswerOK
    <2> QED  BY <1>1, <1>2, <1>3, <1>8, <2>1, AnswerStep DEF Idle
  <1>9. CASE /\ journeys[i] = Absent \/ ~(journeys[i] # Absent /\ journeys[i].active)
             /\ Answer(c, 404, Nothing) /\ UNCHANGED found
    <2>1. <<i, n>> \in g
      BY <1>6, <1>9 DEF Refusable
    <2>2. AnswerOK(q, found[c], [status |-> 404, ran |-> Nothing], s, m, g)
      BY <1>5, <2>1 DEF AnswerOK
    <2> QED  BY <1>1, <1>2, <1>3, <1>9, <2>2, AnswerStep DEF Idle
  <1>10. CASE /\ journeys[i] # Absent /\ journeys[i].active
              /\ found' = [found EXCEPT ![c] = [id |-> i, realm |-> n, journey |-> journeys[i], env |-> None]]
              /\ Goto(c, "lookup") /\ UNCHANGED reply
    <2> DEFINE f == [id |-> i, realm |-> n, journey |-> journeys[i], env |-> None]
    <2>1. journeys[i] \in JourneyConfigs
      BY <1>5, <1>10 DEF IndInv, TypeInv, JourneysOK
    <2>2. f \in Loaded /\ f.env = None /\ f.id = i /\ f.realm = n /\ f.journey = journeys[i]
      BY <1>5, <2>1 DEF Loaded, None
    <2>3. found' = [found EXCEPT ![c] = f]
      BY <1>10
    <2> HIDE DEF f
    <2>4. PlaceOK("lookup", q, f) /\ EnvInHand("lookup", f) /\ "lookup" \in Places
      BY <1>1, <2>2 DEF PlaceOK, EnvInHand, Places
    <2>5. <<i, journeys[i].rev>> \in s /\ Excused(f, g)
      BY <1>1, <1>2, <1>5, <1>6, <1>10, <2>2 DEF Covers, Idle, Excused, Refusable
    <2>6. HandOK("lookup", q, f, s, m, g)
      BY <1>5, <2>2, <2>5 DEF HandOK
    <2> QED  BY <1>1, <1>2, <1>3, <1>10, <2>3, <2>4, <2>6, GoStep DEF Idle
  <1> QED  BY <1>7, <1>8, <1>9, <1>10

\* The answer of a run is what was compiled.
LEMMA RanOK ==
    ASSUME IndInv, NEW c \in Clients, pc[c] \in {"run", "lockKey", "createKey"}
    PROVE  /\ AnswerOK(req[c], found[c], [status |-> 200, ran |-> Ran(c)], stored[c], matched[c], missing[c])
           /\ AnswerOK(req[c], found[c], [status |-> 500, ran |-> Nothing], stored[c], matched[c], missing[c])
           /\ req[c].op \notin SchemaOps /\ pc[c] # Idle
           /\ req[c] \in RouteRequests \/ req[c] \in InvokeRequests
           /\ found[c] \in Compiled /\ HandOK(pc[c], req[c], found[c], stored[c], matched[c], missing[c])
  <1>1. /\ HandOK(pc[c], req[c], found[c], stored[c], matched[c], missing[c])
        /\ PlaceOK(pc[c], req[c], found[c])
    BY Here DEF WitnessOK
  <1>2. /\ req[c].op \notin SchemaOps /\ found[c] \in Compiled
        /\ req[c] \in RouteRequests \/ req[c] \in InvokeRequests
    BY <1>1, RequestFields DEF PlaceOK
  <1>3. Ran(c) \in stored[c] /\ (req[c].op = "route" => Ran(c)[1] \in matched[c])
    BY <1>1 DEF HandOK, Ran
  <1> QED  BY <1>1, <1>2, <1>3 DEF AnswerOK, Idle

\* A run ends, or makes the key of its token.
LEMMA RunEndSteps ==
    ASSUME IndInv, NEW c \in Clients, EndRun(c) \/ LockKey(c) \/ CreateKey(c)
    PROVE  IndInv'
  <1>1. pc[c] \in {"run", "lockKey", "createKey"} /\ keys \in {0, 1} /\ keyLock \in Clients \cup {None}
        /\ routeCache \in [Names -> Ids \cup {None}]
    BY Here DEF EndRun, LockKey, CreateKey
  <1>2. /\ AnswerOK(req[c], found[c], [status |-> 200, ran |-> Ran(c)], stored[c], matched[c], missing[c])
        /\ AnswerOK(req[c], found[c], [status |-> 500, ran |-> Nothing], stored[c], matched[c], missing[c])
        /\ req[c].op \notin SchemaOps /\ pc[c] # Idle
        /\ req[c] \in RouteRequests \/ req[c] \in InvokeRequests
        /\ found[c] \in Compiled /\ HandOK(pc[c], req[c], found[c], stored[c], matched[c], missing[c])
    BY <1>1, RanOK
  <1>3. Plain /\ UNCHANGED <<req, found, stored, matched, missing>>
    BY <1>1 DEF EndRun, LockKey, CreateKey, Plain, stores, routing, environment, schemaState, history
  <1>4. ASSUME NEW p \in {"lockKey", "createKey"}, Goto(c, p), UNCHANGED reply PROVE IndInv'
    <2>1. PlaceOK(p, req[c], found[c]) /\ EnvInHand(p, found[c]) /\ p \in Places
          /\ HandOK(p, req[c], found[c], stored[c], matched[c], missing[c])
      BY <1>1, <1>2 DEF PlaceOK, EnvInHand, Places, HandOK
    <2>2. p \notin {Idle, "ask", "check", "store"}
      BY DEF Idle
    <2> QED  BY <1>2, <1>3, <1>4, <2>1, <2>2, GoStep
  <1>5. CASE EndRun(c)
    BY <1>2, <1>3, <1>4, <1>5, AnswerStep DEF EndRun
  <1>6. CASE LockKey(c)
    BY <1>4, <1>6 DEF LockKey
  <1>7. CASE CreateKey(c)
    BY <1>2, <1>3, <1>7, AnswerStep DEF CreateKey
  <1> QED  BY <1>5, <1>6, <1>7

\* What is known while the environment is resolved.
LEMMA Resolving ==
    ASSUME IndInv, NEW c \in Clients, pc[c] \in {"lookup", "resolve", "ask", "wait", "compile"}
    PROVE  /\ req[c].op \notin SchemaOps /\ pc[c] # Idle /\ found[c] \in Loaded
           /\ req[c] \in RouteRequests \/ req[c] \in InvokeRequests
           /\ EnvInHand(pc[c], found[c]) /\ HandOK(pc[c], req[c], found[c], stored[c], matched[c], missing[c])
           /\ AnswerOK(req[c], found[c], [status |-> 500, ran |-> Nothing], stored[c], matched[c], missing[c])
           /\ Functions /\ <<found[c].id, found[c].journey.rev>> \in stored[c]
           /\ Excused(found[c], missing[c]) /\ (req[c].op = "route" => found[c].id \in matched[c])
           /\ stored[c] \subseteq Ids \X (1..revision)
  <1>1. /\ HandOK(pc[c], req[c], found[c], stored[c], matched[c], missing[c]) /\ EnvInHand(pc[c], found[c])
        /\ PlaceOK(pc[c], req[c], found[c]) /\ Functions
        /\ Covers(pc[c], req[c], stored[c], matched[c], missing[c])
    BY Here DEF WitnessOK
  <1>2. /\ req[c].op \notin SchemaOps /\ found[c] \in Loaded
        /\ req[c] \in RouteRequests \/ req[c] \in InvokeRequests
    BY <1>1, RequestFields DEF PlaceOK
  <1>3. /\ <<found[c].id, found[c].journey.rev>> \in stored[c] /\ pc[c] # Idle
        /\ Excused(found[c], missing[c]) /\ (req[c].op = "route" => found[c].id \in matched[c])
        /\ stored[c] \subseteq Ids \X (1..revision)
    BY <1>1 DEF HandOK, Idle, Covers
  <1> QED  BY <1>1, <1>2, <1>3 DEF AnswerOK

\* The journey in hand gets a value of the environment, or the number of a call.
LEMMA WithEnv ==
    ASSUME NEW f \in Loaded, NEW v \in Answers \cup Nat
    PROVE  LET e == [f EXCEPT !.env = v]
           IN  e \in Loaded /\ e.env = v /\ e.id = f.id /\ e.realm = f.realm /\ e.journey = f.journey
  BY DEF Loaded

\* A call of the resolver is over, or its maker is answered.
LEMMA AwaitSteps ==
    ASSUME IndInv, NEW c \in Clients, AwaitCall(c) \/ ResolverPanics(c)
    PROVE  IndInv'
  <1>1. pc[c] \in {"wait", "ask"} /\ (AwaitCall(c) => pc[c] = "wait")
    BY DEF AwaitCall, ResolverPanics
  <1>2. /\ req[c].op \notin SchemaOps /\ pc[c] # Idle /\ found[c] \in Loaded
        /\ req[c] \in RouteRequests \/ req[c] \in InvokeRequests
        /\ EnvInHand(pc[c], found[c]) /\ HandOK(pc[c], req[c], found[c], stored[c], matched[c], missing[c])
        /\ AnswerOK(req[c], found[c], [status |-> 500, ran |-> Nothing], stored[c], matched[c], missing[c])
        /\ Functions /\ <<found[c].id, found[c].journey.rev>> \in stored[c]
        /\ Excused(found[c], missing[c]) /\ (req[c].op = "route" => found[c].id \in matched[c])
    BY <1>1, Resolving
  <1>3. Plain /\ UNCHANGED <<req, stored, matched, missing>>
    BY Here DEF AwaitCall, ResolverPanics, Plain, stores, routing, environment, schemaState, history
  <1>4. CASE Answer(c, 500, Nothing) /\ UNCHANGED found
    BY <1>2, <1>3, <1>4, AnswerStep
  <1>5. CASE AwaitCall(c) /\ ~(Answer(c, 500, Nothing) /\ UNCHANGED found)
    <2> DEFINE v == calls[found[c].env]
               f == [found[c] EXCEPT !.env = v]
    <2>1. v # OpenCall /\ v # FailedCall /\ found[c].env \in 1..Len(calls)
      BY <1>1, <1>2, <1>5 DEF AwaitCall, EnvInHand
    <2>2. v = envValue /\ v \in Answers \cup {None}
      BY <2>1 DEF IndInv, EnvOK
    <2>3. v \in Answers \cup Nat
      BY <2>2 DEF None
    <2>4. /\ Goto(c, "compile") /\ UNCHANGED reply /\ found' = [found EXCEPT ![c] = f]
      BY <1>2, <1>5 DEF AwaitCall, Functions
    <2> HIDE DEF v
    <2>5. f \in Loaded /\ f.env = v /\ f.id = found[c].id /\ f.realm = found[c].realm
        /\ f.journey = found[c].journey
      BY <1>2, <2>3, WithEnv
    <2> HIDE DEF f
    <2>6. PlaceOK("compile", req[c], f) /\ EnvInHand("compile", f) /\ "compile" \in Places
      BY <1>2, <2>2, <2>5 DEF PlaceOK, EnvInHand, Places
    <2>7. HandOK("compile", req[c], f, stored[c], matched[c], missing[c])
      BY <1>2, <2>5 DEF HandOK, Excused
    <2> QED  BY <1>2, <1>3, <2>4, <2>6, <2>7, GoStep DEF Idle
  <1> QED  BY <1>4, <1>5 DEF ResolverPanics, AwaitCall

-----------------------------------------------------------------------------
(***************************************************************************)
(* The steps that change the environment or what is compiled.              *)
(***************************************************************************)

\* Such a step leaves the journeys and the schemas alone.
LEMMA ResolvingStep ==
    ASSUME IndInv, NEW c \in Clients, NEW p \in Places, NEW f, NEW a, Moves(c, p, req[c], f, a),
           pc[c] \in {"lookup", "resolve", "ask", "wait", "compile"},
           UNCHANGED <<menu, left, journeys, revision, stored, matched, missing, schemas, validators,
                       lone, dirty>>,
           JourneysOK', EnvOK', PlaceOK(p, req[c], f), p \notin {"check", "store"},
           HandOK(p, req[c], f, stored[c], matched[c], missing[c]),
           p = Idle => AnswerOK(req[c], f, a, stored[c], matched[c], missing[c])
    PROVE  IndInv'
  <1>1. HandlersOK /\ JourneysOK /\ Budget /\ Witnesses /\ SchemasOK
    BY DEF IndInv, TypeInv
  <1>2. /\ req[c].op \notin SchemaOps /\ Functions /\ pc[c] # Idle
        /\ Covers(pc[c], req[c], stored[c], matched[c], missing[c])
    BY Resolving, Here DEF WitnessOK
  <1>3. HandlersOK'
    BY <1>1, <1>2, HandlersMove DEF Functions
  <1>4. Budget'
    BY <1>1, BudgetMove DEF JourneysOK
  <1>5. Sees(c, stored[c], matched[c], missing[c])
    BY <1>2, SeesNothing
  <1>6. Covers(p, req[c], stored[c], matched[c], missing[c])
    BY <1>2 DEF Covers
  <1>7. WitnessOK(p, req[c], f, a, stored[c], matched[c], missing[c])
    BY <1>6 DEF WitnessOK
  <1>8. Witnesses'
    BY <1>1, <1>5, <1>7, WitnessMove
  <1>9. SchemasOK'
    BY <1>1, <1>2, SchemasMove
  <1> QED  BY <1>3, <1>4, <1>8, <1>9 DEF IndInv, TypeInv

\* A compiled journey runs; it may have been compiled just now.
LEMMA RunStep ==
    ASSUME IndInv, NEW c \in Clients, pc[c] \in {"lookup", "compile"}, NEW e \in Entries,
           e.of = found[c].journey.rev, e.version = e.of, e.env \in {None, envValue}, Run(c, e),
           compiled' = [compiled EXCEPT ![found[c].id] = e] \/ UNCHANGED compiled,
           UNCHANGED <<menu, left, journeys, revision, routeCache, keyLock, keys, req, stored,
                       matched, missing, envValue, pending, calls, schemas, validators, lone, dirty>>
    PROVE  IndInv'
  <1>1. /\ found[c] \in Loaded /\ (req[c] \in RouteRequests \/ req[c] \in InvokeRequests)
        /\ Functions /\ req[c].op \notin SchemaOps /\ <<found[c].id, found[c].journey.rev>> \in stored[c]
        /\ Excused(found[c], missing[c]) /\ (req[c].op = "route" => found[c].id \in matched[c])
        /\ stored[c] \subseteq Ids \X (1..revision)
    BY Resolving
  <1>2. found[c].id \in Ids
    BY <1>1 DEF Loaded
  <1>3. \A i \in Ids : compiled'[i] = compiled[i] \/ compiled'[i] = e
    BY <1>2 DEF IndInv, TypeInv, JourneysOK
  <1>4. e.version \in 1..revision
    BY <1>1
  <1>5. JourneysOK'
    BY <1>3, <1>4 DEF IndInv, TypeInv, JourneysOK
  <1>6. ASSUME NEW p \in {"run", Idle}, NEW f, NEW a, Moves(c, p, req[c], f, a),
               used' = used \cup ({e.env} \ {None}) \/ UNCHANGED used
        PROVE  EnvOK'
    <2>1. \A d \in Clients : EnvInHand(pc[d], found[d])'
      BY <1>6 DEF IndInv, EnvOK, EnvInHand, Moves, Idle
    <2>2. \A d, x \in Clients : pc'[d] = "ask" /\ pc'[x] = "ask" => d = x
      BY <1>6 DEF IndInv, EnvOK, Moves, Idle
    <2>3. used' \subseteq {envValue'} \ {None}
      BY <1>6 DEF IndInv, EnvOK
    <2>4. \A i \in Ids : compiled'[i] # NoEntry => compiled'[i].env \in {None, envValue'}
      BY <1>3 DEF IndInv, EnvOK
    <2> QED  BY <2>1, <2>2, <2>3, <2>4 DEF IndInv, EnvOK
  <1>7. CASE /\ found' = [found EXCEPT ![c] = [id |-> found[c].id, entry |-> e]] /\ Goto(c, "run")
             /\ used' = used \cup ({e.env} \ {None}) /\ UNCHANGED reply
    <2>1. PICK f : f = [id |-> found[c].id, entry |-> e]
      OBVIOUS
    <2>2. f \in Compiled /\ f.id = found[c].id /\ f.entry = e
      BY <1>2, <2>1 DEF Compiled
    <2>3. Moves(c, "run", req[c], f, reply[c])
      BY <1>1, <1>7, <2>1, MovesWith
    <2>4. PlaceOK("run", req[c], f) /\ "run" \in Places /\ "run" # Idle
          /\ HandOK("run", req[c], f, stored[c], matched[c], missing[c])
      BY <1>1, <2>2 DEF PlaceOK, Places, HandOK, Idle
    <2>5. EnvOK'
      BY <1>6, <1>7, <2>3
    <2> QED  BY <1>5, <2>3, <2>4, <2>5, ResolvingStep
  <1>8. CASE /\ found[c].journey.confidential \/ found[c].journey.realm # found[c].realm
             /\ Answer(c, 404, Nothing) /\ UNCHANGED <<found, used>>
    <2> DEFINE a == [status |-> 404, ran |-> Nothing]
    <2>1. Moves(c, Idle, req[c], found[c], a)
      BY <1>1, <1>8, MovesIdle
    <2>2. AnswerOK(req[c], found[c], a, stored[c], matched[c], missing[c])
      BY <1>1, <1>8 DEF AnswerOK, Excused
    <2> HIDE DEF a
    <2>3. /\ PlaceOK(Idle, req[c], found[c]) /\ Idle \in Places /\ Idle \notin {"ask", "check", "store"}
          /\ HandOK(Idle, req[c], found[c], stored[c], matched[c], missing[c])
      BY DEF PlaceOK, Places, Idle, HandOK
    <2>4. PICK f : f = found[c]
      OBVIOUS
    <2>5. EnvOK'
      BY <1>6, <1>8, <2>1, <2>4
    <2> QED  BY <1>5, <2>1, <2>2, <2>3, <2>5, ResolvingStep
  <1> QED  BY <1>7, <1>8 DEF Run

\* runtimeJourney: the lookup and the end of the compilation.
LEMMA CompiledSteps ==
    ASSUME IndInv, NEW c \in Clients, LookupCompiled(c) \/ PublishCompiled(c)
    PROVE  IndInv'
  <1>1. pc[c] \in {"lookup", "compile"}
    BY DEF LookupCompiled, PublishCompiled
  <1>2. /\ req[c].op \notin SchemaOps /\ pc[c] # Idle /\ found[c] \in Loaded
        /\ req[c] \in RouteRequests \/ req[c] \in InvokeRequests
        /\ EnvInHand(pc[c], found[c]) /\ HandOK(pc[c], req[c], found[c], stored[c], matched[c], missing[c])
        /\ Functions /\ <<found[c].id, found[c].journey.rev>> \in stored[c]
        /\ Excused(found[c], missing[c]) /\ (req[c].op = "route" => found[c].id \in matched[c])
    BY <1>1, Resolving
  <1>3. UNCHANGED <<menu, left, journeys, revision, routeCache, keyLock, keys, req, stored,
                    matched, missing, envValue, pending, calls, schemas, validators, lone, dirty>>
    BY DEF LookupCompiled, PublishCompiled, stores, routing, environment, schemaState
  <1>4. PICK i \in Ids : i = found[c].id
    BY <1>2 DEF Loaded
  <1>5. found[c].journey.rev \in Nat /\ found[c].env \in Answers \cup Nat
    BY <1>2 DEF Loaded, JourneyConfigs
  <1>6. compiled[i] # NoEntry =>
          /\ compiled[i] \in Entries /\ compiled[i].of = compiled[i].version
          /\ compiled[i].env \in {None, envValue}
    BY DEF IndInv, TypeInv, JourneysOK, EnvOK
  <1>7. CASE compiled[i] # NoEntry /\ compiled[i].version = found[c].journey.rev
    <2>1. Run(c, compiled[i]) /\ UNCHANGED compiled
      BY <1>4, <1>7 DEF LookupCompiled, PublishCompiled, routing
    <2> QED  BY <1>1, <1>3, <1>6, <1>7, <2>1, RunStep
  <1>8. CASE PublishCompiled(c) /\ ~(compiled[i] # NoEntry /\ compiled[i].version = found[c].journey.rev)
    <2> DEFINE e == CompiledEntry(c)
    <2>1. compiled' = [compiled EXCEPT ![found[c].id] = e] /\ Run(c, e)
      BY <1>4, <1>8 DEF PublishCompiled
    <2>2. found[c].env \in {None, envValue} /\ envValue \in Answers \cup {None}
      BY <1>2, <1>8 DEF PublishCompiled, EnvInHand, IndInv, EnvOK
    <2>3. /\ e \in Entries /\ e.of = found[c].journey.rev /\ e.version = e.of
          /\ e.env \in {None, envValue}
      BY <1>5, <2>2 DEF CompiledEntry, Entries
    <2> HIDE DEF e
    <2> QED  BY <1>1, <1>3, <2>1, <2>3, RunStep
  <1>9. CASE LookupCompiled(c) /\ ~(compiled[i] # NoEntry /\ compiled[i].version = found[c].journey.rev)
    <2>1. PICK p \in {"resolve", "compile"} : Goto(c, p)
      BY <1>4, <1>9 DEF LookupCompiled
    <2>2. UNCHANGED <<found, used, reply>> /\ pc[c] = "lookup" /\ UNCHANGED compiled
      BY <1>4, <1>9 DEF LookupCompiled, routing
    <2>3. PlaceOK(p, req[c], found[c]) /\ p \in Places /\ p \notin {Idle, "ask", "check", "store"}
          /\ HandOK(p, req[c], found[c], stored[c], matched[c], missing[c])
      BY <1>2 DEF PlaceOK, Places, HandOK, Idle
    <2>4. EnvInHand(p, found[c])
      BY <1>2, <2>2 DEF EnvInHand
    <2>5. Plain
      BY <1>3, <2>2, Here DEF Plain
    <2> QED  BY <1>2, <1>3, <2>1, <2>2, <2>3, <2>4, <2>5, GoStep
  <1> QED  BY <1>7, <1>8, <1>9

\* staticEnvironmentCache.resolve, first section.
LEMMA BeginResolveStep ==
    ASSUME IndInv, NEW c \in Clients, BeginResolve(c)
    PROVE  IndInv'
  <1>1. pc[c] = "resolve"
    BY DEF BeginResolve
  <1>2. /\ req[c].op \notin SchemaOps /\ pc[c] # Idle /\ found[c] \in Loaded
        /\ req[c] \in RouteRequests \/ req[c] \in InvokeRequests
        /\ Functions /\ <<found[c].id, found[c].journey.rev>> \in stored[c]
        /\ Excused(found[c], missing[c]) /\ (req[c].op = "route" => found[c].id \in matched[c])
    BY <1>1, Resolving
  <1>3. /\ UNCHANGED <<menu, left, journeys, revision, routeCache, compiled, keyLock, keys, req, reply,
                       stored, matched, missing, used, envValue, schemas, validators, lone, dirty>>
    BY DEF BeginResolve, stores, routing, environment, schemaState, history
  <1>4. /\ calls \in Seq(Answers \cup {OpenCall, FailedCall}) /\ Len(calls) \in Nat
        /\ envValue \in Answers \cup {None} /\ pending \in 0..Len(calls)
    BY LenProperties DEF IndInv, EnvOK
  <1>5. PICK v, p : /\ found' = [found EXCEPT ![c] = [found[c] EXCEPT !.env = v]] /\ Goto(c, p)
                    /\ \/ /\ envValue # None /\ v = envValue /\ p = "compile" /\ UNCHANGED <<calls, pending>>
                       \/ /\ envValue = None /\ pending # None /\ v = pending /\ p = "wait"
                          /\ UNCHANGED <<calls, pending>>
                       \/ /\ envValue = None /\ pending = None /\ v = Len(calls) + 1 /\ p = "ask"
                          /\ calls' = Append(calls, OpenCall) /\ pending' = v
    <2>1. CASE envValue # None
      BY <1>2, <2>1 DEF BeginResolve, Functions
    <2>2. CASE envValue = None /\ pending # None
      BY <1>2, <2>2 DEF BeginResolve, Functions
    <2>3. CASE envValue = None /\ pending = None
      BY <1>2, <2>3 DEF BeginResolve, Functions
    <2> QED  BY <2>1, <2>2, <2>3
  <1> DEFINE f == [found[c] EXCEPT !.env = v]
  <1>6. v \in Answers \cup Nat
    BY <1>4, <1>5 DEF None
  <1>7. f \in Loaded /\ f.env = v /\ f.id = found[c].id /\ f.realm = found[c].realm
        /\ f.journey = found[c].journey
    BY <1>2, <1>6, WithEnv
  <1>8. found' = [found EXCEPT ![c] = f] /\ p \in {"compile", "wait", "ask"}
    BY <1>5
  <1> HIDE DEF f
  <1>9. PlaceOK(p, req[c], f) /\ p \in Places /\ HandOK(p, req[c], f, stored[c], matched[c], missing[c])
        /\ p \notin {"check", "store", Idle}
    BY <1>2, <1>7, <1>8 DEF PlaceOK, Places, HandOK, Excused, Idle
  <1>10. Moves(c, p, req[c], f, reply[c])
    BY <1>2, <1>3, <1>5, <1>8, MovesWith
  <1>11. JourneysOK'
    BY <1>3 DEF IndInv, TypeInv, JourneysOK
  <1>12. CASE p # "ask"
    <2>1. UNCHANGED <<calls, pending>>
      BY <1>5, <1>12
    <2>2. EnvInHand(p, f)
      BY <1>4, <1>5, <1>7, <1>12 DEF EnvInHand, None
    <2>3. EnvOK'
      BY <1>3, <1>10, <1>12, <2>1, <2>2, EnvMove DEF IndInv
    <2> QED  BY <1>1, <1>3, <1>9, <1>10, <1>11, <2>3, ResolvingStep
  <1>13. CASE p = "ask"
    <2>1. /\ envValue = None /\ pending = None /\ v = Len(calls) + 1
          /\ calls' = Append(calls, OpenCall) /\ pending' = v
      BY <1>5, <1>13
    <2>2. OpenCall \in Answers \cup {OpenCall, FailedCall}
      OBVIOUS
    <2>3. /\ calls' \in Seq(Answers \cup {OpenCall, FailedCall}) /\ Len(calls') = Len(calls) + 1
          /\ \A k \in 1..Len(calls) : calls'[k] = calls[k]
          /\ calls'[Len(calls) + 1] = OpenCall
      BY <1>4, <2>1, <2>2, AppendProperties
    <2>4. \A d \in Clients : pc[d] # "ask"
      BY <2>1 DEF IndInv, EnvOK, EnvInHand
    <2>5. \A k \in 1..Len(calls') : calls'[k] \in {OpenCall, FailedCall, envValue'}
      BY <1>3, <1>4, <2>3 DEF IndInv, EnvOK
    <2>6. ASSUME NEW d \in Clients PROVE EnvInHand(pc[d], found[d])'
      <3>1. CASE d = c
        <4>1. pc'[d] = "ask" /\ found'[d] = f
          BY <1>10, <1>13, <3>1 DEF Moves
        <4>2. v # None
          BY <1>4, <2>1 DEF None
        <4> QED  BY <1>3, <1>7, <2>1, <4>1, <4>2 DEF EnvInHand
      <3>2. CASE d # c
        <4>1. pc'[d] = pc[d] /\ found'[d] = found[d] /\ EnvInHand(pc[d], found[d]) /\ pc[d] # "ask"
          BY <1>10, <2>4, <3>2 DEF Moves, IndInv, EnvOK
        <4>2. 1..Len(calls) \subseteq 1..Len(calls')
          BY <1>4, <2>3
        <4> QED  BY <1>3, <4>1, <4>2 DEF EnvInHand
      <3> QED  BY <3>1, <3>2
    <2>7. \A d, x \in Clients : pc'[d] = "ask" /\ pc'[x] = "ask" => d = x
      BY <1>10, <2>4 DEF Moves
    <2>8. pending' \in 0..Len(calls')
      BY <1>4, <2>1, <2>3
    <2>9. EnvOK'
      BY <1>3, <2>3, <2>5, <2>6, <2>7, <2>8 DEF IndInv, EnvOK
    <2> QED  BY <1>1, <1>3, <1>9, <1>10, <1>11, <2>9, ResolvingStep
  <1> QED  BY <1>12, <1>13

\* The resolver answers: there was no value yet, and the first one stays.
LEMMA EndResolveStep ==
    ASSUME IndInv, NEW c \in Clients, EndResolve(c)
    PROVE  IndInv'
  <1>1. pc[c] = "ask"
    BY DEF EndResolve
  <1>2. /\ req[c].op \notin SchemaOps /\ pc[c] # Idle /\ found[c] \in Loaded
        /\ req[c] \in RouteRequests \/ req[c] \in InvokeRequests
        /\ AnswerOK(req[c], found[c], [status |-> 500, ran |-> Nothing], stored[c], matched[c], missing[c])
        /\ Functions /\ <<found[c].id, found[c].journey.rev>> \in stored[c]
        /\ Excused(found[c], missing[c]) /\ (req[c].op = "route" => found[c].id \in matched[c])
    BY <1>1, Resolving
  <1>3. /\ UNCHANGED <<menu, left, journeys, revision, routeCache, compiled, keyLock, keys, req,
                       stored, matched, missing, used, schemas, validators, lone, dirty>>
        /\ pending' = None
    BY DEF EndResolve, stores, routing, environment, schemaState, history
  <1>4. /\ calls \in Seq(Answers \cup {OpenCall, FailedCall}) /\ Len(calls) \in Nat
        /\ envValue = None /\ pending \in 1..Len(calls) /\ found[c].env = pending
    BY <1>1, LenProperties, Here DEF IndInv, EnvOK, EnvInHand, None
  <1>5. JourneysOK'
    BY <1>3 DEF IndInv, TypeInv, JourneysOK
  <1>6. \A d \in Clients \ {c} : pc[d] # "ask"
    BY <1>1 DEF IndInv, EnvOK
  <1>7. ASSUME NEW w \in Answers \cup {FailedCall}, calls' = [calls EXCEPT ![pending] = w],
               NEW p, NEW f, NEW a, Moves(c, p, req[c], f, a), p # "ask",
               envValue' = w \/ (w = FailedCall /\ UNCHANGED envValue),
               envValue' \in Answers \cup {None}, EnvInHand(p, f)'
        PROVE  EnvOK'
    <2>1. /\ calls' \in Seq(Answers \cup {OpenCall, FailedCall}) /\ Len(calls') = Len(calls)
          /\ \A k \in 1..Len(calls) : calls'[k] = IF k = pending THEN w ELSE calls[k]
      <3>1. w \in Answers \cup {OpenCall, FailedCall}
        BY <1>7
      <3>2. calls' \in Seq(Answers \cup {OpenCall, FailedCall}) /\ Len(calls') = Len(calls)
        BY <1>4, <1>7, <3>1, ExceptSeq
      <3> QED  BY <1>4, <1>7, <3>2, LenProperties
    <2>2. \A k \in 1..Len(calls) : calls[k] \in {OpenCall, FailedCall}
      BY <1>4 DEF IndInv, EnvOK, None, OpenCall
    <2>3. \A k \in 1..Len(calls') : calls'[k] \in {OpenCall, FailedCall, envValue'}
      BY <1>7, <2>1, <2>2
    <2>4. ASSUME NEW d \in Clients PROVE EnvInHand(pc[d], found[d])'
      <3>1. CASE d = c
        <4>1. pc'[d] = p /\ found'[d] = f
          BY <1>7, <3>1 DEF Moves
        <4> QED  BY <1>7, <4>1 DEF EnvInHand
      <3>2. CASE d # c
        <4>1. pc'[d] = pc[d] /\ found'[d] = found[d] /\ EnvInHand(pc[d], found[d]) /\ pc[d] # "ask"
          BY <1>6, <1>7, <3>2 DEF Moves, IndInv, EnvOK
        <4> QED  BY <1>4, <2>1, <4>1 DEF EnvInHand
      <3> QED  BY <3>1, <3>2
    <2>5. \A d, x \in Clients : pc'[d] = "ask" /\ pc'[x] = "ask" => d = x
      BY <1>6, <1>7 DEF Moves
    <2>6. /\ \A i \in Ids : compiled'[i] # NoEntry => compiled'[i].env \in {None, envValue'}
          /\ used' \subseteq {envValue'} \ {None}
      BY <1>3, <1>4 DEF IndInv, EnvOK
    <2>7. pending' \in 0..Len(calls')
      BY <1>3, <1>4, <2>1 DEF None
    <2> QED  BY <1>7, <2>1, <2>3, <2>4, <2>5, <2>6, <2>7 DEF EnvOK
  <1>8. CASE calls' = [calls EXCEPT ![found[c].env] = FailedCall] /\ Answer(c, 500, Nothing)
             /\ UNCHANGED <<envValue, found>>
    <2> DEFINE a == [status |-> 500, ran |-> Nothing]
    <2>1. Moves(c, Idle, req[c], found[c], a)
      BY <1>2, <1>3, <1>8, MovesIdle
    <2>2. AnswerOK(req[c], found[c], a, stored[c], matched[c], missing[c])
      BY <1>2
    <2> HIDE DEF a
    <2>3. /\ PlaceOK(Idle, req[c], found[c]) /\ Idle \in Places /\ Idle \notin {"ask", "check", "store"}
          /\ HandOK(Idle, req[c], found[c], stored[c], matched[c], missing[c])
      BY DEF PlaceOK, Places, Idle, HandOK
    <2>4. ASSUME NEW f PROVE EnvInHand(Idle, f)'
      BY DEF EnvInHand, Idle
    <2>5. PICK f : f = found[c]
      OBVIOUS
    <2>6. EnvOK'
      BY <1>4, <1>7, <1>8, <2>1, <2>3, <2>4, <2>5
    <2> QED  BY <1>1, <1>3, <1>5, <2>1, <2>2, <2>3, <2>6, ResolvingStep
  <1>9. ASSUME NEW v \in Answers, calls' = [calls EXCEPT ![found[c].env] = v], envValue' = v,
               found' = [found EXCEPT ![c].env = v], Goto(c, "compile"), UNCHANGED reply
        PROVE  IndInv'
    <2> DEFINE f == [found[c] EXCEPT !.env = v]
    <2>1. found' = [found EXCEPT ![c] = f]
      BY <1>2, <1>9 DEF Functions
    <2>2. f \in Loaded /\ f.env = v /\ f.id = found[c].id /\ f.realm = found[c].realm
        /\ f.journey = found[c].journey
      BY <1>2, WithEnv
    <2>3. PICK e : e = f
      OBVIOUS
    <2> HIDE DEF f
    <2>4. Moves(c, "compile", req[c], e, reply[c])
      BY <1>2, <1>3, <1>9, <2>1, <2>3, MovesWith
    <2>5. /\ PlaceOK("compile", req[c], e) /\ "compile" \in Places
          /\ HandOK("compile", req[c], e, stored[c], matched[c], missing[c])
      BY <1>2, <2>2, <2>3 DEF PlaceOK, Places, HandOK, Excused
    <2>6. EnvInHand("compile", e)'
      BY <1>9, <2>2, <2>3 DEF EnvInHand
    <2>7. EnvOK'
      BY <1>4, <1>7, <1>9, <2>4, <2>6
    <2> QED  BY <1>1, <1>3, <1>5, <2>4, <2>5, <2>7, ResolvingStep DEF Idle
  <1> QED  BY <1>8, <1>9 DEF EndResolve

-----------------------------------------------------------------------------
(***************************************************************************)
(* The steps that change the journeys.                                     *)
(***************************************************************************)

\* A journey is replaced by one of a new revision, or deleted: what every request has
\* witnessed covers it.
LEMMA JourneyChanges ==
    ASSUME IndInv, NEW c \in Clients, pc[c] \in {"store", "remove"}, NEW i \in Ids, NEW j,
           journeys' = [journeys EXCEPT ![i] = j], Witnessed,
           \/ j = Absent /\ UNCHANGED revision
           \/ j \in JourneyConfigs /\ j.rev = revision + 1 /\ revision' = revision + 1,
           Goto(c, "clear"), UNCHANGED <<req, found, reply>>
    PROVE  Witnesses' /\ DOMAIN journeys' = Ids /\ revision' \in Nat \ {0}
           /\ \A k \in Ids : \/ journeys'[k] = Absent
                             \/ journeys'[k] \in JourneyConfigs /\ journeys'[k].rev \in 1..revision'
           /\ 1..revision \subseteq 1..revision'
           /\ DOMAIN stored' = Clients /\ DOMAIN matched' = Clients /\ DOMAIN missing' = Clients
  <1>1. /\ revision \in Nat \ {0} /\ DOMAIN journeys = Ids /\ Functions
        /\ \A k \in Ids : \/ journeys[k] = Absent
                          \/ journeys[k] \in JourneyConfigs /\ journeys[k].rev \in 1..revision
    BY DEF IndInv, TypeInv, JourneysOK, HandlersOK
  <1>2. revision' \in Nat \ {0} /\ 1..revision \subseteq 1..revision'
    BY <1>1
  <1>3. /\ DOMAIN journeys' = Ids /\ journeys'[i] = j
        /\ \A k \in Ids \ {i} : journeys'[k] = journeys[k]
    BY <1>1
  <1>4. \A k \in Ids : \/ journeys'[k] = Absent
                       \/ journeys'[k] \in JourneyConfigs /\ journeys'[k].rev \in 1..revision'
    BY <1>1, <1>2, <1>3
  <1> DEFINE now == {<<k, journeys'[k].rev>> : k \in {x \in Ids : journeys'[x] # Absent}}
  <1>6. now \subseteq Ids \X (1..revision')
    BY <1>4
  <1>7. ASSUME NEW d \in Clients
        PROVE  WitnessOK(pc[d], req[d], found[d], reply[d], stored[d], matched[d], missing[d])'
    <2>1. PICK p, q, f, a, s, m, g :
             /\ p = pc'[d] /\ q = req[d] /\ f = found[d] /\ a = reply[d] /\ s = stored[d]
             /\ m = matched[d] /\ g = missing[d]
      OBVIOUS
    <2>2. req'[d] = q /\ found'[d] = f /\ reply'[d] = a
      BY <2>1
    <2>3. p = pc[d] \/ (p = "clear" /\ pc[d] \in {"store", "remove"})
      BY <1>1, <2>1 DEF Goto, Functions
    <2>4. p # Idle <=> Active(d)
      BY <2>1, <2>3 DEF Active, Idle
    <2>5. Covers(pc[d], q, s, m, g) /\ HandOK(pc[d], q, f, s, m, g) /\ (p = Idle => AnswerOK(q, f, a, s, m, g))
      BY <2>1, <2>3, Here DEF WitnessOK, Idle
    <2>6. s \subseteq Ids \X (1..revision)
      BY <2>5 DEF Covers
    <2>7. PICK s1, m1, g1 : s1 = stored'[d] /\ m1 = matched'[d] /\ g1 = missing'[d]
      OBVIOUS
    <2>8. /\ s1 = IF p # Idle /\ q.op \notin SchemaOps THEN s \cup now ELSE s
          /\ m1 = IF p # Idle /\ q.op = "route" THEN m \cup Candidates(journeys', q.name) ELSE m
          /\ g1 = IF p # Idle /\ q.op \notin SchemaOps THEN g \cup Misses(journeys', q) ELSE g
      BY <2>1, <2>4, <2>7 DEF Witnessed
    <2> HIDE DEF now
    <2>9. s1 \subseteq Ids \X (1..revision') /\ s \subseteq s1 /\ m \subseteq m1
          /\ g \subseteq g1 /\ (p = Idle => s1 = s /\ m1 = m /\ g1 = g)
      <3>1. s \subseteq Ids \X (1..revision')
        BY <1>2, <2>6
      <3> QED  BY <1>6, <2>8, <3>1
    <2>10. Covers(p, q, s1, m1, g1)'
      <3>1. ASSUME NEW k \in Ids, journeys'[k] # Absent PROVE <<k, journeys'[k].rev>> \in now
        BY <3>1 DEF now
      <3>2. p # Idle /\ q.op \notin SchemaOps =>
              \A k \in Ids : journeys'[k] # Absent => <<k, journeys'[k].rev>> \in s1
        BY <2>8, <3>1
      <3>3. p # Idle /\ q.op = "route" => Candidates(journeys', q.name) \subseteq m1
        BY <2>8
      <3>4. p # Idle /\ q.op \notin SchemaOps => Misses(journeys', q) \subseteq g1
        BY <2>8
      <3> QED  BY <2>9, <3>2, <3>3, <3>4 DEF Covers, Candidates, Matches, Misses, Refusable
    <2>11. HandOK(p, q, f, s1, m1, g1)'
      <3>1. CASE p = "clear"
        BY <3>1 DEF HandOK
      <3>2. CASE p # "clear"
        <4>1. HandOK(p, q, f, s, m, g)
          BY <2>3, <2>5, <3>2
        <4> QED  BY <2>9, <4>1 DEF HandOK, Excused
      <3> QED  BY <3>1, <3>2
    <2>12. p = Idle => AnswerOK(q, f, a, s1, m1, g1)'
      BY <2>5, <2>9 DEF AnswerOK
    <2> QED  BY <2>1, <2>2, <2>7, <2>10, <2>11, <2>12 DEF WitnessOK, Covers, HandOK, Excused,
             AnswerOK, Candidates, Matches, Misses, Refusable
  <1>8. Witnesses'
    BY <1>7 DEF Witnesses
  <1>9. DOMAIN stored' = Clients /\ DOMAIN matched' = Clients /\ DOMAIN missing' = Clients
    BY DEF Witnessed
  <1> QED  BY <1>2, <1>3, <1>4, <1>8, <1>9

\* JourneyStorage.Save and Delete.
LEMMA JourneySteps ==
    ASSUME IndInv, NEW c \in Clients, StoreJourney(c) \/ RemoveJourney(c)
    PROVE  IndInv'
  <1>1. /\ pc[c] \in {"store", "remove"} /\ pc[c] # Idle
        /\ pc[c] = "store" => req[c] \in SaveRequests
        /\ pc[c] = "remove" => req[c] \in RealmRequests
        /\ Functions /\ HandlersOK /\ JourneysOK /\ Budget /\ EnvOK /\ SchemasOK
    BY Here DEF StoreJourney, RemoveJourney, PlaceOK, Idle, IndInv, TypeInv
  <1>2. /\ req[c].op \in {"save", "delete"} /\ req[c].op \notin SchemaOps
        /\ pc[c] = "store" => req[c].journey \in JourneyConfigs /\ req[c].id \in Ids \cup {None}
        /\ pc[c] = "remove" => req[c].id \in Ids
    BY <1>1, RequestFields, Here DEF PlaceOK
  <1>3. UNCHANGED <<menu, left, keys, keyLock, routeCache, compiled, envValue, pending, calls,
                    schemas, validators, lone, dirty, req, found, used>>
    BY DEF StoreJourney, RemoveJourney, routing, environment, schemaState
  <1>4. ASSUME NEW v \in {400, 500}, Answer(c, v, Nothing), UNCHANGED <<journeys, revision, stored, matched, missing>>
        PROVE  IndInv'
    <2>1. AnswerOK(req[c], found[c], [status |-> v, ran |-> Nothing], stored[c], matched[c], missing[c])
      BY <1>2 DEF AnswerOK
    <2>2. Plain
      BY <1>3, <1>4, Here DEF Plain
    <2> QED  BY <1>1, <1>2, <1>3, <1>4, <2>1, <2>2, AnswerStep
  <1>5. ASSUME NEW i \in Ids, NEW j, journeys' = [journeys EXCEPT ![i] = j], Witnessed,
               \/ j = Absent /\ UNCHANGED revision
               \/ /\ j \in JourneyConfigs /\ j.rev = revision + 1 /\ revision' = revision + 1
                  /\ pc[c] = "store",
               Goto(c, "clear"), UNCHANGED reply
        PROVE  IndInv'
    <2>1. /\ Witnesses' /\ DOMAIN journeys' = Ids /\ revision' \in Nat \ {0}
          /\ \A k \in Ids : \/ journeys'[k] = Absent
                            \/ journeys'[k] \in JourneyConfigs /\ journeys'[k].rev \in 1..revision'
          /\ 1..revision \subseteq 1..revision'
          /\ DOMAIN stored' = Clients /\ DOMAIN matched' = Clients /\ DOMAIN missing' = Clients
      BY <1>1, <1>3, <1>5, JourneyChanges
    <2>2. Moves(c, "clear", req[c], found[c], reply[c])
      BY <1>1, <1>3, <1>5, MovesOn
    <2>3. PlaceOK("clear", req[c], found[c]) /\ EnvInHand("clear", found[c]) /\ "clear" \in Places
      BY <1>2 DEF PlaceOK, EnvInHand, Places
    <2>4. HandlersOK'
      BY <1>1, <1>3, <2>1, <2>2, <2>3, HandlersMove DEF Functions
    <2>5. JourneysOK'
      BY <1>1, <1>3, <2>1 DEF JourneysOK
    <2>6. EnvOK'
      BY <1>1, <1>3, <2>2, <2>3, EnvMove
    <2>7. SchemasOK'
      BY <1>1, <1>2, <1>3, <2>2, SchemasMove
    <2>8. Budget'
      <3>1. CASE UNCHANGED revision
        BY <1>1, <1>3, <2>2, <3>1, BudgetMove DEF JourneysOK
      <3>2. CASE revision' = revision + 1 /\ pc[c] = "store"
        <4>1. Saving' = Saving \ {c} /\ c \in Saving
          BY <2>2, <3>2 DEF Saving, Moves
        <4>2. IsFiniteSet(Saving)
          BY ClientsAssumption, FS_Subset DEF Saving
        <4>3. Cardinality(Saving') = Cardinality(Saving) - 1 /\ Cardinality(Saving) \in Nat
          BY <4>1, <4>2, FS_RemoveElement, FS_CardinalityType
        <4> QED  BY <1>1, <1>3, <3>2, <4>3, ClientsAssumption DEF Budget, JourneysOK
      <3> QED  BY <1>5, <3>1, <3>2
    <2> QED  BY <2>1, <2>4, <2>5, <2>6, <2>7, <2>8 DEF IndInv, TypeInv
  <1>6. CASE StoreJourney(c)
    <2>1. ASSUME NEW i \in IF req[c].id # None THEN {req[c].id} ELSE {k \in Ids : journeys[k] = Absent},
                 journeys' = [journeys EXCEPT ![i] = [req[c].journey EXCEPT !.rev = revision + 1]],
                 revision' = revision + 1, Witnessed, Goto(c, "clear"), UNCHANGED reply
          PROVE  IndInv'
      <3> DEFINE j == [req[c].journey EXCEPT !.rev = revision + 1]
      <3>1. pc[c] = "store" /\ i \in Ids /\ revision + 1 \in Nat
        BY <1>1, <1>2, <1>6, <2>1 DEF StoreJourney, JourneysOK
      <3>2. j \in JourneyConfigs /\ j.rev = revision + 1
        BY <1>2, <3>1 DEF JourneyConfigs
      <3> HIDE DEF j
      <3> QED  BY <1>5, <2>1, <3>1, <3>2 DEF j
    <2> QED  BY <1>4, <1>6, <2>1 DEF StoreJourney
  <1>7. CASE RemoveJourney(c)
    BY <1>2, <1>4, <1>5, <1>7 DEF RemoveJourney
  <1> QED  BY <1>6, <1>7

-----------------------------------------------------------------------------
(***************************************************************************)
(* The steps of a request on a schema.                                     *)
(***************************************************************************)
SchemaPlaces == {"checkSchema", "compileSchema", "storeSchema", "findSchema", "evictSchema", "removeSchema",
                 "loadSchema", "validator", "compileLoaded", "recheck"}

\* A step on schema i leaves schema k alone, or makes k for the first time.
Untouched(k) ==
    /\ validators'[k] = validators[k] /\ (k \in dirty' <=> k \in dirty)
    /\ \/ schemas'[k] = schemas[k]
       \/ validators[k] = None /\ \A d \in Clients : ~At(d, k)

\* Client c works on schema i; another request that is alone works on another one.
LEMMA SchemaMoves ==
    ASSUME SchemasOK, NEW c \in Clients, NEW i \in Ids \cup {None}, At(c, i), NEW p, NEW f, NEW a,
           Moves(c, p, req[c], f, a), UNCHANGED lone,
           schemas' \in [Ids -> Nat], validators' \in [Ids -> Nat],
           \A k \in Ids \ {i} : Untouched(k),
           i \in Ids /\ p # Idle /\ lone[c] => SchemaInHand(p, req[c], f)',
           i \in Ids /\ p = Idle /\ i \notin dirty' => Valid(i)'
    PROVE  SchemasOK'
  <1>1. \A d \in Clients : \A k \in Ids : At(d, k)' => At(d, k)
    BY DEF At, Active, Moves
  <1>2. \A d \in Clients \ {c} : \A k \in Ids : At(d, k) => At(d, k)'
    BY DEF At, Active, Moves
  <1>3. req'[c] = req[c] /\ req[c].id = i /\ pc'[c] = p /\ found'[c] = f
    BY DEF At, Moves
  <1>4. ASSUME NEW d \in Clients, NEW k \in Ids, At(d, k)', lone'[d]
        PROVE  SchemaInHand(pc[d], req[d], found[d])'
    <2>1. CASE d = c
      <3>1. p # Idle /\ lone[c] /\ i \in Ids
        BY <1>3, <1>4, <2>1 DEF At, Active
      <3>2. SchemaInHand(p, req[c], f)'
        BY <3>1
      <3> QED  BY <1>3, <2>1, <3>2 DEF SchemaInHand, Valid
    <2>2. CASE d # c
      <3>1. At(d, k) /\ lone[d]
        BY <1>1, <1>4
      <3>2. SchemaInHand(pc[d], req[d], found[d]) /\ k # i
        BY <2>2, <3>1 DEF SchemasOK
      <3>3. pc'[d] = pc[d] /\ req'[d] = req[d] /\ found'[d] = found[d] /\ req[d].id = k
        BY <2>2, <3>1 DEF Moves, At
      <3>4. schemas'[k] = schemas[k] /\ validators'[k] = validators[k] /\ (k \in dirty' <=> k \in dirty)
        BY <2>2, <3>1, <3>2 DEF Untouched
      <3> QED  BY <3>2, <3>3, <3>4 DEF SchemaInHand, Valid
    <2> QED  BY <2>1, <2>2
  <1>5. ASSUME NEW k \in Ids, \A d \in Clients : ~At(d, k)', k \notin dirty'
        PROVE  Valid(k)'
    <2>1. CASE k = i
      <3>1. p = Idle
        BY <1>3, <1>5, <2>1 DEF At, Active
      <3> QED  BY <1>5, <2>1, <3>1 DEF Valid
    <2>2. CASE k # i
      <3>1. \A d \in Clients : ~At(d, k)
        BY <1>2, <1>5, <2>2 DEF At
      <3>2. Valid(k) /\ Untouched(k)
        BY <1>5, <2>2, <3>1 DEF SchemasOK, Untouched
      <3> QED  BY <3>2 DEF Valid, Untouched
    <2> QED  BY <2>1, <2>2
  <1>6. \A d, x \in Clients : \A k \in Ids : At(d, k)' /\ At(x, k)' /\ lone'[d] => d = x
    BY <1>1 DEF SchemasOK
  <1> QED  BY <1>4, <1>5, <1>6 DEF SchemasOK

\* Nothing but schemas changes.
LEMMA SchemaStep ==
    ASSUME IndInv, NEW c \in Clients, pc[c] \in SchemaPlaces, NEW p \in SchemaPlaces \cup {Idle},
           NEW f, NEW a, Moves(c, p, req[c], f, a), SchemasOK', PlaceOK(p, req[c], f),
           UNCHANGED <<stores, routing, environment, lone, history>>
    PROVE  IndInv'
  <1>1. HandlersOK /\ JourneysOK /\ Budget /\ Witnesses /\ EnvOK
    BY DEF IndInv, TypeInv
  <1>2. p \in Places /\ p \notin {"check", "store", "ask"} /\ EnvInHand(p, f) /\ pc[c] # Idle
    BY DEF SchemaPlaces, Places, Idle, EnvInHand
  <1>3. Functions /\ Covers(pc[c], req[c], stored[c], matched[c], missing[c]) /\ req[c] \in SchemaRequests
    BY Here DEF SchemaPlaces, PlaceOK, WitnessOK
  <1>4. req[c].op \in SchemaOps /\ req[c].op \notin {"route", "invoke", "get"}
    BY <1>3, RequestFields DEF SchemaOps
  <1>5. UNCHANGED <<menu, left, journeys, revision, keys, keyLock, routeCache, compiled, envValue,
                    pending, calls, used, stored, matched, missing>>
    BY DEF stores, routing, environment, history
  <1>6. HandlersOK'
    BY <1>1, <1>2, <1>3, <1>5, HandlersMove DEF Functions
  <1>7. JourneysOK'
    BY <1>1, <1>5 DEF JourneysOK
  <1>8. Budget'
    BY <1>1, <1>2, <1>5, BudgetMove DEF JourneysOK
  <1>9. EnvOK'
    BY <1>1, <1>2, <1>5, EnvMove
  <1>10. Sees(c, stored[c], matched[c], missing[c])
    BY <1>3, <1>5, SeesNothing
  <1>11. Covers(p, req[c], stored[c], matched[c], missing[c])
    BY <1>3, <1>4 DEF Covers
  <1>12. HandOK(p, req[c], f, stored[c], matched[c], missing[c]) /\ AnswerOK(req[c], f, a, stored[c], matched[c], missing[c])
    BY <1>4 DEF HandOK, AnswerOK, SchemaPlaces, Idle
  <1>13. Witnesses'
    BY <1>1, <1>5, <1>10, <1>11, <1>12, WitnessMove DEF WitnessOK
  <1> QED  BY <1>6, <1>7, <1>8, <1>9, <1>13 DEF IndInv, TypeInv

\* What is known of a request on a schema.
LEMMA AtSchema ==
    ASSUME IndInv, NEW c \in Clients, pc[c] \in SchemaPlaces
    PROVE  /\ Functions /\ PlaceOK(pc[c], req[c], found[c]) /\ req[c] \in SchemaRequests /\ SchemasOK
           /\ req[c].id \in Ids \cup {None} /\ At(c, req[c].id)
           /\ pc[c] \notin {"checkSchema", "compileSchema", "storeSchema"} => req[c].id \in Ids
           /\ req[c].id \in Ids /\ lone[c] => SchemaInHand(pc[c], req[c], found[c])
           /\ schemas \in [Ids -> Nat] /\ validators \in [Ids -> Nat]
           /\ req[c].op = "saveSchema" => req[c].body \in Nat /\ req[c].body # None
           /\ pc[c] = "compileLoaded" => found[c].body \in Nat
  <1>1. Functions /\ PlaceOK(pc[c], req[c], found[c]) /\ SchemasOK
    BY Here DEF IndInv
  <1>2. req[c] \in SchemaRequests /\ pc[c] # Idle /\ (pc[c] = "compileLoaded" => found[c].body \in Nat)
    BY <1>1 DEF SchemaPlaces, PlaceOK, Idle
  <1>3. /\ req[c].id \in Ids \cup {None} /\ req[c].op \in SchemaOps
        /\ req[c].op # "saveSchema" => req[c].id \in Ids
        /\ req[c].op = "saveSchema" => req[c].body \in Nat /\ req[c].body # None
    BY <1>2, RequestFields
  <1>4. At(c, req[c].id)
    BY <1>2, <1>3 DEF At, Active
  <1>5. pc[c] \notin {"checkSchema", "compileSchema", "storeSchema"} => req[c].op # "saveSchema"
    BY <1>1 DEF SchemaPlaces, PlaceOK
  <1> QED  BY <1>1, <1>2, <1>3, <1>4, <1>5 DEF SchemasOK

\* A request that is over settles its schema.
LEMMA SchemaAnswer ==
    ASSUME IndInv, NEW c \in Clients, pc[c] \in SchemaPlaces, NEW v, NEW r, Answer(c, v, r),
           UNCHANGED <<req, found>>, UNCHANGED <<stores, routing, environment, lone, history>>,
           NEW i, i = req[c].id, schemas' \in [Ids -> Nat], validators' \in [Ids -> Nat],
           \A k \in Ids \ {i} : Untouched(k),
           i \in Ids /\ i \notin dirty' => Valid(i)'
    PROVE  IndInv'
  <1> DEFINE a == [status |-> v, ran |-> r]
  <1>1. Functions /\ SchemasOK /\ i \in Ids \cup {None} /\ At(c, i)
    BY AtSchema
  <1>2. Moves(c, Idle, req[c], found[c], a)
    BY <1>1, MovesIdle
  <1> HIDE DEF a
  <1>3. SchemasOK'
    BY <1>1, <1>2, SchemaMoves
  <1>4. PlaceOK(Idle, req[c], found[c])
    BY DEF PlaceOK, Idle
  <1> QED  BY <1>2, <1>3, <1>4, SchemaStep

\* A request goes on with its schema.
LEMMA SchemaGo ==
    ASSUME IndInv, NEW c \in Clients, pc[c] \in SchemaPlaces, NEW p \in SchemaPlaces, NEW f, Goto(c, p),
           found' = [found EXCEPT ![c] = f] \/ (UNCHANGED found /\ f = found[c]),
           UNCHANGED <<req, reply, schemas, dirty>>, UNCHANGED <<stores, routing, environment, lone, history>>,
           validators' \in [Ids -> Nat],
           \A k \in Ids \ {req[c].id} : validators'[k] = validators[k],
           PlaceOK(p, req[c], f), req[c].id \in Ids /\ lone[c] => SchemaInHand(p, req[c], f)'
    PROVE  IndInv'
  <1>1. /\ Functions /\ SchemasOK /\ req[c].id \in Ids \cup {None} /\ At(c, req[c].id)
        /\ schemas \in [Ids -> Nat]
    BY AtSchema
  <1>2. Moves(c, p, req[c], f, reply[c])
    BY <1>1, MovesOn, MovesWith
  <1>3. p # Idle
    BY DEF SchemaPlaces, Idle
  <1>4. SchemasOK'
    <2>1. \A k \in Ids \ {req[c].id} : Untouched(k)
      BY DEF Untouched
    <2> QED  BY <1>1, <1>2, <1>3, <2>1, SchemaMoves
  <1> QED  BY <1>2, <1>4, SchemaStep

\* A request that ends without a change of its schema.
LEMMA SchemaLeft ==
    ASSUME IndInv, NEW c \in Clients, pc[c] \in SchemaPlaces \ {"storeSchema"}, NEW v, NEW r, Answer(c, v, r),
           UNCHANGED <<req, found>>, UNCHANGED <<stores, routing, environment, lone, history>>,
           UNCHANGED <<schemas, validators>>, Settle(c, FALSE)
    PROVE  IndInv'
  <1>1. PICK i \in Ids \cup {None} : i = req[c].id
    BY AtSchema
  <1>2. \A k \in Ids \ {i} : Untouched(k)
    BY <1>1 DEF Settle, Untouched
  <1>3. i \notin dirty' => lone[c] /\ i \notin dirty
    BY <1>1 DEF Settle
  <1>4. ASSUME i \in Ids, i \notin dirty' PROVE Valid(i)'
    <2>1. SchemaInHand(pc[c], req[c], found[c]) /\ i \notin dirty
      BY <1>1, <1>3, <1>4, AtSchema
    <2>2. Valid(i)
      BY <1>1, <2>1 DEF SchemaInHand, SchemaPlaces, Valid
    <2> QED  BY <2>2 DEF Valid
  <1>5. schemas' \in [Ids -> Nat] /\ validators' \in [Ids -> Nat]
    BY AtSchema
  <1> QED  BY <1>1, <1>2, <1>4, <1>5, SchemaAnswer

\* saveSchema and DeveloperSchemaStorage.Save.
LEMMA SaveSchemaSteps ==
    ASSUME IndInv, NEW c \in Clients, CheckSchema(c) \/ CompileSchema(c) \/ StoreSchema(c)
    PROVE  IndInv'
  <1>1. /\ pc[c] \in {"checkSchema", "compileSchema", "storeSchema"} /\ pc[c] \in SchemaPlaces
        /\ UNCHANGED <<req, found>> /\ UNCHANGED <<stores, routing, environment, lone, history>>
    BY DEF CheckSchema, CompileSchema, StoreSchema, SchemaPlaces
  <1>2. PICK i \in Ids \cup {None}, b \in Nat \ {None} : i = req[c].id /\ b = req[c].body
    BY <1>1, AtSchema DEF PlaceOK
  <1>3. schemas \in [Ids -> Nat] /\ validators \in [Ids -> Nat] /\ None \notin Ids
    BY <1>1, AtSchema, IdsAssumption DEF None
  <1>4. PICK f : f = found[c]
    OBVIOUS
  <1>5. /\ PlaceOK("compileSchema", req[c], f) /\ PlaceOK("storeSchema", req[c], f)
        /\ "compileSchema" \in SchemaPlaces /\ "storeSchema" \in SchemaPlaces
    BY <1>1, AtSchema DEF PlaceOK, SchemaPlaces
  <1>6. CASE CheckSchema(c)
    <2>1. pc[c] = "checkSchema" /\ UNCHANGED <<schemas, validators>>
      BY <1>6 DEF CheckSchema
    <2>2. CASE Answer(c, 409, Nothing) /\ Settle(c, FALSE)
      BY <1>1, <2>1, <2>2, SchemaLeft
    <2>3. CASE Goto(c, "compileSchema") /\ UNCHANGED <<reply, dirty>>
      <3>1. ASSUME i \in Ids, lone[c] PROVE SchemaInHand("compileSchema", req[c], f)'
        <4>1. SchemaInHand(pc[c], req[c], f)
          BY <1>1, <1>2, <1>4, <3>1, AtSchema
        <4> QED  BY <1>1, <2>1, <2>3, <4>1 DEF SchemaInHand, Valid
      <3> QED  BY <1>1, <1>2, <1>3, <1>4, <1>5, <2>1, <2>3, <3>1, SchemaGo
    <2> QED  BY <1>6, <2>2, <2>3 DEF CheckSchema
  <1>7. CASE CompileSchema(c)
    <2>1. pc[c] = "compileSchema" /\ UNCHANGED schemas
      BY <1>7 DEF CompileSchema
    <2>2. CASE Answer(c, 400, Nothing) /\ Settle(c, FALSE) /\ UNCHANGED validators
      BY <1>1, <2>1, <2>2, SchemaLeft
    <2>3. CASE validators' = CompiledUnder(i, b) /\ Goto(c, "storeSchema") /\ UNCHANGED <<reply, dirty>>
      <3>1. validators' \in [Ids -> Nat] /\ (\A k \in Ids \ {i} : validators'[k] = validators[k])
            /\ (i \in Ids => validators'[i] = b)
        BY <1>3, <2>3 DEF CompiledUnder
      <3>2. i \in Ids => SchemaInHand("storeSchema", req[c], f)'
        BY <1>1, <1>2, <3>1 DEF SchemaInHand
      <3> QED  BY <1>1, <1>2, <1>4, <1>5, <2>1, <2>3, <3>1, <3>2, SchemaGo
    <2> QED  BY <1>2, <1>7, <2>2, <2>3 DEF CompileSchema
  <1>8. CASE StoreSchema(c)
    <2>1. pc[c] = "storeSchema" /\ UNCHANGED validators
      BY <1>8 DEF StoreSchema
    <2>2. ASSUME NEW n \in IF i = None THEN NewSchemaIds ELSE {i}, schemas' = [schemas EXCEPT ![n] = b],
                 Answer(c, 200, Nothing), Settle(c, TRUE)
          PROVE  IndInv'
      <3>1. n \in Ids /\ (i # None => n = i)
            /\ (i = None => validators[n] = None /\ \A d \in Clients : ~At(d, n))
        BY <2>2 DEF NewSchemaIds, At
      <3>2. schemas' \in [Ids -> Nat] /\ (\A k \in Ids \ {n} : schemas'[k] = schemas[k]) /\ schemas'[n] = b
        BY <1>3, <2>2, <3>1
      <3>3. \A k \in Ids \ {i} : k \in dirty' <=> k \in dirty
        BY <1>2, <2>2 DEF Settle
      <3>4. \A k \in Ids \ {i} : Untouched(k)
        BY <2>1, <3>1, <3>2, <3>3 DEF Untouched
      <3>5. ASSUME i \in Ids, i \notin dirty' PROVE Valid(i)'
        <4>1. lone[c]
          BY <1>2, <2>2, <3>5 DEF Settle
        <4>2. validators[i] = b
          BY <1>1, <1>2, <2>1, <3>5, <4>1, AtSchema DEF SchemaInHand
        <4> QED  BY <1>3, <2>1, <3>1, <3>2, <3>5, <4>2 DEF Valid
      <3> QED  BY <1>1, <1>2, <1>3, <2>1, <2>2, <3>2, <3>4, <3>5, SchemaAnswer
    <2>3. CASE Answer(c, 400, Nothing) /\ dirty' = dirty \cup {i} /\ UNCHANGED schemas
      <3>1. \A k \in Ids \ {i} : Untouched(k)
        BY <2>1, <2>3 DEF Untouched
      <3> QED  BY <1>1, <1>2, <1>3, <2>1, <2>3, <3>1, SchemaAnswer
    <2> QED  BY <1>2, <1>8, <2>2, <2>3 DEF StoreSchema
  <1> QED  BY <1>6, <1>7, <1>8

\* deleteSchema and DeveloperSchemaStorage.Delete.
LEMMA DeleteSchemaSteps ==
    ASSUME IndInv, NEW c \in Clients, FindSchema(c) \/ EvictSchema(c) \/ RemoveSchema(c)
    PROVE  IndInv'
  <1>1. /\ pc[c] \in {"findSchema", "evictSchema", "removeSchema"} /\ pc[c] \in SchemaPlaces
        /\ UNCHANGED <<req, found>> /\ UNCHANGED <<stores, routing, environment, lone, history>>
    BY DEF FindSchema, EvictSchema, RemoveSchema, SchemaPlaces
  <1>2. PICK i \in Ids : i = req[c].id
    BY <1>1, AtSchema
  <1>3. schemas \in [Ids -> Nat] /\ validators \in [Ids -> Nat]
    BY <1>1, AtSchema
  <1>4. PICK f : f = found[c]
    OBVIOUS
  <1>5. ASSUME lone[c] PROVE SchemaInHand(pc[c], req[c], f)
    BY <1>1, <1>4, <1>5, AtSchema
  <1>6. "evictSchema" \in SchemaPlaces /\ "removeSchema" \in SchemaPlaces
    BY DEF SchemaPlaces
  <1>7. PlaceOK("evictSchema", req[c], f) /\ PlaceOK("removeSchema", req[c], f)
    BY <1>1, AtSchema DEF PlaceOK
  <1>8. CASE FindSchema(c)
    <2>1. pc[c] = "findSchema" /\ UNCHANGED <<schemas, validators>>
      BY <1>8 DEF FindSchema
    <2>2. CASE Answer(c, 404, Nothing) /\ Settle(c, FALSE)
      BY <1>1, <2>1, <2>2, SchemaLeft
    <2>3. CASE Goto(c, "evictSchema") /\ UNCHANGED <<reply, dirty>>
      <3>1. lone[c] => SchemaInHand("evictSchema", req[c], f)'
        BY <1>1, <1>5, <2>1, <2>3 DEF SchemaInHand, Valid
      <3> QED  BY <1>1, <1>3, <1>4, <1>6, <1>7, <2>1, <2>3, <3>1, SchemaGo
    <2> QED  BY <1>8, <2>2, <2>3 DEF FindSchema
  <1>9. CASE EvictSchema(c)
    <2>1. /\ pc[c] = "evictSchema" /\ UNCHANGED <<schemas, dirty, reply>> /\ Goto(c, "removeSchema")
          /\ validators' = IF schemas[i] = None THEN validators ELSE [validators EXCEPT ![i] = None]
      BY <1>2, <1>9 DEF EvictSchema
    <2>2. /\ validators' \in [Ids -> Nat] /\ (\A k \in Ids \ {i} : validators'[k] = validators[k])
          /\ schemas[i] = None => validators'[i] = validators[i]
          /\ schemas[i] # None => validators'[i] = None
      BY <1>3, <2>1 DEF None
    <2>3. lone[c] => SchemaInHand("removeSchema", req[c], f)'
      BY <1>1, <1>2, <1>5, <2>1, <2>2 DEF SchemaInHand, Valid
    <2> QED  BY <1>1, <1>2, <1>4, <1>6, <1>7, <2>1, <2>2, <2>3, SchemaGo
  <1>10. CASE RemoveSchema(c)
    <2>1. pc[c] = "removeSchema" /\ UNCHANGED validators /\ Settle(c, FALSE)
      BY <1>10 DEF RemoveSchema
    <2>2. CASE schemas' = [schemas EXCEPT ![i] = None] /\ Answer(c, 204, Nothing)
      <3>1. schemas' \in [Ids -> Nat] /\ (\A k \in Ids \ {i} : schemas'[k] = schemas[k])
        BY <1>3, <2>2 DEF None
      <3>2. \A k \in Ids \ {i} : Untouched(k)
        BY <1>2, <2>1, <3>1 DEF Settle, Untouched
      <3>3. ASSUME i \notin dirty' PROVE Valid(i)'
        <4>1. lone[c] /\ i \notin dirty
          BY <1>2, <2>1, <3>3 DEF Settle
        <4>2. validators[i] = None
          BY <1>2, <1>5, <2>1, <4>1 DEF SchemaInHand
        <4> QED  BY <2>1, <4>2 DEF Valid
      <3> QED  BY <1>1, <1>2, <1>3, <2>1, <2>2, <3>1, <3>2, <3>3, SchemaAnswer
    <2>3. CASE Answer(c, 500, Nothing) /\ UNCHANGED schemas
      BY <1>1, <2>1, <2>3, SchemaLeft
    <2> QED  BY <1>2, <1>10, <2>2, <2>3 DEF RemoveSchema
  <1> QED  BY <1>8, <1>9, <1>10

\* DeveloperSchemaStorage.Validate and DeveloperSchemaCompiler.Validate.
LEMMA ValidateSteps ==
    ASSUME IndInv, NEW c \in Clients, LoadSchema(c) \/ FindValidator(c) \/ CompileLoaded(c)
    PROVE  IndInv'
  <1>1. /\ pc[c] \in {"loadSchema", "validator", "compileLoaded", "recheck"} /\ pc[c] \in SchemaPlaces
        /\ UNCHANGED <<req, schemas>> /\ UNCHANGED <<stores, routing, environment, lone, history>>
    BY DEF LoadSchema, FindValidator, CompileLoaded, SchemaPlaces
  <1>2. PICK i \in Ids : i = req[c].id
    BY <1>1, AtSchema
  <1>3. schemas \in [Ids -> Nat] /\ validators \in [Ids -> Nat]
    BY <1>1, AtSchema
  <1>4. PICK f : f = found[c]
    OBVIOUS
  <1>5. ASSUME lone[c] PROVE SchemaInHand(pc[c], req[c], f)
    BY <1>1, <1>4, <1>5, AtSchema
  <1>6. PlaceOK(pc[c], req[c], f)
    BY <1>1, <1>4, AtSchema
  <1>7. "validator" \in SchemaPlaces /\ "compileLoaded" \in SchemaPlaces /\ "recheck" \in SchemaPlaces
    BY DEF SchemaPlaces
  <1>8. CASE LoadSchema(c)
    <2>1. pc[c] = "loadSchema" /\ UNCHANGED validators
      BY <1>8 DEF LoadSchema
    <2>2. CASE Answer(c, 404, Nothing) /\ Settle(c, FALSE) /\ UNCHANGED found
      BY <1>1, <2>1, <2>2, SchemaLeft
    <2>3. CASE /\ found' = [found EXCEPT ![c] = [body |-> schemas[i]]] /\ Goto(c, "validator")
               /\ UNCHANGED <<reply, dirty>>
      <3>1. PICK g \in [body: Nat] : g = [body |-> schemas[i]]
        BY <1>3
      <3>2. g.body = schemas[i]
        BY <3>1
      <3>3. PlaceOK("validator", req[c], g)
        BY <1>6, <2>1, <3>1 DEF PlaceOK
      <3>4. lone[c] => SchemaInHand("validator", req[c], g)'
        BY <1>1, <1>2, <1>5, <2>1, <2>3, <3>2 DEF SchemaInHand, Valid
      <3> QED  BY <1>1, <1>3, <1>7, <2>1, <2>3, <3>1, <3>3, <3>4, SchemaGo
    <2> QED  BY <1>2, <1>8, <2>2, <2>3 DEF LoadSchema
  <1>9. CASE FindValidator(c)
    <2>1. pc[c] \in {"validator", "recheck"} /\ UNCHANGED <<validators, found>>
      BY <1>9 DEF FindValidator
    <2>2. CASE pc[c] = "validator" /\ Goto(c, "compileLoaded") /\ UNCHANGED <<reply, dirty>>
      <3>1. PlaceOK("compileLoaded", req[c], f)
        BY <1>6, <2>2 DEF PlaceOK
      <3>2. lone[c] => SchemaInHand("compileLoaded", req[c], f)'
        BY <1>1, <1>5, <2>1, <2>2 DEF SchemaInHand, Valid
      <3> QED  BY <1>1, <1>3, <1>4, <1>7, <2>1, <2>2, <3>1, <3>2, SchemaGo
    <2>3. ASSUME NEW v, NEW r, Answer(c, v, r), Settle(c, FALSE) PROVE IndInv'
      BY <1>1, <2>1, <2>3, SchemaLeft
    <2> QED  BY <1>9, <2>2, <2>3 DEF FindValidator
  <1>10. CASE CompileLoaded(c)
    <2>1. /\ pc[c] = "compileLoaded" /\ UNCHANGED <<dirty, found, reply>> /\ Goto(c, "recheck")
          /\ validators' = [validators EXCEPT ![i] = f.body]
      BY <1>2, <1>4, <1>10 DEF CompileLoaded
    <2>2. f.body \in Nat /\ PlaceOK("recheck", req[c], f)
      BY <1>6, <2>1 DEF PlaceOK
    <2>3. /\ validators' \in [Ids -> Nat] /\ (\A k \in Ids \ {i} : validators'[k] = validators[k])
          /\ validators'[i] = f.body
      BY <1>3, <2>1, <2>2
    <2>4. lone[c] => SchemaInHand("recheck", req[c], f)'
      BY <1>1, <1>2, <1>5, <2>1, <2>3 DEF SchemaInHand, Valid
    <2> QED  BY <1>1, <1>2, <1>4, <1>7, <2>1, <2>2, <2>3, <2>4, SchemaGo
  <1> QED  BY <1>8, <1>9, <1>10

-----------------------------------------------------------------------------
(***************************************************************************)
(* A request comes.                                                        *)
(***************************************************************************)

\* Every request is of one kind, and begins where that kind begins.
LEMMA Entering ==
    ASSUME NEW r \in Requests, NEW f, NEW p, p = Entry(r.op)
    PROVE  /\ p \in Places \ {Idle} /\ PlaceOK(p, r, f)
           /\ p \in {"check", "find", "cached", "load", "checkSchema", "findSchema", "loadSchema"}
           /\ p = "load" => r.op # "route"
           /\ r.op \in SchemaOps => r.id \in Ids \cup {None} /\ p \in {"checkSchema", "findSchema", "loadSchema"}
  <1>1. CASE r \in SaveRequests
    <2>1. r.op = "save" /\ p = "check"
      BY <1>1 DEF SaveRequests, Entry
    <2> QED  BY <1>1, <2>1 DEF Places, PlaceOK, Idle, SchemaOps
  <1>2. CASE r \in RealmRequests
    <2>1. r.op \in {"get", "delete"} /\ p = "find"
      BY <1>2 DEF RealmRequests, Entry
    <2> QED  BY <1>2, <2>1 DEF Places, PlaceOK, Idle, SchemaOps
  <1>3. CASE r \in RouteRequests
    <2>1. r.op = "route" /\ p = "cached"
      BY <1>3 DEF RouteRequests, Entry
    <2> QED  BY <1>3, <2>1 DEF Places, PlaceOK, Idle, SchemaOps
  <1>4. CASE r \in InvokeRequests
    <2>1. r.op = "invoke" /\ p = "load"
      BY <1>4 DEF InvokeRequests, Entry
    <2> QED  BY <1>4, <2>1 DEF Places, PlaceOK, Idle, SchemaOps
  <1>5. CASE r \in SchemaRequests
    <2>1. /\ r.op \in SchemaOps /\ r.id \in Ids \cup {None}
          /\ r.op = "saveSchema" => p = "checkSchema"
          /\ r.op = "deleteSchema" => p = "findSchema"
          /\ r.op = "validate" => p = "loadSchema"
      BY <1>5, RequestFields DEF Entry, SchemaOps
    <2> QED  BY <1>5, <2>1 DEF Places, PlaceOK, Idle, SchemaOps
  <1> QED  BY <1>1, <1>2, <1>3, <1>4, <1>5 DEF Requests

\* Whoever is beside the new request on its schema is alone no longer.
LEMMA ReceiveSchemas ==
    ASSUME SchemasOK, Functions, NEW c \in Clients, pc[c] = Idle, NEW r \in Requests, NEW p, NEW f, NEW a,
           p = Entry(r.op), Moves(c, p, r, f, a), UNCHANGED <<schemas, validators, dirty>>,
           lone' = IF r.op \notin SchemaOps THEN lone
                   ELSE [d \in Clients |-> IF d = c THEN Beside(c, r) = {}
                                           ELSE lone[d] /\ d \notin Beside(c, r)]
    PROVE  SchemasOK'
  <1>1. /\ \A d \in Clients \ {c} : \A k \in Ids : At(d, k)' <=> At(d, k)
        /\ \A k \in Ids : ~At(c, k)
    BY DEF At, Active, Moves
  <1>2. \A k \in Ids : At(c, k)' => r.op \in SchemaOps /\ r.id = k
    BY DEF At, Moves
  <1>3. \A d \in Clients \ {c} : lone'[d] => lone[d]
    OBVIOUS
  <1>4. \A d \in Clients \ {c} : r.op \in SchemaOps /\ At(d, r.id) => ~lone'[c] /\ ~lone'[d]
    BY DEF Beside, At
  <1>5. \A d, x \in Clients : \A k \in Ids : At(d, k)' /\ At(x, k)' /\ lone'[d] => d = x
    <2> SUFFICES ASSUME NEW d \in Clients, NEW x \in Clients, NEW k \in Ids, At(d, k)', At(x, k)', lone'[d]
                 PROVE  d = x
      OBVIOUS
    <2>1. CASE d = c
      BY <1>1, <1>2, <1>4, <2>1
    <2>2. CASE x = c
      BY <1>1, <1>2, <1>4, <2>2
    <2>3. CASE d # c /\ x # c
      BY <1>1, <1>3, <2>3 DEF SchemasOK
    <2> QED  BY <2>1, <2>2, <2>3
  <1>6. ASSUME NEW d \in Clients, NEW k \in Ids, At(d, k)', lone'[d]
        PROVE  SchemaInHand(pc[d], req[d], found[d])'
    <2>1. CASE d = c
      <3>1. r.op \in SchemaOps /\ r.id = k /\ \A x \in Clients : ~At(x, k)
        BY <1>1, <1>2, <1>4, <1>6, <2>1
      <3>2. k \notin dirty => Valid(k)
        BY <3>1 DEF SchemasOK
      <3>3. p \in {"checkSchema", "findSchema", "loadSchema"} /\ pc'[c] = p /\ req'[c] = r
        BY <3>1, Entering DEF Moves
      <3> QED  BY <2>1, <3>1, <3>2, <3>3 DEF SchemaInHand, Valid
    <2>2. CASE d # c
      <3>1. SchemaInHand(pc[d], req[d], found[d])
        BY <1>1, <1>3, <1>6, <2>2 DEF SchemasOK
      <3>2. pc'[d] = pc[d] /\ req'[d] = req[d] /\ found'[d] = found[d]
        BY <2>2 DEF Moves
      <3> QED  BY <3>1, <3>2 DEF SchemaInHand, Valid
    <2> QED  BY <2>1, <2>2
  <1>7. ASSUME NEW k \in Ids, \A d \in Clients : ~At(d, k)', k \notin dirty'
        PROVE  Valid(k)'
    <2>1. Valid(k)
      BY <1>1, <1>7 DEF SchemasOK
    <2> QED  BY <2>1 DEF Valid
  <1> QED  BY <1>5, <1>6, <1>7 DEF SchemasOK

\* A request is received.
LEMMA ReceiveStep ==
    ASSUME IndInv, NEW c \in Clients, Receive(c)
    PROVE  IndInv'
  <1>1. HandlersOK /\ JourneysOK /\ Budget /\ Witnesses /\ EnvOK /\ SchemasOK /\ Functions
    BY Here DEF IndInv, TypeInv
  <1>2. /\ pc[c] = Idle /\ left > 0 /\ left' = left - 1
        /\ UNCHANGED <<menu, journeys, revision, keys, keyLock, routeCache, compiled, envValue, pending,
                       calls, schemas, validators, found, used, dirty>>
    BY DEF Receive, routing, environment
  <1>3. PICK r \in menu.requests :
          /\ req' = [req EXCEPT ![c] = r]
          /\ Goto(c, Entry(r.op))
          /\ stored' = [stored EXCEPT ![c] = {<<i, journeys[i].rev>> : i \in {j \in Ids : journeys[j] # Absent}}]
          /\ matched' = [matched EXCEPT ![c] = IF r.op = "route" THEN Candidates(journeys, r.name) ELSE {}]
          /\ missing' = [missing EXCEPT ![c] = IF r.op \in SchemaOps THEN {} ELSE Misses(journeys, r)]
          /\ lone' = IF r.op \notin SchemaOps THEN lone
                     ELSE [d \in Clients |-> IF d = c THEN Beside(c, r) = {}
                                             ELSE lone[d] /\ d \notin Beside(c, r)]
          /\ reply' = [reply EXCEPT ![c] = [status |-> 0, ran |-> Nothing]]
    BY DEF Receive
  <1>4. r \in Requests
    BY <1>1, MenusAssumption DEF HandlersOK
  <1>5. PICK p, f, a, s, m, g :
          /\ p = Entry(r.op) /\ f = found[c] /\ a = [status |-> 0, ran |-> Nothing]
          /\ s = {<<i, journeys[i].rev>> : i \in {j \in Ids : journeys[j] # Absent}}
          /\ m = IF r.op = "route" THEN Candidates(journeys, r.name) ELSE {}
          /\ g = IF r.op \in SchemaOps THEN {} ELSE Misses(journeys, r)
    OBVIOUS
  <1>6. Moves(c, p, r, f, a)
    BY <1>1, <1>2, <1>3, <1>5 DEF Moves, Functions, Goto
  <1>7. Sees(c, s, m, g) /\ DOMAIN lone' = Clients
    <2>1. stored'[c] = s /\ matched'[c] = m /\ DOMAIN stored' = Clients /\ DOMAIN matched' = Clients
          /\ \A d \in Clients \ {c} : stored'[d] = stored[d] /\ matched'[d] = matched[d]
      BY <1>1, <1>3, <1>5 DEF Functions
    <2>2. missing'[c] = g /\ DOMAIN missing' = Clients /\ \A d \in Clients \ {c} : missing'[d] = missing[d]
      BY <1>1, <1>3, <1>5 DEF Functions
    <2>3. DOMAIN lone' = Clients
      BY <1>1, <1>3 DEF Functions
    <2> QED  BY <2>1, <2>2, <2>3 DEF Sees
  <1>8. /\ p \in Places /\ p # Idle /\ PlaceOK(p, r, f)
        /\ p \in {"check", "find", "cached", "load", "checkSchema", "findSchema", "loadSchema"}
        /\ p = "load" => r.op # "route"
    BY <1>4, <1>5, Entering
  <1>9. HandlersOK'
    BY <1>1, <1>2, <1>6, <1>7, <1>8, HandlersMove DEF Sees
  <1>10. JourneysOK'
    BY <1>1, <1>2 DEF JourneysOK
  <1>11. Budget'
    <2>1. Saving' \subseteq Saving \cup {c} /\ c \notin Saving
      BY <1>2, <1>6 DEF Saving, Moves, Idle
    <2>2. IsFiniteSet(Saving)
      BY ClientsAssumption, FS_Subset DEF Saving
    <2>3. /\ IsFiniteSet(Saving \cup {c}) /\ Cardinality(Saving \cup {c}) = Cardinality(Saving) + 1
          /\ Cardinality(Saving) \in Nat
      BY <2>1, <2>2, FS_AddElement, FS_CardinalityType
    <2>4. Cardinality(Saving') <= Cardinality(Saving) + 1 /\ Cardinality(Saving') \in Nat
      BY <2>1, <2>3, FS_Subset, FS_CardinalityType
    <2> QED  BY <1>1, <1>2, <2>3, <2>4, ClientsAssumption DEF Budget, JourneysOK
  <1>12. WitnessOK(p, r, f, a, s, m, g)
    <2>1. s \subseteq Ids \X (1..revision)
      BY <1>1, <1>5 DEF JourneysOK
    <2>2. \A i \in Ids : journeys[i] # Absent => <<i, journeys[i].rev>> \in s
      BY <1>5
    <2>3. /\ r.op = "route" => m = Candidates(journeys, r.name)
          /\ r.op \notin SchemaOps => g = Misses(journeys, r)
      BY <1>5
    <2>4. Covers(p, r, s, m, g)
      BY <2>1, <2>2, <2>3 DEF Covers
    <2>5. HandOK(p, r, f, s, m, g)
      BY <1>8 DEF HandOK
    <2> QED  BY <1>8, <2>4, <2>5 DEF WitnessOK
  <1>13. Witnesses'
    BY <1>1, <1>2, <1>6, <1>7, <1>12, WitnessMove
  <1>14. EnvInHand(p, f) /\ p # "ask"
    BY <1>8 DEF EnvInHand
  <1>15. EnvOK'
    BY <1>1, <1>2, <1>6, <1>14, EnvMove
  <1>16. SchemasOK'
    BY <1>1, <1>2, <1>3, <1>4, <1>5, <1>6, ReceiveSchemas
  <1> QED  BY <1>9, <1>10, <1>11, <1>13, <1>15, <1>16 DEF IndInv, TypeInv

-----------------------------------------------------------------------------
(***************************************************************************)
(* The invariant.                                                          *)
(***************************************************************************)

\* It holds before the first request,
LEMMA InitInv ==
    ASSUME Init
    PROVE  IndInv
  <1>1. /\ menu \in Menus /\ left = MaxRequests /\ journeys = menu.journeys /\ revision = 1
        /\ schemas = menu.schemas /\ validators = menu.schemas
        /\ envValue = None /\ pending = None /\ calls = <<>> /\ keys = 0 /\ keyLock = None /\ used = {}
        /\ routeCache = [n \in Names |-> None] /\ compiled = [i \in Ids |-> NoEntry]
    BY DEF Init
  <1>2. /\ \A c \in Clients : pc[c] = Idle /\ req[c].op = "none" /\ stored[c] = {} /\ matched[c] = {}
        /\ Functions
    BY DEF Init, Functions
  <1>3. HandlersOK
    BY <1>1, <1>2 DEF HandlersOK, PlaceOK, Places, Idle
  <1>4. JourneysOK
    BY <1>1, ClientsAssumption, MenusAssumption DEF JourneysOK, None
  <1>5. Budget
    <2>1. Saving = {}
      BY <1>2 DEF Saving, Idle
    <2> QED  BY <1>1, <2>1, ClientsAssumption, FS_EmptySet DEF Budget
  <1>6. Witnesses
    <2> SUFFICES ASSUME NEW c \in Clients
                 PROVE  WitnessOK(pc[c], req[c], found[c], reply[c], stored[c], matched[c], missing[c])
      BY DEF Witnesses
    <2> QED  BY <1>2 DEF WitnessOK, Covers, HandOK, AnswerOK, Idle
  <1>7. EnvOK
    <2>1. calls \in Seq(Answers \cup {OpenCall, FailedCall}) /\ Len(calls) = 0
      BY <1>1
    <2> QED  BY <1>1, <1>2, <2>1 DEF EnvOK, EnvInHand, Idle, None
  <1>8. SchemasOK
    <2>1. schemas \in [Ids -> Nat] /\ validators = schemas
      BY <1>1, MenusAssumption
    <2>2. \A c \in Clients : \A i \in Ids : ~At(c, i)
      BY <1>2 DEF At, Active
    <2> QED  BY <2>1, <2>2 DEF SchemasOK, Valid
  <1> QED  BY <1>3, <1>4, <1>5, <1>6, <1>7, <1>8 DEF IndInv, TypeInv

\* and every step keeps it.
LEMMA StepInv ==
    ASSUME IndInv, [Next]_vars
    PROVE  IndInv'
  <1>1. CASE UNCHANGED vars
    <2>1. UNCHANGED <<menu, left, journeys, revision, routeCache, compiled, envValue, pending, calls,
                      keys, keyLock, schemas, validators, pc, req, found, reply, stored, matched, missing,
                      used, lone, dirty>>
      BY <1>1 DEF vars
    <2>2. HandlersOK'
      BY <2>1 DEF IndInv, TypeInv, HandlersOK, Functions
    <2>3. JourneysOK'
      BY <2>1 DEF IndInv, TypeInv, JourneysOK
    <2>4. Budget'
      BY <2>1 DEF IndInv, Budget, Saving
    <2>5. Witnesses'
      BY <2>1 DEF IndInv, Witnesses, WitnessOK, Covers, HandOK, Excused, AnswerOK, Candidates, Matches, Misses,
             Refusable
    <2>6. EnvOK'
      BY <2>1 DEF IndInv, EnvOK, EnvInHand
    <2>7. SchemasOK'
      BY <2>1 DEF IndInv, SchemasOK, At, Active, Valid, SchemaInHand
    <2> QED  BY <2>2, <2>3, <2>4, <2>5, <2>6, <2>7 DEF IndInv, TypeInv
  <1>2. ASSUME NEW c \in Clients, Receive(c) \/ Step(c) PROVE IndInv'
    <2>1. CASE CheckName(c)
      BY <2>1, CheckNameStep
    <2>2. CASE StoreJourney(c) \/ RemoveJourney(c)
      BY <2>2, JourneySteps
    <2>3. CASE ClearRoutes(c)
      BY <2>3, ClearRoutesStep
    <2>4. CASE FindJourney(c)
      BY <2>4, FindJourneyStep
    <2>5. CASE RouteCacheGet(c) \/ VerifyRoute(c) \/ ForgetRoute(c) \/ SearchRoute(c) \/ RememberRoute(c)
      BY <2>5, RouteSteps
    <2>6. CASE LoadJourney(c)
      BY <2>6, LoadJourneyStep
    <2>7. CASE LookupCompiled(c) \/ PublishCompiled(c)
      BY <2>7, CompiledSteps
    <2>8. CASE BeginResolve(c)
      BY <2>8, BeginResolveStep
    <2>9. CASE EndResolve(c)
      BY <2>9, EndResolveStep
    <2>10. CASE ResolverPanics(c) \/ AwaitCall(c)
      BY <2>10, AwaitSteps
    <2>11. CASE EndRun(c) \/ LockKey(c) \/ CreateKey(c)
      BY <2>11, RunEndSteps
    <2>12. CASE CheckSchema(c) \/ CompileSchema(c) \/ StoreSchema(c)
      BY <2>12, SaveSchemaSteps
    <2>13. CASE FindSchema(c) \/ EvictSchema(c) \/ RemoveSchema(c)
      BY <2>13, DeleteSchemaSteps
    <2>14. CASE LoadSchema(c) \/ FindValidator(c) \/ CompileLoaded(c)
      BY <2>14, ValidateSteps
    <2>15. CASE Receive(c)
      BY <2>15, ReceiveStep
    <2> QED  BY <1>2, <2>1, <2>2, <2>3, <2>4, <2>5, <2>6, <2>7, <2>8, <2>9, <2>10, <2>11, <2>12, <2>13,
             <2>14, <2>15 DEF Step
  <1> QED  BY <1>1, <1>2 DEF Next

\* Administration: the specification keeps the invariant.
THEOREM AdministrationInvariant == Spec => []IndInv
  <1>1. Init => IndInv
    BY InitInv
  <1>2. IndInv /\ [Next]_vars => IndInv'
    BY StepInv
  <1> QED  BY <1>1, <1>2, PTL DEF Spec

\* The types: no revision and no request is beyond its bound, the caches hold ids and
\* revisions that were given, the environment has a value or none.
THEOREM AdministrationTypeCorrect == Spec => []TypeOK
  <1>1. ASSUME IndInv PROVE TypeOK
    <2>1. HandlersOK /\ JourneysOK /\ Budget /\ EnvOK
      BY <1>1 DEF IndInv, TypeInv
    <2>2. Cardinality(Saving) \in Nat
      BY ClientsAssumption, FS_Subset, FS_CardinalityType DEF Saving
    <2>3. left \in 0..MaxRequests /\ revision \in 1..(MaxRequests + 1)
      BY <2>1, <2>2, ClientsAssumption DEF Budget, JourneysOK
    <2>4. /\ \A i \in Ids : journeys[i] = Absent \/ journeys[i].rev \in 1..revision
          /\ routeCache \in [Names -> Ids \cup {None}]
          /\ \A i \in Ids : compiled[i] = NoEntry \/ compiled[i].version \in 1..revision
          /\ keyLock \in Clients \cup {None} /\ keys \in Nat
      BY <2>1 DEF JourneysOK
    <2> QED  BY <2>1, <2>3, <2>4 DEF TypeOK, EnvOK
  <1> QED  BY <1>1, AdministrationInvariant, PTL

\* loadJourney, runtimeJourney: what runs or is read is a revision that was stored while
\* the request was under way, however saves, deletions and both caches race.
THEOREM StoredRevisionsRun == Spec => []RunsWhatWasStored
  <1>1. ASSUME IndInv PROVE RunsWhatWasStored
    BY <1>1 DEF IndInv, Witnesses, WitnessOK, AnswerOK, RunsWhatWasStored
  <1> QED  BY <1>1, AdministrationInvariant, PTL

\* resolveRouteJourney, GetJourneyState: a path leads to a journey of its name, and is
\* not found only if at some moment of the request there was none, or the one it was
\* led to was gone, inactive, confidential or in another realm than the lookup saw.
THEOREM PathsLeadTrue == Spec => []PathsAreTrue
  <1>1. ASSUME IndInv PROVE PathsAreTrue
    BY <1>1 DEF IndInv, Witnesses, WitnessOK, AnswerOK, PathsAreTrue, PathLeadsToItsName, NotFoundIsTrue
  <1> QED  BY <1>1, AdministrationInvariant, PTL

\* staticEnvironmentCache and signJourneyToken: runs see one value of the environment,
\* and one signing key is made.
THEOREM MadeOnlyOnce == Spec => []MadeOnce
  <1>1. ASSUME IndInv PROVE MadeOnce
    <2>1. used \subseteq {envValue}
      BY <1>1 DEF IndInv, EnvOK
    <2>2. IsFiniteSet({envValue}) /\ Cardinality({envValue}) = 1
      BY FS_Singleton
    <2>3. Cardinality(used) <= 1
      BY <2>1, <2>2, FS_Subset
    <2>4. keys <= 1
      BY <1>1 DEF IndInv, TypeInv, JourneysOK
    <2> QED  BY <2>3, <2>4 DEF MadeOnce, EnvIsStatic, OneSigningKey
  <1> QED  BY <1>1, AdministrationInvariant, PTL

\* DeveloperSchemaStorage: what validates is what is stored, unless saves overlapped or
\* one could not be stored.
THEOREM ValidatorsAreStored == Spec => []ValidatorsMatchStore
  <1>1. ASSUME IndInv PROVE ValidatorsMatchStore
    BY <1>1 DEF IndInv, SchemasOK, At, Valid, ValidatorsMatchStore
  <1> QED  BY <1>1, AdministrationInvariant, PTL
=============================================================================
