# go-journey: a TLA+ verification project

go-journey executes *journeys*: graphs of steps kept as configuration. A
request starts a journey; steps run until one asks the client for something or
a terminal step is reached; a pause turns the run into a state kept on the
server and a handle (a signed token, or a resume id) given to the client, and
the next request continues from there. This directory holds TLA+ models of the
core of that engine, TLC runs over small instances, and proofs checked by TLAPS.

## Inventory

| Component | State | Operations | Interaction |
|---|---|---|---|
| Invocation (`execution.journey.go`, `token.journey.go`) | none of its own between requests | start, continue by token, resume by id, pause | consumes and stores paused states, loads journeys, emits one terminal event |
| Paused-state table (`state.journey.go`) | go-cache map under one mutex | Store, GetAndDelete, expiry | shared by all requests |
| Step loop (`execution.journey.go`) | tracking stack, contexts, tick counters of one run | pop frame, execute, settle | calls the steps, stops at a pause |
| Client inputs (`inputs/`) | stored requests (context), submitted inputs, new requests | Add, ValidateProvided, ClearRequestsForStep | written by steps, read by the next invocation |
| Flow steps (`steps/`) | markers, props stack, tags, suspension in the closed context | SubJourney, Chain, Retry, Form, Choice, Metadata, SuspendFlow, WaitUntil, ExtendExp, terminal steps | move the tracking stack, ask for inputs |
| Async steps (`steps/async-*.go`, `utils/promise.go`) | goroutines, wrapped contexts, interaction values | AsyncWait ALL/ANY, AsyncExec | share the contexts of the run, outlive their step |
| Scheduler (`scheduler.go`) | registered schedules, running set, result cache | Schedule, Unschedule, Trigger, run, Refresh, Reload | timers, storage, journeys and scripts |
| Cache manager (`cache/manager.go`) | instances, counters, limits, records on disk | configure, load, update, remove | steps use the instances, REST handlers change them |
| Runtime journeys (`runtime_journey.go`) | compiled configurations, static values | compile, single-flight resolve | loadJourney |
| Listeners, observer | registered functions | add, remove, emit | called after an invocation |
| Configuration, validation, placeholders (`types/`, `config_placeholders.go`) | none | prepare, compile, resolve | before a step executes, before an instance is constructed |
| LDAP pool (`steps/ldap.client.go`) | idle channel, counter of open connections | acquire, release, discard, Bind | LDAP steps of concurrent runs |
| Route table, HTTPProxy, Script (`steps/`) | compiled tree; program cache of the script library | lookup, forward; bind, execute | one step each |
| REST API (`rest.api.go`) | cache of routes | save, delete, read, invoke | stores, cache manager, scheduler |
| HTTP and JWK instances, OIDC, JWT, cookies, UI | connections, keys | I/O | outside the models |

What is hard here: requests that race for one handle; one step of several
failing (consume, load, validate, execute, sign, store) and what that leaves
behind; a restart in between; lifetimes computed from values that are not
carried along; a call stack kept in three records through any number of
pauses; ids made from ids; loops that only a guard ends; timers against edits
and refreshes that wait for each other; values constructed outside a lock and
stored inside it; caches that are filled while what they cache changes; places
in a pool that nobody is told about; background work that outlives its run.
`PROJECT.json` lists them at their lines.

## Modules

**JourneyStates** is the table of paused states: handles to entries, the TTL
rules of go-cache (0 is the default, a negative duration never expires), and
the effect of a tick. Time is counted in ticks; an expired entry is an absent one.

**Continuations** is what the engine promises: a handle is issued once, taken
by one request at a time, given back or run or dropped, possibly forgotten, and
never comes back.

**Invocation** is `InvokeJourney` with any number of concurrent requests. A
worker is the goroutine of a request: `TakeByToken`/`TakeByResume`/`ResumeToken`/`StartNew`
(GetJourneyState; `ResumeToken` is the jti of a token given as a resume id, which
consumes the state and refuses the request), `LoadJourney`/`RejectJourney` (the
journey is loaded *after* the state was consumed; an error of decryption or of the
storage ends there as an inactive journey does), `RestoreOnClientError`/`Abandon`/`Execute` (validation
and the fresh jti), the effects of the steps (`ExtendExp`, `AskInput`,
`SuspendFlow`, `WaitUntil`, `WaitAgain`, `Finish`, `Fail`), and pauseJourney
(`Sign`, `SignFails`, `StorePaused`, `StoreFails`). Between any two of them the
clock ticks, the administrator toggles the journey and the process restarts.
`runs` counts, as history, the executions started from each handle. Requests
that the code refuses before it touches the table change nothing and are no steps.

**Engine** is one run of a journey through all its pauses: the tracking stack
(`PopFrame`, `FrameFails`, `NoFrameLeft`), the loop guard (`InfiniteLoop`), the
`Execute` of every step type that touches the state modelled (`ExecForm` ...
`LeaveChain`), what executeSteps makes of the outcome (`Pause`, `EndChild`,
`EndRoot`, `Yield`, `Follow`), and the next invocation (`Submit` with a token,
`Resume` with an id). Conditions, transformations and I/O steps are `Branch`:
any outcome; any step may return an error (`StepFails`). The client inputs of an
invocation are in one of two contexts, that of the journey the invocation begins
with (`Encrypted`, `sealed`): `requests` is the store in use, `elsewhere` the other
one, and `NextInvocation` exchanges them when the paused journey wants the other.
Values are abstract: a submitted field is just given,
a Choice is answered with a member of `Answers`, props are named by the
SubJourney step that set them. `calls` is history: the calls that are open, and
how the child of one ended; it is not kept up once a result was lost. Props are kept in the closed
context (`props_context` may name the encrypted one; push and restore always use
the same).

**Scheduler** models `scheduler.go` and the routes that save, delete and trigger
schedules. A task is a goroutine (of a request, of cron, an interval loop); its
stack holds the calls it is in, since the target of a schedule may ask for the
result of another one. `BeginRun`, `Load`, `Mark`, `Finish`, `SaveRun`,
`UnscheduleRun` and `EndRun` are the critical sections and storage accesses of
`Run` and `runOnce`; `Reload`, `Schedule` and `RecordCron` those of a save;
`CheckInterval`, `FireInterval` and `StopInterval` the loop of an interval.
Values are the number of the execution that published them. Times are left out:
an armed timer may go off, a cached value may be too old. `execs`, `ended`,
`lost` and the `since` of a call are history.

**CacheManager** is the registry of shared instances with its records on disk.
`Booted`, `Loaded`, `ConfigureConfigResolver`, `Apply` and `EnsureRegexpCache`
are the start of the process, which may fail and may be repeated by `Restart`.
An update is three steps, as in the code: `UpdateCacheInstance` reads the
factory under the read lock, `Build` constructs without a lock, `Commit` checks
the limits and swaps. `Remove`, `RemoveCache` (and `RemoveCacheFails`, which
stops half way) and the instance routes of the REST API complete it. The size of a
category is the number of bytes its instances are charged for (`Bytes`), one by
one, which is the sum of their sizes. `drift` is history: what failed removals took
off the counters.

**LDAPPool** is the connection pool under concurrent LDAP steps: `acquire` split
at its lock, its channel and its dial, release and discard, the ends of
contexts, expiries, a server that is down, and `Bind` on a connection of its own.
A pool binds its connections to a service account, or to nobody (`Anonymous`).

**Administration** is the REST API while journeys and schemas change: two
handlers that interleave at each store access and each lock. It composes the
cache of routes (`RouteCacheGet` ... `RememberRoute`), the cache of compiled
journeys, the single-flight resolution of static values (`BeginResolve`,
`EndResolve`), the creation of the signing key and the compiled schemas. A journey
that is found and compiled may still be refused (`Run`): it is confidential, or of
another realm than the request, which for a path is the realm the lookup saw. A
schema is refused if another has its name (`CheckSchema`), and one that is new is
compiled under its realm and name, not under the id it gets when it is stored. What
a request may have seen while it was under way (`stored`, `matched`, `missing`: the
journeys that could have been refused at some moment) is history.

**Async** is a run whose steps are asynchronous: the parent goroutine, a task
for each child, PromiseAll and PromiseAny with their channels, timers and
cancellation, AsyncExec in both modes, the contexts that each step wraps anew,
the interaction values (a map that the first handle makes, `Share`), and the
listeners: `EmitEnd` takes a snapshot, `Spawn` starts a goroutine for each of it. A
child of AsyncWait reads the run's transaction in two steps, `Clone` and `NameChild`.

**RouteTable**, **StepVariables** and **ScriptStep** are pure: the tree of
routes and the HTTPProxy step; placeholders from validation over compilation to
resolution, and the preparation of a journey; the types, bindings and outcomes
of scripts. Strings are sequences of symbols of which only those with a meaning
are told apart, a pattern is a set of the values it matches. A segment of a path is
escaped by a function (`EscapedAs`), as often as the code does it; HTTPProxy has all
its exits, those with an error among them. Which configurations the schema and the
VerifyConfig of a step type accept is a constant (`SchemaAccepts`, `VerifyAccepts`),
except for Chain, whose VerifyConfig is `VerifyChain`; a step without a configuration
has null at the path `<<>>` and is not asked. The prefix of a placeholder is one
symbol, of `Identifiers` where the code takes identifiers only. What a provider of
bindings describes and what it binds are two fields, and it may fail at either; a
script of the schedule type is bound in one way by a Script step and in another by a
schedule. A script that names a blank outcome fails, or catches the error and goes
on (`catches`). The loops and the
recursion of the code are recursive functions: over the places of a sequence (`Trees`,
`MatchPath`, `FoundUpTo`, `KeptUpTo`, `PlaceholdersFrom`, `WrittenFrom`,
`ReplacedUpTo`), or over the nodes of a step (`Generates`, `ValidNested`). A step with
the steps inside it is a function from places to nodes: `<<>>` is the step itself,
`<<2, 1>>` the first step inside the second; the properties of a node are a function
from paths to values.

**Configuration** composes the three: a behaviour starts with one input of any of
seven kinds, one step (`MatchRoute`, `ForwardRequest`, `RunScript`, `BindScript`,
`SaveJourney`, `RunStep`, `ConfigureInstance`) computes what the code makes of it, and
the properties compare the result with a reference definition: the first route of the
list that fits (`FirstDeclared`), the innermost layer that says something of a header
(`InnermostHeader`), the outcome by its canonical name, the journey all nodes of which
are in order (`Sound`), the text in which each span of symbols that is a placeholder
is replaced by its value (`Filled`, `Meaning`). The references know neither cursors
nor offsets nor metadata. `RunStep` saves, compiles and resolves one step in a row.
What inputs look like is assumed by name (`IsTable`, `IsRequest`, `IsProxyConfig`,
`IsPolicy`, `IsValue`, `IsStep`); `MaxDepth` bounds how deep steps are nested, and
`Environment`, `RunContexts`, `Resolvers` and `Literals` are what placeholders can
stand for.

The modules ending in **MC** hold the constants of the runs. EngineMC has one
set of journeys (*Login*, *Profile*, *Audit*, *Page*: calls, recursion, a chain,
retries, a suspension, a response that ends a child); in ConfigurationMC each
input is an initial state.

The modules ending in **Proofs** hold the theorems, one for each component
(Invocation, Engine, Scheduler, LDAPPool, Administration, Async, CacheManager,
Configuration).

## Runs

| Run | Shows |
|---|---|
| `invocation` | two workers, one session, six handles: `AtMostOneRun`, `NoFork`, `OneShotHandles` (refinement of Continuations) |
| `engine` | `CallDiscipline`, `ReturnsChildResult`, `PauseCanBeAnswered`, and under fairness `InvocationEnds` |
| `scheduler` | `SingleFlight` with timers, callers and an administrator |
| `scheduler_limits` | `MaxRunsRespected`, `StoreIsTruthful` (`ActiveIsScheduled`, `RunningIsTruthful`), `AnswersAreFresh` with nested runs, failing saves, panics and restarts |
| `scheduler_live` | `EveryCallReturns`, `LimitedScheduleEnds` under fairness |
| `cache` | `DiskIsSound` (`LiveMatchesDisk`, `RestartSucceeds`), `CountersExact`, `LimitsHold` with two concurrent updates, failing disks and constructors, changed limits and restarts |
| `ldap` | `PoolIsSound` (`OpenIsExact`, `PoolIsService`), and under fairness `WaitsEnd` (`EndsOrStranded`, `CancelledEnds`) |
| `configuration` | pure code against reference definitions: `FirstDeclaredRouteWins`, `ForwardedAsConfigured`, `PlaceholdersAreResolved`, `SavedJourneysAreSound`, `ScriptsAreAsDescribed` |
| `admin` | `RunsWhatWasStored`, `PathsAreTrue` (`PathLeadsToItsName`, `NotFoundIsTrue`), `MadeOnce` (`EnvIsStatic`, `OneSigningKey`), `ValidatorsMatchStore`, and under fairness `Answered` |
| `async` | `AnswersAreTrue`, `SharedStateAgrees` (`WaitedWritesVisible`, `OneClaim`), and under fairness `EverythingEnds` (`RunEnds`, `TasksEnd`), `EndsAreHeard` (`ErrorsReported`, `ListenersHear`) |

Two runs show that the code does not do what a document says (the quotes are in
`PROJECT.json`):

| Run | Disagreement |
|---|---|
| `admin_duplicates` | two saves of a new journey at the same time create its name twice in a realm |
| `async_step_id` | AsyncWait ANY goes on after its first success; a child that is copied only then carries the id of a later step |

Other disagreements and weak spots met while modelling, for which no run is kept
(most are behaviours of the models; a few lie in details the models leave out):

* a pause behind a token resume is stored for the table's default TTL, not for
  `default_exp` (`execution.journey.go:479`; `docs/features/journey-configuration.md:24`);
* a Choice inside a Chain asks for an input that the next submission cannot give
  (`steps/chain.step.go:67`; `docs/features/invocation-lifecycle.md:53`);
* a journey and its SubJourney that differ in `encrypted_client_inputs`: what the
  child asks for is stored in the context of the journey the invocation began with
  and looked for in the child's own, so the answer is refused
  (`execution.journey.go:166`; `docs/features/journey-configuration.md:22`);
* inputs sent along with a resume id are not validated
  (`execution.journey.go:175`; `docs/features/client-inputs.md:117`);
* schedules that ask for each other: a goroutine waits for its own run
  (`scheduler.go:372`); two concurrent misses may execute a schedule twice
  (`scheduler.go:347`);
* an ExtendExp that subtracts more than the lifetime makes the TTL negative, and
  go-cache keeps the state for ever (`execution.journey.go:466`);
* a state waiting behind a token resume expires with its wait, not the journey's
  TTL later (`steps/wait-until.step.go:73`);
* Metadata in a second Chain takes the receipt of the first (`steps/chain.step.go:67`);
* a child ended by HTTPFinishResponse leaves no result, its caller enters it
  again (`steps/http-finish-response.step.go:24`);
* an empty answer to a Choice ends the run as a success (`execution.journey.go:403`);
* two saves of one schedule at the same time may leave two interval loops, of
  which one can no longer be cancelled (`scheduler.go:108`);
* a schedule saved while its last run ends may be stored as active without a
  timer (`scheduler.go:306`);
* Get and Refresh do not execute a schedule with `trigger_enabled: false`
  (`scheduler.go:203`);
* the categories a host leaves out get their factory after the records on disk
  were loaded, so a process that persisted an instance of one of them does not
  start again (`journey.go:109`, `cache/manager.go:122`);
* a removal of a category that fails half way leaves the totals of Stats too low
  for good (`cache/manager.go:325`), and replaced values are never closed;
* between the check of deleteInstance and the removal the instance may be
  replaced by a runtime one, which is then removed (`rest.api.go:1305`);
* a step that waits for a pooled LDAP connection is not woken when a failing dial
  or an expired connection gives its place back (`steps/ldap.client.go:329`);
  a connection that broke in use goes back to the pool (`steps/ldap.client.go:342`);
* overlapping saves of one schema, or one that cannot be stored, leave a
  validator that is not the stored schema's (`schema.storage.go:34`);
* a resolver that panics leaves the requests waiting that share its answer
  (`runtime_journey.go:42`);
* two journeys of one name in two realms share a path
  (`docs/features/rest-api.md:181` says so), and a request is answered 404 when
  the one it was led to is deleted meanwhile, though the other is there;
* a placeholder mixed with other text is converted to the type that is declared or
  that the field has, and refused if it cannot be, where
  `docs/features/contexts-and-placeholders.md:65` and `:67` say the result is always
  a string; a value that is exactly a static placeholder skips its declared type;
* a host without any resolver gets the placeholders of an instance unresolved,
  those of contexts too, which are refused otherwise (`config_placeholders.go:22`);
* a path is escaped when a route is looked up and again when its upstream is called
  (`steps/http-route-table.instance.go:337`, `:403`);
* a Content-Type that a route strips is put back from the request
  (`steps/http-proxy.step.go:123`);
* a script of the schedule type that a Script step runs finds neither
  `previousResult` nor `SetResult`, which are described for it
  (`steps/script.step.go:1392`); a provider that replaces the defaults without
  describing its own leaves their list standing (`steps/script.step.go:309`);
* headers spelled differently in two layers of a route are two headers
  (`steps/http-route-table.instance.go:430`);
* AsyncWait returns "false" together with an error, and the engine ends the run
  on any error, so the outcome is never followed (`execution.journey.go:355`);
* children that are late write to the contexts after the answer, or after the
  end of the run (`steps/async-exec.step.go:26`), and a panic in one ends the process.

### Bounds

Six handles let the session go through three pauses (every execution draws one
identifier, a suspension a second one); two workers are enough for every race
on a handle, since at most one can hold it. One session is enough for the
properties, which speak of one session each; the theorems hold for any number.
`DefaultExp` differs from the table's `DefaultTTL`, so a lifetime taken from
the wrong place shows. There is no symmetry, as a refinement is checked too.

In Engine `MaxTick` stands for the 500 executions of the guard. Tick and Retry
counters stop at the limit they are compared with, which no comparison can
tell from counting on. `SlowSteps` are the steps that may take longer than the
guard's window, all but those of the cycles that only the guard ends (`probe`
routing to itself, `publish` entering Page again); the cycles of slow ones pass a
Retry or a pause. A run that is over has no next step, so deadlock is not
checked there; `InvocationEnds` shows that no invocation gets stuck before.

`CallDiscipline` does not speak of runs in which HTTPFinishResponse or an empty
outcome ended a child (`ResultLost`): no result is left for the caller then. In
EngineMC the child *Page* may end that way or with a result; it also asks a Choice in
a Chain, whose pause cannot be answered, and only *Profile* encrypts its client
inputs, so that pauses meet both contexts. `Answers` has the empty string, which ends
the run early.

In Scheduler no call starts once a schedule has been executed `MaxExecs` times;
the calls already started go on, so a schedule runs more often than that. A
target asks for one other result per execution. One caller and two loops give
three goroutines on one schedule (an old loop, its successor and a request).
`scheduler_limits` has no administrators: an edit sets RunCount to what the
body says, so a limit means nothing across it. A run that loses its outcome (a
crash, a panic, a failed save) is counted in `lost`, and the properties allow
for exactly these. The instance stops when its executions are used up, so
deadlock is not checked; `EveryCallReturns` shows that nobody is left waiting.

In CacheManager two processes work on one category with a factory and limits
and on one without; two bodies of different size make both limits bite, three
records let one be replaced while another is written, and one failed removal of
a category (`MaxStripped`) is enough for its drift. Configurations only get
stricter (`HostIsCautious`, which the run evaluates): what a looser start would load
is not promised. LDAPPool has three
steps for two places and one place in the idle channel, so that every way to
get and to lose a place is taken. Administration starts from one of three menus
(routes, compiling, schemas) with two handlers and three requests, enough for a
request that meets a change between any two of its steps; ids and revisions are
bounded by the requests. Async has every pair of behaviours under each kind of
step, and two steps that overlap; a listener is added or removed at most three
times. In these modules the work ends, so deadlock is not checked. The inputs of
ConfigurationMC are every table of three different routes of those listed, configured
strings of up to three pieces, and for the other kinds combinations of the listed parts.

The largest runs are `invocation` (226072 states, about a minute), `configuration`
(68570 states), `async` (114958 states) and `admin`, which takes
longer for its liveness.

### Fairness

`invocation` checks safety only. `engine` assumes weak fairness of the goroutine that executes
the run and nothing of the client; a slow step that routes to itself runs for
ever, in the code as in the model.

`scheduler_live` assumes that goroutines which can move do, that timers go off
and that targets finish; `timeout_seconds` is not relied on. Nothing is assumed
of requests, cancellations or administrators.

`ldap` assumes that the goroutine of each step goes on where it can, and that
dials and operations end, with success or without; not that contexts end, or
that connections expire. It speaks of behaviours in which no more steps arrive,
since a stream of new ones may always find the idle connection first. A goroutine
that waits in the channel is served in turn (strong fairness of `Wait`), as Go
queues the receivers of a channel first come, first served. `admin` assumes
that each handler goes on. `async` assumes that goroutines which can run do,
that the timers of AsyncWait and AsyncExec fire, and that the context of a
request ends after the request was answered; not that a stuck child returns.

## Proofs

Every invariant of the passing runs, the action properties and the refinement are
theorems, for any value of the constants; what is left to TLC is below. The
assumptions on the constants are in the modules (`ASSUME`) and every run evaluates
them; a theorem that needs more says so in its hypothesis.

| Module | Theorems |
|---|---|
| `InvocationProofs` | `TypeCorrect`, `SingleUse` (`AtMostOneRun`), `SessionsNeverFork` (`NoFork`), `Refinement` (`OneShotHandles`: Invocation implements Continuations) |
| `EngineProofs` | `EngineTypeCorrect`, `PausesCanBeAnswered`, `CallsAreDisciplined` (`CallDiscipline`), `CallersGetChildResults` (`ReturnsChildResult`) |
| `SchedulerProofs` | `SchedulerTypeCorrect`, `FlightsAreSingle` (`SingleFlight`), `FollowersGetFreshAnswers` (`AnswersAreFresh`), `RunsAreLimited` (`MaxRunsRespected`), `StoreTellsTheTruth` (`StoreIsTruthful`) |
| `LDAPPoolProofs` | `PoolTypeCorrect`, `PoolAlwaysSound` (`PoolIsSound`) |
| `AdministrationProofs` | `AdministrationTypeCorrect`, `StoredRevisionsRun` (`RunsWhatWasStored`), `PathsLeadTrue` (`PathsAreTrue`), `MadeOnlyOnce` (`MadeOnce`), `ValidatorsAreStored` (`ValidatorsMatchStore`) |
| `AsyncProofs` | `AsyncTypeCorrect`, `AnswersTellTheTruth` (`AnswersAreTrue`), `ChildrenShareState` (`SharedStateAgrees`) |
| `CacheManagerProofs` | `CacheTypeCorrect`, `MemoryMatchesDisk` (`LiveMatchesDisk`), `CountersAreExact` (`CountersExact`), `LimitsAreKept` (`LimitsHold`), `DiskStaysSound` (`DiskIsSound`) |
| `ConfigurationProofs` | `MatchIsFirstDeclared` (the lookup is the reference, for every table and request), `RouteTableFindsFirst` (`FirstDeclaredRouteWins`), `ProxyFollowsConfiguration` (`ForwardedAsConfigured`), `ScriptsKeepTheirWord` (`ScriptsAreAsDescribed`), `JourneysAreSavedSound` (`SavedJourneysAreSound`), `PlaceholdersStandForTheirValues` (`PlaceholdersAreResolved`) |

None of the properties is inductive. What each proof adds, and why:

**Invocation.** `IndInv` adds what a worker has in hand at each point of the handler
(`InHand`), the life of a handle (`HandleInv`: a handle is drawn before it is
planned, stored or issued; it is never stored and held, or held twice; one that has
been run is neither), and the whereabouts of a session (`SessionInv`).
`AtMostOneRun` needs the uniqueness of fresh identifiers, `NoFork` that the entry of
a session is gone while a worker holds its state.

**Engine.** `TypeInv` adds when there are unanswered requests: behind a child of a
Chain that asked, and from then on to the next invocation. `PauseInv` says who asked and who suspended the run. `CallInv`
says which frames of the tracking stack belong to calls, that the markers and the
stack of props name the same calls in the same order, and how the child of the last
call ended. The step types are reduced to a few effects on the stack (replace the
top, push a child, pop). A child of a Chain runs under an id that no frame names, so
a Choice there leaves a pause that nobody can answer, and a Success, Failure or End
there leaves a result for the caller and goes on. `PausesCanBeAnswered` has no
hypothesis: the property itself excepts the Choice in a Chain, and the pause of a
journey that keeps its client inputs in the other context than its invocation, both
among the weak spots above. The theorems on calls exclude Success, Failure and End as
children of Chains; nothing else is assumed of the journeys.

**Scheduler.** The invariant is about every call on the stack of every task: while
it runs the schedule it is the registered leader of the flight, and the value it has
is of an execution that was not over when it, or a follower, called. Single flight
follows as two leaders would be one entry. The second part of the module needs single
flight: only the leader changes what is stored of a run, so the copy it has in hand is the
store's, or one run ahead (`Copies`), and the stored count is behind the executions
by what was lost and the run in progress (`CountIsClose`). Both its theorems assume
that nobody edits the schedules (`Admins = {}`): an edit sets the count to what the
body says. `StoreTellsTheTruth` also assumes that the process does not find a schedule
already marked as running at its very first start (`CleanStore`), as nothing clears a
stale mark but the next run.

**LDAPPool.** What a request has in hand at each point of acquire, release and
discard, and that the counter is the number of places so held and of idle
connections; each step moves one place.

**Administration.** What a request has witnessed (`stored`, `matched`, `missing`) covers
what is stored now, what it has in hand and what it answered; the caches hold
revisions that were stored and paths that led somewhere; one call of the resolver is
open, and the environment is its answer. The assumptions are that ids and revisions
are positive, that the resolver's answers are values, and that the clients are
finitely many, as the bounds of ids and revisions come from the number of requests.

**Async.** By task and by step: a result is sent once and received once, by the step
whose child sent it; every child works on a container that there is, and the one of
the run is at the end of every wrapping. There is one map of interaction values once
there is a handle, every handle is of it, and what it holds was put there by the child
that all others find (`ValuesInv`, `OneMapPerRun`). The programs are sequences of steps with at
most `MaxTasks` children.

**CacheManager.** `TypeInv` adds that what is live can be counted and that an update
past the construction carries what it constructed. `DiskInv` extends `LiveMatchesDisk`
over the start: a record is live or still to be loaded, no two records are of one
instance and no two instances have one record, which is what makes the identity that
`Commit` writes under the right one. Every step then is one of four (`StepShapes`):
nothing changes, an instance is accepted within the limits, some of a category go,
the process starts again; and the counting lemmas (`PutCounts`, `TakenCounts`) give
the totals and the limits. `StartInv` is for the next start: what is live and what is
on disk are within the limits of the start, and nothing is on its way to the disk
that the start has no factory for. It needs a host that does not loosen the
configuration it starts with (`HostIsCautious`); one that does can write what the
next start refuses, which is the weak spot above. `MemoryMatchesDisk` is the part of
`DiskIsSound` that needs nothing of the host.

**Configuration.** The specification takes one step, and its invariant says no more
than that the input is one of the configured and the output what the code computes
from it; the work is about the operators. They are recursive functions, so what they
compute for every input needs induction over data. The library's theorems for that take
an operator as a parameter; `SetInduction` states induction for a set of naturals
instead, which the provers can use: `DEFINE S == {n \in Nat : ...}`, and Nat is a
subset of S. From it come the `...Unfold` lemmas (the recursive functions satisfy their
equations) and the three inductions of the route table:

* *compiling* (`CompiledTree`): the tree of the first routes has exactly the nodes their
  patterns pass through, the references of a node and a method are those of the
  patterns that end there, in the order of declaration, and the least reference of a
  node is the least of all patterns below it (`IsTreeOf`);
* *the lookup below a node* (`NodesMatch`, on the number of segments left): given the
  best of some set of fitting patterns, the search returns the best of that set and of
  all fitting ones below the node (`IsBest`). A branch that is pruned has no pattern
  that would be better, since its least reference is not (`Pruned`); that literal,
  parameter, `*` and `**` are all there is below a node is `FitsAtEnd` and
  `FitsDeeper`;
* *the hosts* (`HostsMatch`): exact host, the suffixes from the longest to the shortest,
  any host, each continuing with the best so far.

`MatchIsFirstDeclared` puts them together, together with `CapturesByName` (the captures
of the search, zipped with the names of the pattern that won, are the segments where its
parameters stand, the last of a name winning). `ProxyForwards` adds the step around it:
policies (`PolicyAllows`), headers (`HeadersAreInnermost`), the effective and the
target URI. `ScriptEnds` follows an outcome through saving, declaring and calling; it
needs that making a name canonical twice is making it so once (`CanonAssumption`: trim and
lower case). `DescribedIsBound` compares the two pieces of code that list and that bind
names, and says what may be missing: what the host's provider describes and does not
bind, the result of a schedule in a Script step, and anything once a provider that
replaces the defaults describes nothing. `BindingAssumption` only says that schedules
run scripts of their own type.

The placeholders and the journeys need four more inductions, over strings and over the
nesting of steps:

* *finding* (`PlaceholdersFrom` against `Placed`): from a cursor outside of any
  placeholder on, the loop either finds an error, and then the string is not
  `WellFormed`, or exactly the spans behind the cursor, in order and apart from each
  other;
* *writing*: the builder of the environment and of instances copies symbols and writes
  values (`WrittenFrom`, over the places of the string), the one of the step writes
  what is between two offsets and a value (`ReplacedUpTo`, over the placeholders).
  Both make what `Filled` says symbol by symbol (`WrittenIsFilled`,
  `ReplacedIsFilled`), as the spans do not overlap;
* *nesting* (`Generates` and `ValidNested`, on the depth left): the recursion succeeds
  at the step itself exactly if every node is in order. It needs that the nodes are a
  tree and that only Chain and the asynchronous steps have steps inside (`IsStep`): the
  code validates the steps inside any step, and looks for placeholders only inside
  these. A Chain validates the steps in it a second time, for the types it refuses;
  `NodesAreAdmitted` shows that this adds nothing to what is asked of them anyway but
  the refusal (`Admitted`).

`JourneyIsPrepared` gives `JourneysAreSavedSound`; that the validation of the offsets
never refuses what was found by the loop is part of it. For
`PlaceholdersStandForTheirValues` the types have to be followed as well: the type saved
before the environment was replaced is kept by the second discovery when it is not
empty, and a placeholder that filled its string before may have text around it after
(or the other way round); `NodeMeans` shows that the type in the end is the one
`Meaning` says. It assumes that resolvers answer with values that can be written as
symbols, or fail (`ValueAssumption`), and that the type of a Go field is one that
variables can have (`FieldAssumption`).

Only model-checked:

* liveness and everything under fairness (`InvocationEnds`,
  `EveryCallReturns`, `LimitedScheduleEnds`, `WaitsEnd`, `Answered`, `EverythingEnds`,
  `EndsAreHeard`): TLAPS 1.4.5 does not reason about fairness and ENABLED;
* the two runs that expect a violation, which show behaviours of the code and no
  theorem.

## Plan

1. *Done:* JourneyStates, Continuations, Invocation, Engine, Scheduler,
   CacheManager, LDAPPool, Administration, Async, RouteTable, StepVariables,
   ScriptStep, Configuration, and the proofs above.
2. An abstract specification of single flight that Scheduler and the static
   environment both implement, and the proofs that they do; one of the registry of
   instances (a map and its copy on disk) that CacheManager implements.
3. Pure code that is left: conditions, random choice by weight, next runs of a
   schedule, the LRU of regular expressions, validators of input values.

## Not modelled

The React UI and the static files; export, import and metadata routes; the
JavaScript engine and its program cache; encryption and signatures of tokens,
JWT and OIDC steps; the HTTP and JWK clients and the traffic of all protocols;
JSON encoding, and what the JSON schemas and the VerifyConfig methods say of
configurations (constants in StepVariables, but for Chain); `types/journey.type.go` and the
other declarations of interfaces; the wording of messages, logs and events.
