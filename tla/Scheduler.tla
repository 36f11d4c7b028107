----------------------------- MODULE Scheduler ------------------------------
(***************************************************************************)
(* The scheduler (scheduler.go) with its REST handlers and cache steps.    *)
(* Stored schedules are run by interval loops, by cron entries, by the     *)
(* trigger route and by journeys or other schedules that want a result.    *)
(* Runs of one schedule share a flight: the first caller leads, the others *)
(* follow it.  Administrators save and delete schedules meanwhile.         *)
(*                                                                         *)
(* A task is a goroutine.  Its stack holds the calls it is in, outermost   *)
(* first: the target of a schedule may ask for the result of another one.  *)
(* Times are left out: a timer that is armed may go off.                   *)
(***************************************************************************)
EXTENDS Integers, Sequences, FiniteSets

CONSTANTS
    Ids,        \* schedules
    Callers,    \* goroutines of requests, of cron and of "go Run" in Trigger
    Loops,      \* interval goroutines and cron entries
    Admins,     \* requests that save or delete a schedule
    Stored,     \* the schedules on disk at first
    Bodies,     \* the configurations administrators save
    Uses,       \* <<a, b>>: the target of a asks for the result of b
    Timed,      \* schedules with timeout_seconds
    Faults,     \* what may go wrong: "save", "panic", "restart"
    MaxExecs,   \* bound: no call starts when a schedule has run so often
    None

Tasks == Callers \cup Loops

(***************************************************************************)
(* A schedule: Active, Kind, MaxRuns (0: no limit), RunCount, whether      *)
(* NextRunAt is set, TriggerEnabled, Running.                              *)
(***************************************************************************)
Config == [active: BOOLEAN, kind: {"cron", "interval"}, max: Nat, count: Nat,
           next: BOOLEAN, trigger: BOOLEAN, running: BOOLEAN]

ASSUME SchedulerAssumption ==
    /\ None \notin Ids \cup Tasks \cup Config
    /\ Callers \cap Loops = {}
    /\ Stored \in [Ids -> Config \cup {None}]
    /\ Bodies \subseteq Config
    /\ Uses \subseteq Ids \X Ids
    /\ MaxExecs \in Nat

VARIABLES
    store,      \* the schedule storage
    running,    \* the task that leads the flight of each schedule
    results,    \* the result cache: the execution that published, 0 for none
    cronJobs,   \* the registered cron entry of each schedule
    intervals,  \* the registered interval loop of each schedule
    loop,       \* every loop and entry
    stack,      \* the calls each task is in
    admin,      \* the request each administrator is handling
    boot,       \* schedules Start has still to register
    execs,      \* history: executions of each target begun
    ended,      \* history: the last execution whose flight is over
    lost        \* history: executions the stored RunCount does not know

timers == <<cronJobs, intervals, loop>>
vars == <<store, running, results, timers, stack, admin, boot, execs, ended,
          lost>>

(***************************************************************************)
(* lookup      Get is to look into the result cache                        *)
(* stale       Get missed and is to look for an older value, and refresh   *)
(* trigger     Trigger is to load the schedule                             *)
(* begin       beginRun                                                    *)
(* follow      waits for the leader's done channel                         *)
(* woken       that channel is closed                                      *)
(* load        runOnce is to load the schedule                             *)
(* mark        it is to save it as running                                 *)
(* target      the target is executing                                     *)
(* save        it is to save the outcome                                   *)
(* unschedule  the schedule became inactive                                *)
(* end         endRun                                                      *)
(***************************************************************************)
Leading == {"load", "mark", "target", "save", "unschedule", "end"}
CallAt == {"lookup", "stale", "trigger", "begin", "follow", "woken"} \cup Leading

(***************************************************************************)
(* A call: op is what was called, sch the schedule it has in hand, value   *)
(* the execution whose result it has (0 for none), cancel whether its      *)
(* context can be cancelled, lead the task it follows; asked bounds the    *)
(* requests of one target to one.  since is history: the last execution    *)
(* that was over when the call was made.                                   *)
(***************************************************************************)
Call(op, id, at, cancel) ==
    [op |-> op, id |-> id, at |-> at, sch |-> None, value |-> 0,
     cancel |-> cancel, lead |-> None, asked |-> FALSE, since |-> ended[id]]

Calls == [op: {"run", "refresh", "get"}, id: Ids, at: CallAt,
          sch: Config \cup {None}, value: Nat, cancel: BOOLEAN,
          lead: Tasks \cup {None}, asked: BOOLEAN, since: Nat]

Loop(id, at) == [id |-> id, at |-> at, cancelled |-> FALSE]
NoLoop == Loop(None, "free")
Handling(at, id, sch, job) == [at |-> at, id |-> id, sch |-> sch, job |-> job]
NoRequest == Handling("idle", None, None, None)

TypeOK ==
    /\ store \in [Ids -> Config \cup {None}]
    /\ running \in [Ids -> Tasks \cup {None}]
    /\ results \in [Ids -> Nat]
    /\ cronJobs \in [Ids -> Loops \cup {None}]
    /\ intervals \in [Ids -> Loops \cup {None}]
    /\ loop \in [Loops -> [id: Ids \cup {None}, cancelled: BOOLEAN,
                           at: {"free", "check", "sleep", "entry"}]]
    /\ stack \in [Tasks -> Seq(Calls)]
    /\ admin \in [Admins -> [at: {"idle", "reload", "schedule", "register",
                                  "record", "delete"},
                             id: Ids \cup {None}, sch: Config \cup {None},
                             job: Loops \cup {None}]]
    /\ boot \subseteq Ids
    /\ execs \in [Ids -> Nat]
    /\ ended \in [Ids -> Nat]
    /\ lost \in [Ids -> Nat]

\* scheduleCompleted
Completed(c) == c # None /\ c.max > 0 /\ c.count >= c.max

\* The schedules Start finds active.
ToStart == {id \in Ids : store[id] # None /\ store[id].active}

Init ==
    /\ store = Stored
    /\ running = [id \in Ids |-> None]
    /\ results = [id \in Ids |-> 0]
    /\ cronJobs = [id \in Ids |-> None]
    /\ intervals = [id \in Ids |-> None]
    /\ loop = [l \in Loops |-> NoLoop]
    /\ stack = [t \in Tasks |-> <<>>]
    /\ admin = [a \in Admins |-> NoRequest]
    /\ boot = ToStart
    /\ execs = [id \in Ids |-> 0]
    /\ ended = [id \in Ids |-> 0]
    /\ lost = [id \in Ids |-> 0]

-----------------------------------------------------------------------------
(***************************************************************************)
(* The stack of a task.                                                    *)
(***************************************************************************)
Top(t) == stack[t][Len(stack[t])]
At(t, label) == stack[t] # <<>> /\ Top(t).at = label

\* The innermost call of t becomes c.
Becomes(t, c) == stack' = [stack EXCEPT ![t][Len(stack[t])] = c]
Goto(t, label) == Becomes(t, [Top(t) EXCEPT !.at = label])

\* The innermost call returns; its caller goes on.
Popped(t) == SubSeq(stack[t], 1, Len(stack[t]) - 1)
Returns(t) == stack' = [stack EXCEPT ![t] = Popped(t)]

\* t makes a call; a target makes one at most.
Pushed(t, c) ==
    LET n == Len(stack[t])
    IN  IF n = 0 THEN <<c>> ELSE Append([stack[t] EXCEPT ![n].asked = TRUE], c)
Calling(t, c) == stack' = [stack EXCEPT ![t] = Pushed(t, c)]

\* A request, or the target of a schedule, may call the scheduler for id.
MayCall(t, id) ==
    /\ execs[id] < MaxExecs
    /\ IF stack[t] = <<>>
       THEN t \in Callers /\ boot = {}
       ELSE /\ At(t, "target")
            /\ ~Top(t).asked
            /\ <<Top(t).id, id>> \in Uses

\* The context of the call is cancelled some day: the client may go away, or
\* the schedule that calls has a timeout.
Cancellable(t) ==
    stack[t] = <<>> \/ Top(t).cancel \/ Top(t).id \in Timed

-----------------------------------------------------------------------------
(***************************************************************************)
(* Schedule, Unschedule, Reload, Start and the REST handlers around them.  *)
(***************************************************************************)

\* A loop or entry whose identity nobody refers to any more.
Unused == {l \in Loops : loop[l].at = "free" /\ stack[l] = <<>>
                /\ \A id \in Ids : l \notin {cronJobs[id], intervals[id]}}

\* Unschedule: the cron entry is removed, the interval loop is cancelled.
Unschedule(id) ==
    /\ cronJobs' = [cronJobs EXCEPT ![id] = None]
    /\ intervals' = [intervals EXCEPT ![id] = None]
    /\ loop' = [l \in Loops |->
                    IF l = cronJobs[id] THEN NoLoop
                    ELSE IF l = intervals[id] /\ loop[l].at # "free"
                    THEN [loop[l] EXCEPT !.cancelled = TRUE]
                    ELSE loop[l]]

\* Save replaces the stored schedule, and creates it if it is not there.
Save(id, c) == store' = [store EXCEPT ![id] = c]

\* The interval branch of Schedule, under the mutex: a new loop, and a first
\* NextRunAt if there is none.
ScheduleInterval(id, c, l) ==
    /\ intervals' = [intervals EXCEPT ![id] = l]
    /\ loop' = [loop EXCEPT ![l] = Loop(id, "check")]
    /\ IF c.next THEN UNCHANGED store ELSE Save(id, [c EXCEPT !.next = TRUE])
    /\ UNCHANGED cronJobs

\* The cron branch of Schedule, under the mutex: the entry that AddFunc added
\* is recorded, and the next run is saved.
ScheduleCron(id, c, l) ==
    /\ cronJobs' = [cronJobs EXCEPT ![id] = l]
    /\ Save(id, [c EXCEPT !.next = TRUE])

\* Faulty Start: a schedule with a NextRunAt counts as registered.
StartNewOnly(id) ==
    /\ id \in boot
    /\ boot' = boot \ {id}
    /\ IF Completed(store[id]) \/ store[id].next THEN UNCHANGED <<store, timers>>
       ELSE \E l \in Unused :
              IF store[id].kind = "interval"
              THEN ScheduleInterval(id, store[id], l)
              ELSE /\ ScheduleCron(id, store[id], l)
                   /\ loop' = [loop EXCEPT ![l] = Loop(id, "entry")]
                   /\ UNCHANGED intervals
    /\ UNCHANGED <<running, results, stack, admin, execs, ended, lost>>

\* Start registers the active schedules one by one; no request is served yet.
Start(id) ==
    /\ id \in boot
    /\ boot' = boot \ {id}
    /\ IF Completed(store[id]) THEN UNCHANGED <<store, timers>>
       ELSE \E l \in Unused :
              IF store[id].kind = "interval"
              THEN ScheduleInterval(id, store[id], l)
              ELSE /\ ScheduleCron(id, store[id], l)
                   /\ loop' = [loop EXCEPT ![l] = Loop(id, "entry")]
                   /\ UNCHANGED intervals
    /\ UNCHANGED <<running, results, stack, admin, execs, ended, lost>>

calling == <<running, results, stack, boot, execs, ended, lost>>

Handles(a, at) == admin[a].at = at
Now(a, req) == admin' = [admin EXCEPT ![a] = req]

\* saveSchedule stores the body, then reloads it.
SaveSchedule(a, id, body) ==
    /\ Handles(a, "idle")
    /\ boot = {}
    /\ Save(id, body)
    /\ Now(a, Handling("reload", id, body, None))
    /\ UNCHANGED <<calling, timers>>

\* Reload unschedules, and so does Schedule once more.
Reload(a) ==
    \E step \in {<<"reload", "schedule">>, <<"schedule", "register">>} :
        /\ Handles(a, step[1])
        /\ Unschedule(admin[a].id)
        /\ Now(a, [admin[a] EXCEPT !.at = step[2]])
        /\ UNCHANGED <<calling, store>>

\* The rest of Schedule, for the schedule in hand.
Schedule(a) ==
    LET id == admin[a].id
        c == admin[a].sch
    IN  /\ Handles(a, "register")
        /\ IF ~c.active \/ Completed(c)
           THEN Now(a, NoRequest) /\ UNCHANGED <<store, timers>>
           ELSE \E l \in Unused :
                  IF c.kind = "interval"
                  THEN ScheduleInterval(id, c, l) /\ Now(a, NoRequest)
                  ELSE /\ loop' = [loop EXCEPT ![l] = Loop(id, "entry")]
                       /\ Now(a, Handling("record", id, c, l))
                       /\ UNCHANGED <<store, cronJobs, intervals>>
        /\ UNCHANGED calling

RecordCron(a) ==
    /\ Handles(a, "record")
    /\ ScheduleCron(admin[a].id, admin[a].sch, admin[a].job)
    /\ Now(a, NoRequest)
    /\ UNCHANGED <<calling, intervals, loop>>

\* deleteSchedule unschedules first, then deletes; the deletion may fail.
DeleteSchedule(a, id) ==
    /\ Handles(a, "idle")
    /\ boot = {}
    /\ store[id] # None
    /\ Unschedule(id)
    /\ Now(a, Handling("delete", id, None, None))
    /\ UNCHANGED <<calling, store>>

Delete(a) ==
    /\ Handles(a, "delete")
    /\ \/ Save(admin[a].id, None)
       \/ "save" \in Faults /\ UNCHANGED store
    /\ Now(a, NoRequest)
    /\ UNCHANGED <<calling, timers>>

-----------------------------------------------------------------------------
(***************************************************************************)
(* Timers.                                                                 *)
(***************************************************************************)
registry == <<store, running, results, cronJobs, intervals, admin, boot,
              execs, ended, lost>>

\* runInterval loads its schedule before every wait and gives up when it is
\* gone, inactive or completed.
CheckInterval(l) ==
    LET c == store[loop[l].id]
    IN  /\ loop[l].at = "check"
        /\ stack[l] = <<>>
        /\ loop' = [loop EXCEPT ![l] =
                      IF c = None \/ ~c.active \/ Completed(c) THEN NoLoop
                      ELSE [@ EXCEPT !.at = "sleep"]]
        /\ UNCHANGED <<registry, stack>>

\* The timer of an interval loop goes off.  A loop cancelled at the same moment
\* may still run: select takes either.
FireInterval(l) ==
    /\ loop[l].at = "sleep"
    /\ execs[loop[l].id] < MaxExecs
    /\ loop' = [loop EXCEPT ![l].at = "check"]
    /\ Calling(l, Call("run", loop[l].id, "begin", FALSE))
    /\ UNCHANGED registry

StopInterval(l) ==
    /\ loop[l].at = "sleep"
    /\ loop[l].cancelled
    /\ loop' = [loop EXCEPT ![l] = NoLoop]
    /\ UNCHANGED <<registry, stack>>

\* cron starts a goroutine for an entry that is due.
FireCron(l, t) ==
    /\ loop[l].at = "entry"
    /\ boot = {}
    /\ t \in Callers
    /\ stack[t] = <<>>
    /\ execs[loop[l].id] < MaxExecs
    /\ Calling(t, Call("run", loop[l].id, "begin", FALSE))
    /\ UNCHANGED <<registry, loop>>

-----------------------------------------------------------------------------
(***************************************************************************)
(* Trigger, Refresh, Get and Clear.                                        *)
(***************************************************************************)
shared == <<store, running, results, timers, admin, boot, execs, ended, lost>>

\* The trigger route: with wait the client waits for the run, without it a
\* goroutine of its own runs the schedule and nothing cancels it.
Trigger(t, id, wait) ==
    /\ stack[t] = <<>>
    /\ MayCall(t, id)
    /\ store[id] # None
    /\ store[id].trigger
    /\ Calling(t, Call("run", id, "begin", wait))
    /\ UNCHANGED shared

\* refresh refuses the schedule whose target calls, and one that is completed.
Refused(t, id, c) ==
    Completed(c) \/ (stack[t] # <<>> /\ Top(t).id = id)

Refresh(t, id) ==
    /\ MayCall(t, id)
    /\ store[id] # None
    /\ ~Refused(t, id, store[id])
    /\ Calling(t, Call("refresh", id, "trigger", Cancellable(t)))
    /\ UNCHANGED shared

Get(t, id) ==
    /\ MayCall(t, id)
    /\ store[id] # None
    /\ Calling(t, [Call("get", id, "lookup", Cancellable(t))
                     EXCEPT !.sch = store[id]])
    /\ UNCHANGED shared

\* The first lookup: any value may be older than max_age_seconds.
Hit(t) ==
    /\ At(t, "lookup")
    /\ results[Top(t).id] # 0
    /\ Returns(t)
    /\ UNCHANGED shared

Miss(t) ==
    /\ At(t, "lookup")
    /\ Goto(t, "stale")
    /\ UNCHANGED shared

\* The second lookup, for stale_if_error, and the checks of refresh, on the
\* schedule Get found at first.  A Get that is refused, here or later, returns
\* the older value or an error.
FallBack(t) ==
    LET c == Top(t)
        n == Len(stack[t])
    IN  /\ At(t, "stale")
        /\ IF Completed(c.sch) \/ (n > 1 /\ stack[t][n - 1].id = c.id)
           THEN Returns(t)
           ELSE Becomes(t, [c EXCEPT !.at = "trigger", !.sch = None])
        /\ UNCHANGED shared

\* Trigger, called by refresh, loads the schedule again.
TriggerRefresh(t) ==
    LET c == store[Top(t).id]
    IN  /\ At(t, "trigger")
        /\ IF c = None THEN Returns(t)
           ELSE IF ~c.trigger THEN Returns(t)
           ELSE Goto(t, "begin")
        /\ UNCHANGED shared

Clear(id) ==
    /\ boot = {}
    /\ store[id] # None
    /\ results[id] # 0
    /\ results' = [results EXCEPT ![id] = 0]
    /\ UNCHANGED <<store, running, timers, stack, admin, boot, execs, ended,
                   lost>>

-----------------------------------------------------------------------------
(***************************************************************************)
(* Run.                                                                    *)
(***************************************************************************)

\* Faulty BeginRun: the flight in progress is not looked for.
BeginRunAlone(t) ==
    /\ At(t, "begin")
    /\ running' = [running EXCEPT ![Top(t).id] = t]
    /\ Goto(t, "load")
    /\ UNCHANGED <<store, results, timers, admin, boot, execs, ended, lost>>

\* beginRun: the first caller leads, a later one follows it.
BeginRun(t) ==
    LET id == Top(t).id
    IN  /\ At(t, "begin")
        /\ IF running[id] = None
           THEN /\ running' = [running EXCEPT ![id] = t]
                /\ Goto(t, "load")
           ELSE /\ Becomes(t, [Top(t) EXCEPT !.at = "follow",
                                             !.lead = running[id]])
                /\ UNCHANGED running
        /\ UNCHANGED <<store, results, timers, admin, boot, execs, ended, lost>>

\* A follower's context is cancelled before, or with, the leader's end.
Cancel(t) ==
    /\ At(t, "follow") \/ At(t, "woken")
    /\ Top(t).cancel
    /\ Returns(t)
    /\ UNCHANGED shared

\* A follower returns a copy of the leader's result.
Wake(t) ==
    /\ At(t, "woken")
    /\ Returns(t)
    /\ UNCHANGED shared

\* Faulty Load: the limit is left to the timers.
LoadUnlimited(t) ==
    LET c == store[Top(t).id]
    IN  /\ At(t, "load")
        /\ Becomes(t, [Top(t) EXCEPT !.sch = c,
                                     !.at = IF c = None THEN "end" ELSE "mark"])
        /\ UNCHANGED shared

\* runOnce loads and copies the schedule; there may be nothing left to do.
Load(t) ==
    LET c == store[Top(t).id]
    IN  /\ At(t, "load")
        /\ Becomes(t, [Top(t) EXCEPT
                         !.sch = IF c = None \/ Completed(c) THEN None ELSE c,
                         !.at = IF c = None \/ Completed(c) THEN "end"
                                ELSE "mark"])
        /\ UNCHANGED shared

\* It saves its copy as running, whether or not that works, and starts the
\* target.
Mark(t) ==
    LET id == Top(t).id
        c == [Top(t).sch EXCEPT !.running = TRUE]
    IN  /\ At(t, "mark")
        /\ \/ Save(id, c)
           \/ "save" \in Faults /\ UNCHANGED store
        /\ execs' = [execs EXCEPT ![id] = @ + 1]
        /\ Becomes(t, [Top(t) EXCEPT !.at = "target", !.sch = c,
                                     !.value = execs[id] + 1])
        /\ UNCHANGED <<running, results, timers, admin, boot, ended, lost>>

\* Faulty AfterRun: RunCount counts down; the last run leaves the schedule active.
AfterRunDown(c) ==
    [c EXCEPT !.running = FALSE, !.count = @ - 1, !.next = TRUE]
AfterRunActive(c) ==
    [c EXCEPT !.running = FALSE, !.count = @ + 1, !.next = TRUE]

\* The copy after the run: one run more, and inactive once it was the last.
AfterRun(c) ==
    LET d == [c EXCEPT !.running = FALSE, !.count = @ + 1, !.next = TRUE]
    IN  IF Completed(d) THEN [d EXCEPT !.active = FALSE, !.next = FALSE] ELSE d

\* What runTarget, a workflow or a script, may leave: a published value, or no
\* value because there was none or because the target failed.
TargetOutcomes == {TRUE, FALSE}

\* The target is done: it published a value, or it did not, or it failed.
Finish(t, published) ==
    LET c == Top(t)
    IN  /\ At(t, "target")
        /\ results' = IF published THEN [results EXCEPT ![c.id] = c.value]
                      ELSE results
        /\ Becomes(t, [c EXCEPT !.at = "save", !.sch = AfterRun(@),
                                !.value = IF published THEN @ ELSE 0])
        /\ UNCHANGED <<store, running, timers, admin, boot, execs, ended, lost>>

\* The panic of a target is recovered; the schedule stays as Mark saved it.
Panic(t) ==
    /\ "panic" \in Faults
    /\ At(t, "target")
    /\ lost' = [lost EXCEPT ![Top(t).id] = @ + 1]
    /\ Becomes(t, [Top(t) EXCEPT !.at = "end", !.sch = None, !.value = 0])
    /\ UNCHANGED <<store, running, results, timers, admin, boot, execs, ended>>

\* The copy is saved as a whole; the caller is told if that fails.
SaveRun(t) ==
    LET c == Top(t)
        next == IF c.sch.active THEN "end" ELSE "unschedule"
    IN  /\ At(t, "save")
        /\ \/ /\ Save(c.id, c.sch)
              /\ Becomes(t, [c EXCEPT !.at = next, !.sch = None])
              /\ UNCHANGED lost
           \/ /\ "save" \in Faults
              /\ lost' = [lost EXCEPT ![c.id] = @ + 1]
              /\ Becomes(t, [c EXCEPT !.at = next, !.sch = None, !.value = 0])
              /\ UNCHANGED store
        /\ UNCHANGED <<running, results, timers, admin, boot, execs, ended>>

\* A schedule that became inactive is unscheduled.
UnscheduleRun(t) ==
    /\ At(t, "unschedule")
    /\ Unschedule(Top(t).id)
    /\ Goto(t, "end")
    /\ UNCHANGED <<store, running, results, admin, boot, execs, ended, lost>>

\* Faulty EndRun: the followers get what the cache holds.
EndRunCached(t) ==
    LET c == Top(t)
        follows(d) == d.at = "follow" /\ d.id = c.id /\ d.lead = t
        woken(d) == IF follows(d)
                    THEN [d EXCEPT !.at = "woken", !.value = results[c.id]]
                    ELSE d
    IN  /\ At(t, "end")
        /\ running' = IF running[c.id] = t THEN [running EXCEPT ![c.id] = None]
                      ELSE running
        /\ stack' = [u \in Tasks |->
                        LET s == IF u = t THEN Popped(t) ELSE stack[u]
                        IN  [i \in 1 .. Len(s) |-> woken(s[i])]]
        /\ ended' = [ended EXCEPT ![c.id] = execs[c.id]]
        /\ UNCHANGED <<store, results, timers, admin, boot, execs, lost>>

\* Faulty EndRun: done is not closed.
EndRunSilent(t) ==
    LET c == Top(t)
    IN  /\ At(t, "end")
        /\ running' = IF running[c.id] = t THEN [running EXCEPT ![c.id] = None]
                      ELSE running
        /\ Returns(t)
        /\ ended' = [ended EXCEPT ![c.id] = execs[c.id]]
        /\ UNCHANGED <<store, results, timers, admin, boot, execs, lost>>

\* endRun: the result is handed to the followers, the flight is over.
EndRun(t) ==
    LET c == Top(t)
        follows(d) == d.at = "follow" /\ d.id = c.id /\ d.lead = t
        woken(d) == IF follows(d)
                    THEN [d EXCEPT !.at = "woken", !.value = c.value] ELSE d
    IN  /\ At(t, "end")
        /\ running' = IF running[c.id] = t THEN [running EXCEPT ![c.id] = None]
                      ELSE running
        /\ stack' = [u \in Tasks |->
                        LET s == IF u = t THEN Popped(t) ELSE stack[u]
                        IN  [i \in 1 .. Len(s) |-> woken(s[i])]]
        /\ ended' = [ended EXCEPT ![c.id] = execs[c.id]]
        /\ UNCHANGED <<store, results, timers, admin, boot, execs, lost>>

-----------------------------------------------------------------------------
(***************************************************************************)
(* The process stops and starts again: the storage stays, the rest goes.   *)
(***************************************************************************)

\* A run of id whose count has not been saved.
Unsaved(id) ==
    \E t \in Tasks : \E i \in 1 .. Len(stack[t]) :
        stack[t][i].id = id /\ stack[t][i].at \in {"target", "save"}

Restart ==
    /\ "restart" \in Faults
    /\ lost' = [id \in Ids |-> IF Unsaved(id) THEN lost[id] + 1 ELSE lost[id]]
    /\ running' = [id \in Ids |-> None]
    /\ results' = [id \in Ids |-> 0]
    /\ cronJobs' = [id \in Ids |-> None]
    /\ intervals' = [id \in Ids |-> None]
    /\ loop' = [l \in Loops |-> NoLoop]
    /\ stack' = [t \in Tasks |-> <<>>]
    /\ admin' = [a \in Admins |-> NoRequest]
    /\ boot' = ToStart
    /\ ended' = execs
    /\ UNCHANGED <<store, execs>>

-----------------------------------------------------------------------------
\* What a task does on its own once it is in a call.
Step(t) ==
    \/ Hit(t) \/ Miss(t) \/ FallBack(t)
    \/ TriggerRefresh(t) \/ BeginRun(t) \/ Wake(t)
    \/ Load(t) \/ Mark(t) \/ \E b \in TargetOutcomes : Finish(t, b)
    \/ SaveRun(t) \/ UnscheduleRun(t) \/ EndRun(t)

Ask(t, id) ==
    \/ Refresh(t, id) \/ Get(t, id)
    \/ \E wait \in BOOLEAN : Trigger(t, id, wait)

Administer(a) == Reload(a) \/ Schedule(a) \/ RecordCron(a) \/ Delete(a)

Tick(l) ==
    \/ CheckInterval(l) \/ FireInterval(l) \/ StopInterval(l)
    \/ \E t \in Tasks : FireCron(l, t)

Next ==
    \/ \E id \in Ids : Start(id) \/ Clear(id)
    \/ \E l \in Loops : Tick(l)
    \/ \E a \in Admins :
          \/ Administer(a)
          \/ \E id \in Ids :
                \/ DeleteSchedule(a, id)
                \/ \E body \in Bodies : SaveSchedule(a, id, body)
    \/ \E t \in Tasks :
          \/ Step(t) \/ Cancel(t) \/ Panic(t)
          \/ \E id \in Ids : Ask(t, id)
    \/ Restart

Spec == Init /\ [][Next]_vars

\* Goroutines that can move do, timers go off, targets finish.
Fairness ==
    /\ \A t \in Tasks : WF_vars(Step(t))
    /\ \A l \in Loops : WF_vars(CheckInterval(l)) /\ WF_vars(FireInterval(l))
    /\ \A id \in Ids : WF_vars(Start(id))

FairSpec == Spec /\ Fairness

-----------------------------------------------------------------------------
(***************************************************************************)
(* Properties.                                                             *)
(***************************************************************************)

\* Whatever starts them (interval, cron, trigger, a journey, another schedule),
\* two runs of one schedule never overlap (beginRun, endRun), also when
\* administrators save and delete it and when runs fail.
SingleFlight ==
    \A id \in Ids : \A t, u \in Tasks :
        \A i \in 1 .. Len(stack[t]), j \in 1 .. Len(stack[u]) :
            ( /\ stack[t][i].id = id /\ stack[u][j].id = id
              /\ stack[t][i].at \in Leading /\ stack[u][j].at \in Leading )
            => t = u /\ i = j

\* A caller that shares a run gets the value of a run that was not over when it
\* called: endRun leaves no finished flight behind to be followed.
AnswersAreFresh ==
    \A t \in Tasks : \A i \in 1 .. Len(stack[t]) :
        LET c == stack[t][i]
        IN  c.at = "woken" /\ c.value # 0 => c.value > c.since

\* A schedule runs max_runs times at most, over all its callers and across
\* restarts; a run may come on top for each one whose count could not be saved
\* (scheduleCompleted, runOnce).  Nobody edits schedules meanwhile.
MaxRunsRespected ==
    \A id \in Ids : store[id] # None /\ store[id].max > 0
                        => execs[id] <= store[id].max + lost[id]

\* The timer of a schedule is set.
Scheduled(id) ==
    \/ cronJobs[id] # None
    \/ intervals[id] # None /\ loop[intervals[id]].at # "free"
                            /\ ~loop[intervals[id]].cancelled

\* Nothing is going on that could still set or clear timers.
Settled(id) ==
    /\ boot = {}
    /\ \A t \in Tasks : \A i \in 1 .. Len(stack[t]) : stack[t][i].id # id
    /\ \A a \in Admins : admin[a].id # id

\* When nothing is in progress, an active schedule that has runs left has its
\* timer: no run of it stopped the timer for good (runOnce, Unschedule), unless
\* the outcome of its last run could not be saved.
ActiveIsScheduled ==
    \A id \in Ids :
        Settled(id) /\ store[id] # None /\ store[id].active
            /\ ~Completed(store[id]) /\ lost[id] = 0 => Scheduled(id)

\* The stored Running flag is set only while a run is in progress, unless the
\* outcome of one was lost (runOnce).
RunningIsTruthful ==
    \A id \in Ids : store[id] # None /\ store[id].running
                        => running[id] # None \/ lost[id] > 0

\* What the store says of a schedule is true of the process: active means that its
\* timer is set, Running that it is running, over failing saves, panics, restarts and
\* runs that end while others begin.
StoreIsTruthful == ActiveIsScheduled /\ RunningIsTruthful

\* Every call of the scheduler returns, followers included, when the schedules
\* do not ask for each other in a circle.
EveryCallReturns ==
    \A t \in Tasks : stack[t] # <<>> ~> stack[t] = <<>>

\* An active interval schedule with a limit runs that often and is then taken
\* off the clock.
LimitedScheduleEnds ==
    \A id \in Ids :
        ( /\ store[id] # None /\ store[id].active /\ store[id].max > 0
          /\ store[id].kind = "interval" )
        ~> (store[id].count = store[id].max /\ ~store[id].active
                /\ intervals[id] = None)
=============================================================================
