------------------------------- MODULE Async -------------------------------
(***************************************************************************)
(* Asynchronous steps: AsyncWait (steps/async-wait.step.go) over           *)
(* PromiseAll and PromiseAny (utils/promise.go), AsyncExec                 *)
(* (steps/async-exec.step.go), what their children share with the run      *)
(* (steps/steps-vault.go, types/transaction.values.go), and the listeners  *)
(* that hear of its end (journey.listeners.go).                            *)
(*                                                                         *)
(* A run executes the steps of a program one after another; a task <<k,i>> *)
(* is the i-th child of the k-th step, a goroutine of its own.  What a     *)
(* child does is one of                                                    *)
(*    writes   it writes to a context and succeeds                         *)
(*    claims   it stores its name in the interaction values, unless one is *)
(*             there                                                       *)
(*    fails    it returns an error, or asks for client inputs              *)
(*    unknown  its step type is not registered                             *)
(*    hangs    it returns when its context ends                            *)
(*    stuck    it never returns                                            *)
(*    unsafe   its step type is not allowed in asynchronous steps          *)
(***************************************************************************)
EXTENDS Integers, Sequences, FiniteSets

CONSTANTS
    Scenarios,   \* the steps of a run, a sequence of [kind, tasks], and a bound on
                 \* the registrations and removals of listeners: [steps, changes]
    Listeners    \* listeners of the manager

WaitKinds == {"ALL", "ANY"}
NoTask == <<0, 0>>
MaxTasks == 3  \* bound on the children of a step
MaxSteps == 3  \* bound on the steps of a run

\* AsyncWait and AsyncExec, and what their children do.
StepConfigs ==
    [kind: WaitKinds \cup {"SEQUENTLY", "CONCURRENT"},
     tasks: Seq({"writes", "claims", "fails", "unknown", "hangs", "stuck", "unsafe"})]

ASSUME ScenariosAssumption ==
    \A s \in Scenarios :
        /\ s.steps \in Seq(StepConfigs) /\ Len(s.steps) <= MaxSteps /\ s.changes \in Nat
        /\ \A k \in DOMAIN s.steps : Len(s.steps[k].tasks) <= MaxTasks

VARIABLES
    program,     \* the steps of the run
    at,          \* CurrentStepID: the number of the step
    main,        \* the run: "run", "wait", "succeeded" or "failed"
    answer,      \* what a step answered
    over,        \* the context of an AsyncWait has ended
    gone,        \* the context of the request has ended
    timedOut,    \* history: an AsyncWait answered because its context had ended
    copies,      \* whether wrapping a context copies its map (goutils)
    contexts,    \* the containers of the contexts, one for every wrapping: the tasks
                 \* that have written to it
    task,        \* the goroutine of a task: "none", "ready", "cloned", "running", "sending", "done"
    result,      \* what the task returned: "none", "ok" or "error"
    stepID,      \* the step whose ID the child carries
    home,        \* the container of the child
    channel,     \* results sent and not yet received, by step
    received,    \* results received, by step
    reported,    \* errors handed to OnAsyncError
    values,      \* the maps behind InteractionState: the task that has claimed the key
    shared,      \* TransactionValues.shared of the run: the number of its map, 0 if none yet
    handle,      \* the map that was shared with the child
    claimed,     \* what a claiming task was told
    registered,  \* journeyListenerRegistry: the status a listener waits for, or "no"
    audience,    \* listeners of the snapshot that have no goroutine yet
    due,         \* history: the listeners of the end the run came to, when it came
    changes,     \* registrations and removals that may still come
    calls        \* the goroutine of a listener: "none", "ready", "calling", "done"

runVars == <<program, at, main, answer, over, gone, timedOut, copies>>
taskVars == <<task, result, stepID, home, channel, received, reported>>
valueVars == <<values, shared, handle, claimed>>
sharedVars == <<contexts, valueVars>>
listenerVars == <<registered, audience, due, changes, calls>>
vars == <<program, at, main, answer, over, gone, timedOut, copies, contexts, task, result, stepID,
          home, channel, received, reported, values, shared, handle, claimed, registered, audience, due,
          changes, calls>>

-----------------------------------------------------------------------------
Steps == DOMAIN program
Tasks == {t \in Steps \X (1..MaxTasks) : t[2] \in DOMAIN program[t[1]].tasks}
Of(k) == {t \in Tasks : t[1] = k}
Behaviour(t) == program[t[1]].tasks[t[2]]
Kind(t) == program[t[1]].kind
Ended == main \in {"succeeded", "failed"} /\ audience = {}
ContextOver(t) == gone \/ (Kind(t) \in WaitKinds /\ over[t[1]])

Init ==
    /\ \E s \in Scenarios : program = s.steps /\ changes = s.changes
    /\ at = 1 /\ main = "run"
    /\ answer = [k \in Steps |-> ""]
    /\ over = [k \in Steps |-> FALSE] /\ gone = FALSE /\ timedOut = [k \in Steps |-> FALSE]
    /\ copies \in BOOLEAN
    /\ contexts = <<{}>>
    /\ task = [t \in Tasks |-> "none"] /\ result = [t \in Tasks |-> "none"]
    /\ stepID = [t \in Tasks |-> 0] /\ home = [t \in Tasks |-> 0]
    /\ channel = [k \in Steps |-> {}] /\ received = [k \in Steps |-> {}]
    /\ reported = {} /\ values = <<>> /\ shared = 0
    /\ handle = [t \in Tasks |-> 0] /\ claimed = [t \in Tasks |-> NoTask]
    /\ registered = [l \in Listeners |-> "no"] /\ audience = {} /\ due = {}
    /\ calls = [l \in Listeners |-> "none"]

-----------------------------------------------------------------------------
(***************************************************************************)
(* The run.                                                                *)
(***************************************************************************)

\* Every asynchronous step puts the contexts into new synchronized containers.
Wrap == contexts' = Append(contexts, contexts[Len(contexts)])

\* unsafeAsyncStep
Unsafe(k) == \E t \in Of(k) : Behaviour(t) = "unsafe"

\* TransactionValues.Share, under the once: the first handle makes the map.
Share ==
    /\ shared' = IF shared = 0 THEN Len(values) + 1 ELSE shared
    /\ values' = IF shared = 0 THEN Append(values, NoTask) ELSE values

\* Faulty Snapshot: the failure listeners are never looked at.
SnapshotSuccesses(status) == {l \in Listeners : registered[l] = "succeeded"}

\* journeyListenerRegistry.snapshot
Snapshot(status) == {l \in Listeners : registered[l] = status}

\* emitJourneyExecutionEvent: the listeners of the status as they are now.
EmitEnd(status) ==
    /\ main' = status
    /\ audience' = Snapshot(status)
    /\ due' = {l \in Listeners : registered[l] = status}

\* A step that returns an error ends the run, whatever outcome it names.
Refuse ==
    /\ main = "run" /\ at \in Steps /\ Unsafe(at)
    /\ EmitEnd("failed")
    /\ UNCHANGED <<program, at, answer, over, gone, timedOut, copies, taskVars, sharedVars,
                   registered, changes, calls>>

\* AsyncWait.Execute and the start of PromiseAll or PromiseAny: a goroutine for every
\* child.
StartWait ==
    /\ main = "run" /\ at \in Steps /\ program[at].kind \in WaitKinds /\ ~Unsafe(at)
    /\ Wrap
    /\ task' = [t \in Tasks |-> IF t \in Of(at) THEN "ready" ELSE task[t]]
    /\ main' = "wait"
    /\ UNCHANGED <<program, at, answer, over, gone, timedOut, copies, result, stepID, home, channel,
                   received, reported, valueVars, listenerVars>>

\* Faulty StartExec: the contexts are not put into new containers.
StartExecUnwrapped ==
    /\ main = "run" /\ at \in Steps /\ program[at].kind \notin WaitKinds /\ ~Unsafe(at)
    /\ task' = [t \in Tasks |->
                  IF t \in Of(at) /\ (t[2] = 1 \/ program[at].kind = "CONCURRENT") THEN "ready"
                  ELSE task[t]]
    /\ stepID' = [t \in Tasks |-> IF t \in Of(at) THEN at ELSE stepID[t]]
    /\ home' = [t \in Tasks |-> IF t \in Of(at) THEN Len(contexts) + 1 ELSE home[t]]
    /\ Share /\ handle' = [t \in Tasks |-> IF t \in Of(at) THEN shared' ELSE handle[t]]
    /\ answer' = [answer EXCEPT ![at] = "true"]
    /\ at' = at + 1
    /\ UNCHANGED <<program, main, over, gone, timedOut, copies, result, channel, received, reported,
                   contexts, claimed, listenerVars>>

\* AsyncExec.Execute: the children are made from a copy of the transaction that is
\* taken at once, and the run goes on.
StartExec ==
    /\ main = "run" /\ at \in Steps /\ program[at].kind \notin WaitKinds /\ ~Unsafe(at)
    /\ Wrap
    /\ task' = [t \in Tasks |->
                  IF t \in Of(at) /\ (t[2] = 1 \/ program[at].kind = "CONCURRENT") THEN "ready"
                  ELSE task[t]]
    /\ stepID' = [t \in Tasks |-> IF t \in Of(at) THEN at ELSE stepID[t]]
    /\ home' = [t \in Tasks |-> IF t \in Of(at) THEN Len(contexts) + 1 ELSE home[t]]
    /\ Share /\ handle' = [t \in Tasks |-> IF t \in Of(at) THEN shared' ELSE handle[t]]
    /\ answer' = [answer EXCEPT ![at] = "true"]
    /\ at' = at + 1
    /\ UNCHANGED <<program, main, over, gone, timedOut, copies, result, channel, received, reported,
                   claimed, listenerVars>>

\* The step answers: its context is cancelled, and the run goes on or fails.
AnswerWait(outcome) ==
    /\ answer' = [answer EXCEPT ![at] = outcome]
    /\ over' = [over EXCEPT ![at] = TRUE]
    /\ IF outcome = "true" THEN at' = at + 1 /\ main' = "run" /\ UNCHANGED <<audience, due>>
       ELSE EmitEnd("failed") /\ UNCHANGED at

\* PromiseAll and PromiseAny without tasks.
AnswerEmpty ==
    /\ main = "wait" /\ Of(at) = {}
    /\ AnswerWait(IF program[at].kind = "ALL" THEN "true" ELSE "false")
    /\ UNCHANGED <<program, gone, timedOut, copies, taskVars, sharedVars, registered, changes, calls>>

\* PromiseAll, case r := <-compCh: the last result answers.
ReceiveAll ==
    /\ main = "wait" /\ program[at].kind = "ALL"
    /\ \E t \in channel[at] :
        /\ channel' = [channel EXCEPT ![at] = @ \ {t}]
        /\ received' = [received EXCEPT ![at] = @ \cup {t}]
        /\ IF received'[at] # Of(at) THEN UNCHANGED <<at, main, answer, over, audience, due>>
           ELSE AnswerWait(IF \A s \in Of(at) : result[s] = "ok" THEN "true" ELSE "false")
    /\ UNCHANGED <<program, gone, timedOut, copies, task, result, stepID, home, reported, sharedVars,
                   registered, changes, calls>>

\* Faulty TimeoutAll: what has not been received counts as done.
TimeoutAllSilently ==
    /\ main = "wait" /\ program[at].kind = "ALL" /\ Of(at) # {} /\ (over[at] \/ gone)
    /\ timedOut' = [timedOut EXCEPT ![at] = TRUE]
    /\ AnswerWait(IF \A s \in received[at] : result[s] = "ok" THEN "true" ELSE "false")
    /\ UNCHANGED <<program, gone, copies, taskVars, sharedVars, registered, changes, calls>>

\* PromiseAll, case <-ctx.Done(): what has not been received is an error.
TimeoutAll ==
    /\ main = "wait" /\ program[at].kind = "ALL" /\ Of(at) # {} /\ (over[at] \/ gone)
    /\ timedOut' = [timedOut EXCEPT ![at] = TRUE]
    /\ AnswerWait("false")
    /\ UNCHANGED <<program, gone, copies, taskVars, sharedVars, registered, changes, calls>>

\* PromiseAny, case result := <-resultCh: the first success or the last failure.
ReceiveAny ==
    /\ main = "wait" /\ program[at].kind = "ANY"
    /\ \E t \in channel[at] :
        /\ channel' = [channel EXCEPT ![at] = @ \ {t}]
        /\ received' = [received EXCEPT ![at] = @ \cup {t}]
        /\ CASE result[t] = "ok" -> AnswerWait("true")
             [] result[t] # "ok" /\ received'[at] = Of(at) -> AnswerWait("false")
             [] OTHER -> UNCHANGED <<at, main, answer, over, audience, due>>
    /\ UNCHANGED <<program, gone, timedOut, copies, task, result, stepID, home, reported, sharedVars,
                   registered, changes, calls>>

\* PromiseAny, case <-ctx.Done()
TimeoutAny ==
    /\ main = "wait" /\ program[at].kind = "ANY" /\ Of(at) # {} /\ (over[at] \/ gone)
    /\ timedOut' = [timedOut EXCEPT ![at] = TRUE]
    /\ AnswerWait("false")
    /\ UNCHANGED <<program, gone, copies, taskVars, sharedVars, registered, changes, calls>>

\* The timeout of the step that waits.
Timeout ==
    /\ main = "wait" /\ ~over[at]
    /\ over' = [over EXCEPT ![at] = TRUE]
    /\ UNCHANGED <<program, at, main, answer, gone, timedOut, copies, taskVars, sharedVars, listenerVars>>

Succeed ==
    /\ main = "run" /\ at \notin Steps
    /\ EmitEnd("succeeded")
    /\ UNCHANGED <<program, at, answer, over, gone, timedOut, copies, taskVars, sharedVars, registered,
                   changes, calls>>

\* The loop of emitJourneyExecutionEvent, in the order of the map: a goroutine for
\* a listener.
Spawn ==
    /\ \E l \in audience : calls' = [calls EXCEPT ![l] = "ready"] /\ audience' = audience \ {l}
    /\ UNCHANGED <<runVars, taskVars, sharedVars, registered, due, changes>>

\* The client goes away, or the server ends the context of the answered request.
RequestOver ==
    /\ ~gone /\ gone' = TRUE
    /\ UNCHANGED <<program, at, main, answer, over, timedOut, copies, taskVars, sharedVars, listenerVars>>

-----------------------------------------------------------------------------
(***************************************************************************)
(* The children.                                                           *)
(***************************************************************************)

\* Faulty Clone: the child gets the contexts the run had before they were wrapped.
CloneOldContexts(t) ==
    /\ task[t] = "ready" /\ Behaviour(t) # "unknown"
    /\ task' = [task EXCEPT ![t] = "cloned"]
    /\ home' = [home EXCEPT ![t] = IF Kind(t) \in WaitKinds THEN Len(contexts) - 1 ELSE @]
    /\ IF Kind(t) \in WaitKinds THEN Share /\ handle' = [handle EXCEPT ![t] = shared']
       ELSE UNCHANGED <<values, shared, handle>>
    /\ UNCHANGED <<runVars, stepID, result, channel, received, reported, contexts, claimed, listenerVars>>

\* cloneTransaction: in AsyncWait the goroutine itself copies the transaction of the
\* run, and the children share its interaction values; in AsyncExec it copies the copy.
Clone(t) ==
    /\ task[t] = "ready" /\ Behaviour(t) # "unknown"
    /\ task' = [task EXCEPT ![t] = "cloned"]
    /\ home' = [home EXCEPT ![t] = IF Kind(t) \in WaitKinds THEN Len(contexts) ELSE @]
    /\ IF Kind(t) \in WaitKinds THEN Share /\ handle' = [handle EXCEPT ![t] = shared']
       ELSE UNCHANGED <<values, shared, handle>>
    /\ UNCHANGED <<runVars, stepID, result, channel, received, reported, contexts, claimed, listenerVars>>

\* child.CurrentStepID: AsyncWait reads the step of the run a second time, and the run
\* may be at another one by then.
NameChild(t) ==
    /\ task[t] = "cloned"
    /\ task' = [task EXCEPT ![t] = "running"]
    /\ stepID' = [stepID EXCEPT ![t] = IF Kind(t) \in WaitKinds THEN at ELSE @]
    /\ UNCHANGED <<runVars, result, home, channel, received, reported, sharedVars, listenerVars>>

Return(t, r) ==
    task' = [task EXCEPT ![t] = "sending"] /\ result' = [result EXCEPT ![t] = r]

\* configuredStep finds no step, the step fails, asks for inputs, or its context ends.
Fail(t) ==
    /\ \/ task[t] = "ready" /\ Behaviour(t) = "unknown"
       \/ task[t] = "running" /\ Behaviour(t) = "fails"
       \/ task[t] = "running" /\ Behaviour(t) = "hangs" /\ ContextOver(t)
    /\ Return(t, "error")
    /\ UNCHANGED <<runVars, stepID, home, channel, received, reported, sharedVars, listenerVars>>

\* A write reaches the container of the child, and the others if they share a map.
Write(t) ==
    /\ task[t] = "running" /\ Behaviour(t) = "writes"
    /\ contexts' = [g \in DOMAIN contexts |->
                      IF g = home[t] \/ ~copies THEN contexts[g] \cup {t} ELSE contexts[g]]
    /\ Return(t, "ok")
    /\ UNCHANGED <<runVars, stepID, home, channel, received, reported, valueVars, listenerVars>>

\* TransactionValues.LoadOrStore on the values the child was given.
Claim(t) ==
    /\ task[t] = "running" /\ Behaviour(t) = "claims"
    /\ values' = [values EXCEPT ![handle[t]] = IF @ = NoTask THEN t ELSE @]
    /\ claimed' = [claimed EXCEPT ![t] = values'[handle[t]]]
    /\ Return(t, "ok")
    /\ UNCHANGED <<runVars, stepID, home, channel, received, reported, contexts, shared, handle,
                   listenerVars>>

\* The result of a waited task goes into a channel with room for all of them; with
\* PromiseAll it may be dropped once the context is over.
SendAll(t) ==
    /\ task[t] = "sending" /\ Kind(t) = "ALL"
    /\ \/ channel' = [channel EXCEPT ![t[1]] = @ \cup {t}]
       \/ ContextOver(t) /\ UNCHANGED channel
    /\ task' = [task EXCEPT ![t] = "done"]
    /\ UNCHANGED <<runVars, result, stepID, home, received, reported, sharedVars, listenerVars>>

\* Faulty SendAny: the channel has no room, somebody has to receive.
SendAnyUnbuffered(t) ==
    /\ task[t] = "sending" /\ Kind(t) = "ANY"
    /\ main = "wait" /\ at = t[1] /\ channel[t[1]] = {}
    /\ channel' = [channel EXCEPT ![t[1]] = @ \cup {t}]
    /\ task' = [task EXCEPT ![t] = "done"]
    /\ UNCHANGED <<runVars, result, stepID, home, received, reported, sharedVars, listenerVars>>

SendAny(t) ==
    /\ task[t] = "sending" /\ Kind(t) = "ANY"
    /\ Cardinality(channel[t[1]]) < Cardinality(Of(t[1]))
    /\ channel' = [channel EXCEPT ![t[1]] = @ \cup {t}]
    /\ task' = [task EXCEPT ![t] = "done"]
    /\ UNCHANGED <<runVars, result, stepID, home, received, reported, sharedVars, listenerVars>>

\* The next child of SEQUENTLY starts when one has ended.
Following(t) == <<t[1], t[2] + 1>>
Background(t, ended) ==
    IF Kind(t) = "SEQUENTLY" /\ Following(t) \in Tasks
    THEN [ended EXCEPT ![Following(t)] = "ready"] ELSE ended

\* reportAsyncError: every error is handed to OnAsyncError, whose panic is caught.
EndBackground(t) ==
    /\ task[t] = "sending" /\ Kind(t) \notin WaitKinds
    /\ reported' = IF result[t] = "error" THEN reported \cup {t} ELSE reported
    /\ task' = Background(t, [task EXCEPT ![t] = "done"])
    /\ UNCHANGED <<runVars, result, stepID, home, channel, received, sharedVars, listenerVars>>

-----------------------------------------------------------------------------
(***************************************************************************)
(* Listeners.                                                              *)
(***************************************************************************)

\* OnJourneySuccess and OnJourneyFailure
Register(l) ==
    /\ changes > 0 /\ registered[l] = "no"
    /\ \E status \in {"succeeded", "failed"} : registered' = [registered EXCEPT ![l] = status]
    /\ changes' = changes - 1
    /\ UNCHANGED <<runVars, taskVars, sharedVars, audience, due, calls>>

\* RemoveJourneyListener
Unregister(l) ==
    /\ changes > 0 /\ registered[l] # "no"
    /\ registered' = [registered EXCEPT ![l] = "no"]
    /\ changes' = changes - 1
    /\ UNCHANGED <<runVars, taskVars, sharedVars, audience, due, calls>>

\* The goroutine calls the listener.
CallListener(l) ==
    /\ calls[l] = "ready"
    /\ calls' = [calls EXCEPT ![l] = "calling"]
    /\ UNCHANGED <<runVars, taskVars, sharedVars, registered, audience, due, changes>>

\* It returns, or its panic is caught; nobody promises that it ever does.
ListenerReturns(l) ==
    /\ calls[l] = "calling"
    /\ calls' = [calls EXCEPT ![l] = "done"]
    /\ UNCHANGED <<runVars, taskVars, sharedVars, registered, audience, due, changes>>

-----------------------------------------------------------------------------
Main == \/ Refuse \/ StartWait \/ StartExec \/ AnswerEmpty \/ ReceiveAll \/ TimeoutAll
        \/ ReceiveAny \/ TimeoutAny \/ Succeed \/ Spawn
Child(t) == \/ Clone(t) \/ NameChild(t) \/ Fail(t) \/ Write(t) \/ Claim(t)
            \/ SendAll(t) \/ SendAny(t) \/ EndBackground(t)

Next ==
    \/ Main \/ Timeout \/ RequestOver
    \/ \E t \in Tasks : Child(t)
    \/ \E l \in Listeners : Register(l) \/ Unregister(l) \/ CallListener(l) \/ ListenerReturns(l)

Spec == Init /\ [][Next]_vars

\* The scheduler of Go runs every goroutine that can run, timers fire, and the server
\* ends the context of a request it has answered.
FairSpec ==
    /\ Spec
    /\ WF_vars(Main) /\ WF_vars(Timeout) /\ WF_vars(Ended /\ RequestOver)
    /\ \A k \in 1..MaxSteps, i \in 1..MaxTasks : WF_vars(<<k, i>> \in Tasks /\ Child(<<k, i>>))
    /\ \A l \in Listeners : WF_vars(CallListener(l))

-----------------------------------------------------------------------------
(***************************************************************************)
(* Properties.                                                             *)
(***************************************************************************)
TypeOK ==
    /\ at \in 1..(Len(program) + 1)
    /\ main \in {"run", "wait", "succeeded", "failed"}
    /\ \A k \in Steps : channel[k] \cap received[k] = {}
                        /\ channel[k] \cup received[k] \subseteq Of(k)
    /\ \A t \in Tasks : /\ task[t] \in {"none", "ready", "cloned", "running", "sending", "done"}
                        /\ home[t] \in 0..Len(contexts) /\ handle[t] \in 0..Len(values)

\* AsyncWait: "true" means that all its children, or one for ANY, have succeeded; an
\* error means that one, or all for ANY, have failed, or that its context had ended.
AnswersAreTrue ==
    \A k \in Steps :
        program[k].kind \in WaitKinds =>
            LET ok == {t \in Of(k) : result[t] = "ok"}
                bad == {t \in Of(k) : result[t] = "error"}
            IN  /\ answer[k] = "true" => IF program[k].kind = "ALL" THEN ok = Of(k) ELSE ok # {}
                /\ answer[k] = "false" =>
                     timedOut[k] \/ IF program[k].kind = "ALL" THEN bad # {} ELSE bad = Of(k)

\* AsyncWait ALL: what its children wrote is in the contexts of the run when it goes on,
\* and stays there however often later steps wrap the contexts.
WaitedWritesVisible ==
    \A t \in Tasks :
        Kind(t) = "ALL" /\ answer[t[1]] = "true" /\ Behaviour(t) = "writes"
            => t \in contexts[Len(contexts)]

\* TransactionValues.Share: children of all steps of a run that claim the same key agree
\* on who has it, though the map is made by the first of them that is copied.
OneClaim == \A s, t \in Tasks : claimed[s] # NoTask /\ claimed[t] # NoTask => claimed[s] = claimed[t]

\* Children and run share one state: contexts and interaction values.
SharedStateAgrees == WaitedWritesVisible /\ OneClaim

\* Every run ends, also when children hang, or never return.
RunEnds == <>Ended

\* No goroutine of a child is left behind, except one whose step never returns.
TasksEnd ==
    <>[](\A t \in Tasks : task[t] \in {"none", "done"} \/ Behaviour(t) = "stuck")

\* Run and children come to an end, whatever timeouts and late results there are.
EverythingEnds == RunEnds /\ TasksEnd

\* AsyncExec: an error of a background child reaches OnAsyncError, also after the end
\* of the run.
ErrorsReported ==
    <>[](\A t \in Tasks : Kind(t) \notin WaitKinds /\ result[t] = "error" => t \in reported)

\* emitJourneyExecutionEvent: the listeners that were registered for the end a run came
\* to when it came are called, whatever the others do and even if they are removed
\* meanwhile, and nobody else is.
ListenersHear == <>[](due = {l \in Listeners : calls[l] \in {"calling", "done"}})

\* Whoever asked to hear of errors of children and of the end of a run does.
EndsAreHeard == ErrorsReported /\ ListenersHear

\* Each child of an asynchronous step has its own step ID
\* (docs/dev/concurrency-and-security.md).
OwnStepID ==
    \A t \in Tasks : task[t] \in {"running", "sending", "done"} /\ stepID[t] # 0 => stepID[t] = t[1]
=============================================================================
