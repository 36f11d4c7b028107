------------------------------- MODULE Engine -------------------------------
(***************************************************************************)
(* The step loop: executeJourney and executeSteps of execution.journey.go, *)
(* the tracking stack, and the steps that move it.  One run of a journey   *)
(* is followed through all its pauses; Invocation models how requests      *)
(* compete for the paused state in between.                                *)
(*                                                                         *)
(* A step is executed (mode "exec"), then the loop settles what its        *)
(* outcome means (mode "settle").  The children of a Chain are executed    *)
(* one after the other before the Chain itself settles.                    *)
(***************************************************************************)
EXTENDS Naturals, Sequences, SequencesExt, FiniteSets

CONSTANTS
    Journeys,   \* journey ids
    Steps,      \* step ids; each is a step of one journey
    Root,       \* the journey that is invoked
    Encrypted,  \* the journeys with encrypted_client_inputs
    StartOf,    \* start step of every journey
    Conf,       \* configuration of every step, see below
    Answers,    \* what a client may send for a Choice
    MaxTick,    \* executions of a step before the loop guard looks at the time
    SlowSteps,  \* the steps that may outlast the guard's time window
    None        \* no step

StepTypes == {"Form", "Choice", "Metadata", "SuspendFlow", "SubJourney",
              "Retry", "Chain", "Branch", "Success", "Failure", "End",
              "HTTPFinishResponse"}

Empty == ""  \* no outcome, or no step id

(***************************************************************************)
(* type      the step type; Branch is any step that picks an outcome or    *)
(*           fails without touching the state modelled here                *)
(* next      the step behind each outcome                                  *)
(* outcomes  the outcomes a Branch may return                              *)
(* sub, tag  the journey a SubJourney calls, and whether it sets and       *)
(*           honours (set_tag, pass_tag) the tag of that journey           *)
(* inner     the children of a Chain                                       *)
(* fields    the fields of a Form: external id and required flag           *)
(* default   default_choice of a Choice                                    *)
(* limit     max_attempts of a Retry                                       *)
(* value     the result of an End, as its caller reads it: "unset" if it is *)
(*           nil and IsDefined does not count it                           *)
(***************************************************************************)
ConfigOK(c) ==
    /\ c.type \in StepTypes
    /\ c.type = "SubJourney" => c.sub \in Journeys
    /\ c.type = "Retry" => c.limit \in Nat
    /\ c.type = "End" => c.value \in {"true", "false", "unset"}

\* Chain.VerifyConfig refuses Chains and SubJourneys among the children of a Chain.
ASSUME ConfAssumption ==
    /\ MaxTick \in Nat \ {0} /\ SlowSteps \subseteq Steps
    /\ Root \in Journeys /\ Encrypted \subseteq Journeys /\ None \notin Steps /\ Empty \notin Steps
    /\ \A j \in Journeys : StartOf[j] \in Steps
    /\ \A s \in Steps :
          /\ ConfigOK(Conf[s])
          /\ \A o \in DOMAIN Conf[s].next : Conf[s].next[o] \in Steps
          /\ Conf[s].type = "Chain" =>
                /\ Len(Conf[s].inner) \in Nat
                /\ \A i \in 1 .. Len(Conf[s].inner) :
                      /\ ConfigOK(Conf[s].inner[i])
                      /\ Conf[s].inner[i].type \notin {"Chain", "SubJourney"}

VARIABLES
    stack,     \* tracking frames, the innermost last
    cur,       \* the frame being executed
    mode,      \* what the engine is doing
    chain,     \* the child of the current Chain, 0 outside its children
    chainOut,  \* the last outcome of its children
    out,       \* the outcome of the step just executed
    marks,     \* closedCtx: the result a child left for a step
    tags,      \* closedCtx: the journeys tagged on the session
    props,     \* closedCtx: the SubJourney step whose props are visible
    saved,     \* closedCtx: the props to restore, the innermost last
    suspended, \* closedCtx: the step that suspended the run
    byId,      \* tempCtx: this pause is left with a resume id
    sealed,    \* the client inputs of this invocation are in the encrypted context
    requests,  \* the client-input requests stored in the context of this invocation
    elsewhere, \* those stored in the other context
    asked,     \* the inputs requested in this invocation
    provided,  \* the inputs submitted with it
    ticks,     \* executions of each step in this invocation
    attempts,  \* ctx: the counter of the Retry steps
    result,    \* how the run ended
    calls      \* history: the SubJourney calls that have not returned

control == <<stack, cur, mode, chain, chainOut, out>>
closedCtx == <<marks, tags, props, saved, suspended>>
contexts == <<sealed, elsewhere>>
inputs == <<byId, contexts, requests, asked, provided>>
vars == <<control, closedCtx, inputs, ticks, attempts, result, calls>>

Running == {"frames", "exec", "settle"}
Terminal == {"Success", "Failure", "End", "HTTPFinishResponse"}

(***************************************************************************)
(* Ids: a step runs under its own id, a child of a Chain under the id of   *)
(* the journey followed by its index.  AnyStep is the empty id.            *)
(***************************************************************************)
Id(name) == <<name, 0>>
AnyStep == Id(Empty)

Frame(j, s) == [j |-> j, s |-> s]

\* The children of the Chain that is executing; none outside a Chain.
Children == IF chain = 0 THEN <<>> ELSE Conf[cur.s].inner

\* The configuration and the id of the step that is executing.
Here == IF chain = 0 THEN Conf[cur.s] ELSE Children[chain]
HereId == IF chain = 0 THEN Id(cur.s) ELSE <<cur.j, chain>>

(***************************************************************************)
(* A stored request: its identity, the step that may be answered           *)
(* (requestStepID), the step type, and whether an answer is required.      *)
(***************************************************************************)
Ask(id, at, type, required) ==
    [id |-> id, at |-> at, type |-> type, required |-> required]

AskHere == Ask(HereId, HereId, Here.type, FALSE)

AskField(f) == Ask(f.id, AnyStep, "Form", f.required)

Given(id) == \E i \in provided : i.id = id
Answer(id) == (CHOOSE i \in provided : i.id = id).value

\* History: a child ended without leaving its result, by HTTPFinishResponse, an End
\* without one or an empty outcome; its caller will enter it again, and what follows is not recorded.
ResultLost == calls # <<>> /\ Last(calls).end = "lost"
EndedCall(end) == [calls EXCEPT ![Len(calls)] = [at |-> @.at, end |-> end]]
Recorded(next) == calls' = IF calls = <<>> \/ ResultLost THEN calls ELSE next

Init ==
    /\ stack = <<Frame(Root, StartOf[Root])>>
    /\ cur = Frame(Root, StartOf[Root])
    /\ mode = "frames"
    /\ chain = 0 /\ chainOut = Empty /\ out = Empty
    /\ marks = [s \in Steps |-> "unset"]
    /\ tags = {}
    /\ props = None /\ saved = <<>>
    /\ suspended = AnyStep
    /\ byId = FALSE
    /\ sealed = (Root \in Encrypted)
    /\ requests = {} /\ elsewhere = {} /\ asked = {} /\ provided = {}
    /\ ticks = [s \in Steps |-> 0]
    /\ attempts = 0
    /\ result = "none"
    /\ calls = <<>>

-----------------------------------------------------------------------------
(***************************************************************************)
(* executeJourney: the tracking frames.                                    *)
(***************************************************************************)

Finish(r) == mode' = "over" /\ result' = r

\* The innermost frame is popped; an entry frame starts at the start step.
PopFrame ==
    /\ mode = "frames" /\ stack # <<>>
    /\ stack' = Front(stack)
    /\ LET f == Last(stack) IN
          cur' = Frame(f.j, IF f.s = Empty THEN StartOf[f.j] ELSE f.s)
    /\ mode' = "exec"
    /\ UNCHANGED <<chain, chainOut, out, closedCtx, inputs, ticks, attempts,
                   result, calls>>

\* loadJourney: the journey of the frame is gone or no longer active.
FrameFails ==
    /\ mode = "frames" /\ stack # <<>>
    /\ stack' = Front(stack)
    /\ Finish("error")
    /\ UNCHANGED <<cur, chain, chainOut, out, closedCtx, inputs, ticks,
                   attempts, calls>>

NoFrameLeft ==
    /\ mode = "frames" /\ stack = <<>>
    /\ Finish("succeeded")
    /\ UNCHANGED <<stack, cur, chain, chainOut, out, closedCtx, inputs, ticks,
                   attempts, calls>>

(***************************************************************************)
(* The loop guard: a step that ran MaxTick times in this invocation may    *)
(* only run again when its last execution is long enough ago.              *)
(***************************************************************************)
TickLimit == chain = 0 /\ ticks[cur.s] >= MaxTick

InfiniteLoop ==
    /\ mode = "exec" /\ TickLimit
    /\ Finish("error")
    /\ UNCHANGED <<stack, cur, chain, chainOut, out, closedCtx, inputs, ticks,
                   attempts, calls>>

Executing(type) ==
    /\ mode = "exec"
    /\ TickLimit => cur.s \in SlowSteps
    /\ chain <= Len(Children)
    /\ Here.type = type

\* The step returns o: to executeSteps, or to the Chain it is a child of.
Returns(o) ==
    IF chain = 0
    THEN mode' = "settle" /\ out' = o /\ UNCHANGED <<chain, chainOut>>
    ELSE /\ chain' = chain + 1
         /\ chainOut' = IF o = Empty THEN chainOut ELSE o
         /\ UNCHANGED <<mode, out>>

Request(new) == asked' = asked \cup new /\ requests' = requests \cup new

-----------------------------------------------------------------------------
(***************************************************************************)
(* The Execute of each step type.                                          *)
(***************************************************************************)

(***************************************************************************)
(* Form: a field is missing unless it was submitted, or was requested      *)
(* before, is optional and was left out.                                   *)
(***************************************************************************)
WasRequested(f) ==
    \E r \in requests : r.id = f.id /\ r.at \in {AnyStep, HereId}

MissingFields == {f \in Here.fields :
                     ~Given(f.id) /\ ~(WasRequested(f) /\ ~f.required)}

ExecForm ==
    /\ Executing("Form")
    /\ Request({AskField(f) : f \in MissingFields})
    /\ Returns(IF MissingFields = {} THEN "true" ELSE Empty)
    /\ UNCHANGED <<stack, cur, closedCtx, byId, contexts, provided, ticks,
                   attempts, result, calls>>

\* Choice: the submitted value is the outcome, the default if it is null.
ExecChoice ==
    /\ Executing("Choice")
    /\ IF Given(HereId)
       THEN /\ Returns(IF Answer(HereId) = "null" THEN Here.default
                       ELSE Answer(HereId))
            /\ UNCHANGED <<asked, requests>>
       ELSE Returns(Empty) /\ Request({AskHere})
    /\ UNCHANGED <<stack, cur, closedCtx, byId, contexts, provided, ticks,
                   attempts, result, calls>>

\* Metadata: the stored request of the first execution is the receipt.
ExecMetadata ==
    /\ Executing("Metadata")
    /\ IF \E r \in requests : r.id = HereId /\ r.type = "Metadata"
       THEN Returns("true") /\ UNCHANGED <<asked, requests>>
       ELSE Returns(Empty) /\ Request({AskHere})
    /\ UNCHANGED <<stack, cur, closedCtx, byId, contexts, provided, ticks,
                   attempts, result, calls>>

\* Faulty SuspendFlow: the resumed step leaves its suspension in closedCtx.
SuspendUncleared ==
    /\ Executing("SuspendFlow")
    /\ IF suspended = HereId
       THEN UNCHANGED <<suspended, byId, asked, requests>>
       ELSE suspended' = HereId /\ byId' = TRUE /\ Request({AskHere})
    /\ Returns("true")
    /\ UNCHANGED <<stack, cur, marks, tags, props, saved, contexts, provided,
                   ticks, attempts, result, calls>>

\* SuspendFlow: the first execution suspends, the one after the resume goes on.
ExecSuspendFlow ==
    /\ Executing("SuspendFlow")
    /\ IF suspended = HereId
       THEN suspended' = AnyStep /\ UNCHANGED <<byId, asked, requests>>
       ELSE suspended' = HereId /\ byId' = TRUE /\ Request({AskHere})
    /\ Returns("true")
    /\ UNCHANGED <<stack, cur, marks, tags, props, saved, contexts, provided,
                   ticks, attempts, result, calls>>

\* Retry: counts every visit; the counter is kept after exhaustion.
ExecRetry ==
    /\ Executing("Retry")
    /\ attempts' = IF attempts < Here.limit THEN attempts + 1 ELSE attempts
    /\ Returns(IF attempts + 1 < Here.limit THEN "retry" ELSE "exhausted")
    /\ UNCHANGED <<stack, cur, closedCtx, inputs, ticks, result, calls>>

\* Any step that decides on an outcome from the contexts.
ExecBranch ==
    /\ Executing("Branch")
    /\ \E o \in Here.outcomes : Returns(o)
    /\ UNCHANGED <<stack, cur, closedCtx, inputs, ticks, attempts, result,
                   calls>>

\* A step whose configuration cannot be resolved, or that returns an error, ends the
\* invocation.
StepFails ==
    /\ \E type \in StepTypes : Executing(type)
    /\ Finish("error")
    /\ UNCHANGED <<stack, cur, chain, chainOut, out, closedCtx, inputs, ticks,
                   attempts, calls>>

(***************************************************************************)
(* Success, Failure, End: with a frame left the step is the end of a       *)
(* child, and it leaves its result for the step of that frame.             *)
(* HTTPFinishResponse leaves nothing.                                      *)
(***************************************************************************)
EndValue(c) == IF c.type = "End" THEN c.value
               ELSE IF c.type = "Success" THEN "true" ELSE "false"

ExecEnd ==
    /\ \E t \in {"Success", "Failure", "End"} : Executing(t)
    /\ marks' = IF stack = <<>> THEN marks
                ELSE [marks EXCEPT ![Last(stack).s] = EndValue(Here)]
    /\ Returns("true")
    /\ UNCHANGED <<stack, cur, tags, props, saved, suspended, inputs, ticks,
                   attempts, result, calls>>

ExecHTTPFinishResponse ==
    /\ Executing("HTTPFinishResponse")
    /\ Returns("true")
    /\ UNCHANGED <<stack, cur, closedCtx, inputs, ticks, attempts, result,
                   calls>>

-----------------------------------------------------------------------------
(***************************************************************************)
(* SubJourney.                                                             *)
(***************************************************************************)

\* Faulty return: the props of the caller are not restored.
ReturnsWithoutProps ==
    /\ Executing("SubJourney") /\ marks[cur.s] # "unset"
    /\ marks' = [marks EXCEPT ![cur.s] = "unset"]
    /\ Returns(marks[cur.s])
    /\ Recorded(Front(calls))
    /\ UNCHANGED <<stack, cur, tags, props, saved, suspended, inputs, ticks,
                   attempts, result>>

\* Faulty return: the marker counts as success, whatever it says.
ReturnsTrue ==
    /\ Executing("SubJourney") /\ marks[cur.s] # "unset"
    /\ IF saved = <<>> THEN UNCHANGED <<props, saved>>
       ELSE props' = Last(saved) /\ saved' = Front(saved)
    /\ marks' = [marks EXCEPT ![cur.s] = "unset"]
    /\ Returns("true")
    /\ Recorded(Front(calls))
    /\ UNCHANGED <<stack, cur, tags, suspended, inputs, ticks, attempts,
                   result>>

\* The child left its result: props are restored and the result is consumed.
SubJourneyReturns ==
    /\ Executing("SubJourney") /\ marks[cur.s] # "unset"
    /\ IF saved = <<>> THEN UNCHANGED <<props, saved>>
       ELSE props' = Last(saved) /\ saved' = Front(saved)
    /\ marks' = [marks EXCEPT ![cur.s] = "unset"]
    /\ tags' = IF marks[cur.s] = "true" /\ Here.tag
               THEN tags \cup {Here.sub} ELSE tags
    /\ Returns(marks[cur.s])
    /\ Recorded(Front(calls))
    /\ UNCHANGED <<stack, cur, suspended, inputs, ticks, attempts, result>>

Tagged == Here.tag /\ Here.sub \in tags

SubJourneyPassed ==
    /\ Executing("SubJourney") /\ marks[cur.s] = "unset" /\ Tagged
    /\ Returns("true")
    /\ UNCHANGED <<stack, cur, closedCtx, inputs, ticks, attempts, result,
                   calls>>

\* The props frame, the return frame and the entry frame are pushed.
SubJourneyCalls ==
    /\ Executing("SubJourney") /\ marks[cur.s] = "unset" /\ ~Tagged
    /\ saved' = Append(saved, props)
    /\ props' = cur.s
    /\ stack' = stack \o <<cur, Frame(Here.sub, Empty)>>
    /\ Returns(Empty)
    /\ calls' = IF ResultLost THEN calls ELSE Append(calls, [at |-> cur.s, end |-> "open"])
    /\ UNCHANGED <<cur, marks, tags, suspended, inputs, ticks, attempts,
                   result>>

-----------------------------------------------------------------------------
(***************************************************************************)
(* Chain: every child executes, also behind one that asked for an input.   *)
(***************************************************************************)
EnterChain ==
    /\ Executing("Chain")
    /\ chain' = 1 /\ chainOut' = Empty
    /\ UNCHANGED <<stack, cur, mode, out, closedCtx, inputs, ticks, attempts,
                   result, calls>>

\* Faulty LeaveChain: the current step is not restored.
LeaveChainUnrestored ==
    /\ mode = "exec" /\ chain > Len(Children)
    /\ mode' = "settle"
    /\ out' = IF asked # {} THEN Empty ELSE chainOut
    /\ UNCHANGED <<stack, cur, chain, chainOut, closedCtx, inputs, ticks,
                   attempts, result, calls>>

\* The Chain asked, or it returns the last outcome of its children.
LeaveChain ==
    /\ mode = "exec" /\ chain > Len(Children)
    /\ chain' = 0 /\ mode' = "settle"
    /\ out' = IF asked # {} THEN Empty ELSE chainOut
    /\ marks' = IF asked # {} THEN marks
                ELSE [marks EXCEPT ![cur.s] = "unset"]
    /\ UNCHANGED <<stack, cur, chainOut, tags, props, saved, suspended, inputs,
                   ticks, attempts, result, calls>>

-----------------------------------------------------------------------------
(***************************************************************************)
(* executeSteps, behind the execution: what the outcome means.             *)
(***************************************************************************)

\* Faulty Settling: a step is only counted when it yields.
SettlingYieldOnly ==
    /\ mode = "settle"
    /\ ticks' = IF out # Empty THEN ticks
                ELSE [ticks EXCEPT ![cur.s] = IF @ < MaxTick THEN @ + 1 ELSE @]

\* Every execution that returned no error is counted for the loop guard.
Settling ==
    /\ mode = "settle"
    /\ ticks' = [ticks EXCEPT ![cur.s] = IF @ < MaxTick THEN @ + 1 ELSE @]

\* The step asked for inputs: it will execute again when they arrive.
Pause ==
    /\ Settling /\ asked # {}
    /\ stack' = Append(stack, cur)
    /\ mode' = "paused"
    /\ UNCHANGED <<cur, chain, chainOut, out, closedCtx, inputs, attempts,
                   result, calls>>

Ends == Settling /\ asked = {} /\ Conf[cur.s].type \in Terminal

ClosedBy(c) == IF c.type = "HTTPFinishResponse" \/ EndValue(c) = "unset" THEN "lost"
               ELSE EndValue(c)

EndChild ==
    /\ Ends /\ stack # <<>>
    /\ mode' = "frames"
    /\ Recorded(EndedCall(ClosedBy(Conf[cur.s])))
    /\ UNCHANGED <<stack, cur, chain, chainOut, out, closedCtx, inputs,
                   attempts, result>>

EndRoot ==
    /\ Ends /\ stack = <<>>
    /\ Finish(IF Conf[cur.s].type = "Failure" THEN "failed" ELSE "succeeded")
    /\ UNCHANGED <<stack, cur, chain, chainOut, out, closedCtx, inputs,
                   attempts, calls>>

Continues == Settling /\ asked = {} /\ Conf[cur.s].type \notin Terminal

\* An empty outcome yields to the tracking stack and resets the inputs: of a SubJourney,
\* which has called, or of another step, whose caller then finds no result.
Yield ==
    /\ Continues /\ out = Empty
    /\ mode' = "frames"
    /\ requests' = {} /\ provided' = {}
    /\ IF Conf[cur.s].type = "SubJourney" THEN UNCHANGED calls ELSE Recorded(EndedCall("lost"))
    /\ UNCHANGED <<stack, cur, chain, chainOut, out, closedCtx, byId, contexts,
                   asked, attempts, result>>

ClearRequestsForStep(id) == {r \in requests : r.at \notin {AnyStep, id}}

Follow ==
    /\ Continues /\ out # Empty
    /\ requests' = ClearRequestsForStep(Id(cur.s))
    /\ IF out \in DOMAIN Conf[cur.s].next
       THEN /\ cur' = Frame(cur.j, Conf[cur.s].next[out])
            /\ mode' = "exec" /\ result' = result
       ELSE cur' = cur /\ Finish("error")
    /\ UNCHANGED <<stack, chain, chainOut, out, closedCtx, byId, contexts,
                   asked, provided, attempts, calls>>

-----------------------------------------------------------------------------
(***************************************************************************)
(* The next invocation of the run.                                         *)
(***************************************************************************)
AllConf == UNION {{Conf[s]} \cup
                  (IF Conf[s].type = "Chain" THEN ToSet(Conf[s].inner) ELSE {})
                  : s \in Steps}

FieldIds == {f.id : f \in UNION {c.fields : c \in
                {c \in AllConf : c.type = "Form"}}}

ChoiceIds == {Id(s) : s \in {s \in Steps : Conf[s].type = "Choice"}} \cup
             {r.id : r \in {r \in requests \cup elsewhere : r.type = "Choice"}}

\* A client answers every field and every choice at most once.
Submissions ==
    {p \in SUBSET ([id : FieldIds, value : {"given"}] \cup
                   [id : ChoiceIds, value : Answers]) :
        \A i, k \in p : i.id = k.id => i = k}

\* The context of the client inputs is that of the journey on top of the stack, which
\* need not be the one of the invocation that stored the requests.
WillBeSealed == Last(stack).j \in Encrypted
NextRequests == IF WillBeSealed = sealed THEN requests ELSE elsewhere

Visible == {r \in NextRequests : r.at \in {AnyStep, Id(Last(stack).s)}}

ValidateProvided(p) ==
    /\ \A i \in p : \E r \in Visible : r.id = i.id
    /\ \A r \in Visible : r.required => \E i \in p : i.id = r.id

NextInvocation(p) ==
    /\ mode' = "frames"
    /\ provided' = p
    /\ asked' = {} /\ byId' = FALSE
    /\ sealed' = WillBeSealed /\ requests' = NextRequests
    /\ elsewhere' = IF WillBeSealed = sealed THEN elsewhere ELSE requests
    /\ ticks' = [s \in Steps |-> 0]
    /\ UNCHANGED <<stack, cur, chain, chainOut, out, closedCtx, attempts, result,
                   calls>>

\* A token: inputs that do not fit leave the run as it is.
Submit ==
    /\ mode = "paused" /\ ~byId
    /\ \E p \in Submissions : ValidateProvided(p) /\ NextInvocation(p)

\* A resume id: whatever comes with it is taken unvalidated.
Resume ==
    /\ mode = "paused" /\ byId
    /\ \E p \in Submissions : NextInvocation(p)

Execute ==
    \/ ExecForm \/ ExecChoice \/ ExecMetadata \/ ExecSuspendFlow \/ ExecRetry
    \/ ExecBranch \/ StepFails \/ ExecEnd \/ ExecHTTPFinishResponse
    \/ SubJourneyReturns \/ SubJourneyPassed \/ SubJourneyCalls
    \/ EnterChain \/ LeaveChain

Step ==
    \/ PopFrame \/ FrameFails \/ NoFrameLeft
    \/ InfiniteLoop \/ Execute
    \/ Pause \/ EndChild \/ EndRoot \/ Yield \/ Follow

Next == Step \/ Submit \/ Resume

Spec == Init /\ [][Next]_vars

\* The goroutine of an invocation runs until it returns.
FairSpec == Spec /\ WF_vars(Step)

-----------------------------------------------------------------------------

TypeOK ==
    /\ stack \in Seq([j : Journeys, s : Steps \cup {Empty}])
    /\ cur \in [j : Journeys, s : Steps]
    /\ mode \in Running \cup {"paused", "over"}
    /\ chain \in Nat
    /\ chain # 0 => mode \in {"exec", "over"} /\ Conf[cur.s].type = "Chain"
    /\ marks \in [Steps -> {"unset", "true", "false"}]
    /\ tags \subseteq Journeys
    /\ props \in Steps \cup {None} /\ saved \in Seq(Steps \cup {None})
    /\ byId \in BOOLEAN /\ sealed \in BOOLEAN
    /\ asked \subseteq requests
    /\ ticks \in [Steps -> 0 .. MaxTick]
    /\ attempts \in Nat
    /\ result \in {"none", "succeeded", "failed", "error"}
    /\ (mode = "over") <=> (result # "none")

\* The child of the innermost call has ended, its caller has not seen it yet.
ChildEnded == calls # <<>> /\ Last(calls).end # "open"

(***************************************************************************)
(* What SubJourney relies on: the tracking stack, the stack of props and   *)
(* the marks in closedCtx are three records of one call stack, kept by     *)
(* different functions and carried through every pause.                    *)
(***************************************************************************)

\* The frame being executed is on top of the frames it will return to.
Tracked == IF mode = "exec" THEN Append(stack, cur) ELSE stack

\* The frames under the top one are those of the open calls, in order.
FramesMatchCalls ==
    /\ Len(Tracked) = Len(calls) + (IF ChildEnded THEN 0 ELSE 1)
    /\ \A i \in 1 .. Len(calls) : Tracked[i].s = calls[i].at

PropsMatchCalls ==
    /\ Len(saved) = Len(calls)
    /\ props = IF calls = <<>> THEN None ELSE Last(calls).at
    /\ \A i \in 1 .. Len(calls) :
          saved[i] = IF i = 1 THEN None ELSE calls[i - 1].at

\* A mark is left for the innermost call only, and is the child's result.
MarksMatchCalls ==
    \A s \in Steps : marks[s] # "unset" =>
        ChildEnded /\ s = Last(calls).at /\ marks[s] = Last(calls).end

(***************************************************************************)
(* Whenever a step is about to execute, a frame is about to be popped or   *)
(* the run is paused, the tracking stack, the props stack and the marks    *)
(* agree on the SubJourney calls that are open, unless a child ended       *)
(* without leaving its result; a run that ends by a terminal step has      *)
(* none open.                                                              *)
(***************************************************************************)
CallDiscipline ==
    ~ResultLost =>
        /\ mode \in {"exec", "paused"} \/ (mode = "frames" /\ stack # <<>>) =>
              FramesMatchCalls /\ PropsMatchCalls /\ MarksMatchCalls
        /\ result \in {"succeeded", "failed"} => calls = <<>>

(***************************************************************************)
(* A SubJourney step goes on with the outcome its own child ended with,    *)
(* whatever ran, paused or recursed in between.                            *)
(***************************************************************************)
ReturnsChildResult ==
    [][Len(calls') < Len(calls) => out' = Last(calls).end]_vars

\* The ids under which the steps run when a frame executes again.
IdsOf(f) ==
    {Id(f.s)} \cup (IF Conf[f.s].type = "Chain"
                    THEN {<<f.j, i>> : i \in 1 .. Len(Conf[f.s].inner)} ELSE {})

(***************************************************************************)
(* A paused run can go on.  It left a resume id exactly if it is           *)
(* suspended, and then the frame that will execute again holds the         *)
(* SuspendFlow step that waits for it.  Otherwise what it asked for can be *)
(* submitted: unless the invocation kept the client inputs in the other    *)
(* context than the journey that asked, and but for a Choice in a Chain,   *)
(* which runs under an id that no frame has.                               *)
(***************************************************************************)
PauseCanBeAnswered ==
    mode = "paused" =>
        /\ byId <=> suspended # AnyStep
        /\ byId => suspended \in IdsOf(Last(stack))
        /\ ~byId /\ sealed = WillBeSealed =>
              \A r \in asked :
                  \/ r.type = "Form"
                  \/ r.type = "Choice" /\ Conf[Last(stack).s].type # "Chain"
                  => r \in Visible

(***************************************************************************)
(* Every invocation comes to a pause or an end: outcomes may form cycles   *)
(* and journeys may call themselves; the loop guard stops the quick steps, *)
(* a Retry the slow ones.                                                  *)
(***************************************************************************)
InvocationEnds == (mode \in Running) ~> (mode \in {"paused", "over"})

=============================================================================
