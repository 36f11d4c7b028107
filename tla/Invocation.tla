----------------------------- MODULE Invocation -----------------------------
(***************************************************************************)
(* InvokeJourney (execution.journey.go): concurrent requests that start a  *)
(* journey, continue it with a journey token or resume it by id, against   *)
(* the shared table of paused states.  A worker is the goroutine of one    *)
(* request; between two of its steps every other worker, the clock, the    *)
(* administrator and a restart may move.                                   *)
(*                                                                         *)
(* What a journey does between two pauses is reduced to the effects that   *)
(* matter here: it may extend its expiration, ask for inputs, suspend,     *)
(* wait for a point in time, end or fail.  The step loop itself is         *)
(* modelled in Engine.                                                     *)
(***************************************************************************)
EXTENDS JourneyStates, FiniteSets

CONSTANTS
    Workers,      \* request goroutines
    DefaultExp,   \* default_exp of the journey, in ticks
    SuspendExp,   \* exp of a SuspendFlow step, in ticks
    Extensions,   \* the amounts an ExtendExp step may set
    Waits         \* ticks to the target of a WaitUntil step

ASSUME ExpAssumption ==
    /\ DefaultExp \in Nat /\ SuspendExp \in Nat
    /\ Extensions \subseteq Int /\ Waits \subseteq Nat \ {0}

VARIABLES
    table,   \* the paused states
    used,    \* random identifiers drawn so far
    issued,  \* handles returned to a client
    active,  \* the journey is stored and active
    begun,   \* sessions started so far
    events,  \* terminal execution events emitted for each session
    pc,      \* where each worker is
    req,     \* the request each worker is handling
    state,   \* the JourneyState each worker has in hand
    pause,   \* how each worker is going to store that state
    runs     \* history: executions started from each handle

vars == <<table, used, issued, active, begun, events, pc, req, state, pause,
          runs>>

(***************************************************************************)
(* idle      no request                                                    *)
(* loading   the state was taken out of the table, the journey is loaded   *)
(* checking  the submitted inputs are validated                            *)
(* running   executeJourney is executing steps                             *)
(* signing   a step paused the journey, the token is signed                *)
(* storing   the paused state is about to be stored                        *)
(***************************************************************************)
PC == {"idle", "loading", "checking", "running", "signing", "storing"}

NoReq == [via |-> "none", handle |-> None, realmOk |-> TRUE]

\* Whose state it is, its Exp, the pending ExtendExp delta, the rest of a wait.
JState(sess, exp, ext, wait) ==
    [sess |-> sess, exp |-> exp, ext |-> ext, wait |-> wait]

NoState == JState(None, 0, 0, 0)

NoPause == [id |-> None, kind |-> "token", ttl |-> 0]

Request == [via: {"none", "new", "token", "resume"},
            handle: Handles \cup {None}, realmOk: BOOLEAN]

State == [sess: Sessions \cup {None}, exp: Nat, ext: Int, wait: Nat]

PausePlan == [id: Handles \cup {None}, kind: Kinds, ttl: Int]

TypeOK ==
    /\ table \in [Handles -> Entry \cup {None}]
    /\ used \subseteq Handles
    /\ issued \subseteq Handles
    /\ active \in BOOLEAN
    /\ begun \subseteq Sessions
    /\ events \in [Sessions -> Nat]
    /\ pc \in [Workers -> PC]
    /\ req \in [Workers -> Request]
    /\ state \in [Workers -> State]
    /\ pause \in [Workers -> PausePlan]
    /\ runs \in [Handles -> Nat]

Init ==
    /\ table = EmptyTable
    /\ used = {}
    /\ issued = {}
    /\ active = TRUE
    /\ begun = {}
    /\ events = [s \in Sessions |-> 0]
    /\ pc = [w \in Workers |-> "idle"]
    /\ req = [w \in Workers |-> NoReq]
    /\ state = [w \in Workers |-> NoState]
    /\ pause = [w \in Workers |-> NoPause]
    /\ runs = [h \in Handles |-> 0]

Goto(w, label) == pc' = [pc EXCEPT ![w] = label]

\* The handler returns to its caller and drops what it had in hand.
Return(w) ==
    /\ Goto(w, "idle")
    /\ req' = [req EXCEPT ![w] = NoReq]
    /\ state' = [state EXCEPT ![w] = NoState]
    /\ pause' = [pause EXCEPT ![w] = NoPause]

\* The worker has a state it took out of the table and has not run it.
Holds(w, h) == pc[w] \in {"loading", "checking"} /\ req[w].handle = h

-----------------------------------------------------------------------------
(***************************************************************************)
(* GetJourneyState.  A request the code refuses before it touches the      *)
(* table changes nothing and is no step of this model.                     *)
(***************************************************************************)

\* A new flow: only an active journey starts, with its default_exp.
StartNew(w, s) ==
    /\ pc[w] = "idle"
    /\ s \notin begun
    /\ active
    /\ begun' = begun \cup {s}
    /\ Goto(w, "checking")
    /\ req' = [req EXCEPT ![w] =
                  [via |-> "new", handle |-> None, realmOk |-> TRUE]]
    /\ state' = [state EXCEPT ![w] = JState(s, DefaultExp, 0, 0)]
    /\ UNCHANGED <<table, used, issued, active, events, pause, runs>>

(***************************************************************************)
(* The claims of a token, merged with the stored state: the claims carry   *)
(* no Exp and MergeState copies none, so the state in hand has Exp 0.      *)
(***************************************************************************)
MergeState(e) == JState(e.sess, 0, 0, 0)

\* A token: the stored state is taken out of the table, then merged.
TakeByToken(w, h, realmOk) ==
    /\ pc[w] = "idle"
    /\ h \in issued /\ Stored(table, h) /\ table[h].kind = "token"
    /\ table' = GetAndDelete(table, h)
    /\ Goto(w, "loading")
    /\ req' = [req EXCEPT ![w] =
                  [via |-> "token", handle |-> h, realmOk |-> realmOk]]
    /\ state' = [state EXCEPT ![w] = MergeState(table[h])]
    /\ UNCHANGED <<used, issued, active, begun, events, pause, runs>>

\* A resume id: the stored state itself is continued, Exp included.
TakeByResume(w, h, realmOk) ==
    /\ pc[w] = "idle"
    /\ h \in issued /\ Stored(table, h) /\ table[h].kind = "suspended"
    /\ table' = GetAndDelete(table, h)
    /\ Goto(w, "loading")
    /\ req' = [req EXCEPT ![w] =
                  [via |-> "resume", handle |-> h, realmOk |-> realmOk]]
    /\ state' = [state EXCEPT ![w] =
                    JState(table[h].sess, table[h].exp, 0, table[h].wait)]
    /\ UNCHANGED <<used, issued, active, begun, events, pause, runs>>

\* The jti of a token given as a resume id: its state is taken out of the table and, not
\* being suspended, refused.
ResumeToken(w, h) ==
    /\ pc[w] = "idle"
    /\ h \in issued /\ Stored(table, h) /\ table[h].kind = "token"
    /\ table' = GetAndDelete(table, h)
    /\ UNCHANGED <<used, issued, active, begun, events, pc, req, state, pause, runs>>

\* The journey is loaded after the state was taken ...
LoadJourney(w) ==
    /\ pc[w] = "loading"
    /\ active /\ req[w].realmOk
    /\ Goto(w, "checking")
    /\ UNCHANGED <<table, used, issued, active, begun, events, req, state,
                   pause, runs>>

\* ... so a journey that is inactive, of another realm or cannot be loaded, or a context
\* that cannot be decrypted, costs the client the state.
RejectJourney(w) ==
    /\ pc[w] = "loading"
    /\ Return(w)
    /\ UNCHANGED <<table, used, issued, active, begun, events, runs>>

-----------------------------------------------------------------------------
(***************************************************************************)
(* InvokeJourney up to the execution.                                      *)
(***************************************************************************)

(***************************************************************************)
(* ValidateProvided refused the inputs: a token's state goes back under    *)
(* its old jti, for the Exp in hand, and the client gets a client error.   *)
(* Inputs of a resume are not validated.                                   *)
(***************************************************************************)
RestoreOnClientError(w) ==
    /\ pc[w] = "checking" /\ req[w].via = "token"
    /\ table' = Store(table, req[w].handle, "token", state[w].sess,
                      state[w].exp, 0, state[w].exp)
    /\ Return(w)
    /\ UNCHANGED <<used, issued, active, begun, events, runs>>

(***************************************************************************)
(* The request ends here with nothing restored and no terminal event: the  *)
(* store refuses the state of a token, a new flow was sent inputs nobody   *)
(* asked for, the context of its inputs cannot be decrypted, or the random *)
(* source fails.                                                           *)
(***************************************************************************)
Abandon(w) ==
    /\ pc[w] = "checking"
    /\ Return(w)
    /\ UNCHANGED <<table, used, issued, active, begun, events, runs>>

\* The state gets a fresh jti and is executed.
Execute(w, id) ==
    /\ pc[w] = "checking"
    /\ id \notin used
    /\ used' = used \cup {id}
    /\ runs' = [h \in Handles |-> runs[h] + IF Holds(w, h) THEN 1 ELSE 0]
    /\ Goto(w, "running")
    /\ pause' = [pause EXCEPT ![w] =
                    [id |-> id, kind |-> "token", ttl |-> 0]]
    /\ UNCHANGED <<table, issued, active, begun, events, req, state>>

-----------------------------------------------------------------------------
(***************************************************************************)
(* executeJourney: the effects of the steps.  A journey resumed before the *)
(* target of its WaitUntil step executes that step again, so it can only   *)
(* wait again.                                                             *)
(***************************************************************************)

Running(w) == pc[w] = "running" /\ state[w].wait = 0

\* The execution is over without a pause: listeners get one terminal event.
End(w) ==
    /\ events' = [events EXCEPT ![state[w].sess] = @ + 1]
    /\ Return(w)
    /\ UNCHANGED <<table, used, issued, active, begun, runs>>

ExtendExp(w, m) ==
    /\ Running(w)
    /\ state[w].ext # m
    /\ state' = [state EXCEPT ![w] =
                    JState(state[w].sess, state[w].exp, m, state[w].wait)]
    /\ UNCHANGED <<table, used, issued, active, begun, events, pc, req, pause,
                   runs>>

\* A terminal step with nothing left to return to, or the stack ran empty.
Finish(w) == Running(w) /\ End(w)

\* A step failed, or a frame's journey was deactivated in the meantime.
Fail(w) == pc[w] = "running" /\ End(w)

\* The extension is consumed when the pause is prepared.
PreparePause(w, id, kind, exp, wait) ==
    /\ pause' = [pause EXCEPT ![w] =
                    [id |-> id, kind |-> kind, ttl |-> exp + state[w].ext]]
    /\ state' = [state EXCEPT ![w] =
                    JState(state[w].sess, state[w].exp, 0, wait)]
    /\ UNCHANGED <<table, issued, active, begun, events, req, runs>>

\* pauseJourney for inputs: under the jti, for Exp.
AskInput(w) ==
    /\ Running(w)
    /\ Goto(w, "signing")
    /\ PreparePause(w, pause[w].id, "token", state[w].exp, 0)
    /\ UNCHANGED used

(***************************************************************************)
(* pauseJourney for SuspendFlow: a resume id replaces the jti and the      *)
(* step's own expiration replaces Exp.                                     *)
(***************************************************************************)
SuspendWith(w, id, exp, wait) ==
    /\ id \notin used
    /\ used' = used \cup {id}
    /\ Goto(w, "storing")
    /\ PreparePause(w, id, "suspended", exp, wait)

SuspendFlow(w, id) == Running(w) /\ SuspendWith(w, id, SuspendExp, 0)

\* WaitUntil: the state lives for the rest of the wait plus the journey's Exp.
WaitUntil(w, id, wait) ==
    /\ Running(w)
    /\ SuspendWith(w, id, wait + state[w].exp, wait)

WaitAgain(w, id) ==
    /\ pc[w] = "running" /\ state[w].wait > 0
    /\ SuspendWith(w, id, state[w].wait + state[w].exp, state[w].wait)

\* Faulty Sign: the token is handed out before its state is stored.
SignAndReturnToken(w) ==
    /\ pc[w] = "signing"
    /\ Goto(w, "storing")
    /\ issued' = issued \cup {pause[w].id}
    /\ UNCHANGED <<table, used, active, begun, events, req, state, pause, runs>>

Sign(w) ==
    /\ pc[w] = "signing"
    /\ Goto(w, "storing")
    /\ UNCHANGED <<table, used, issued, active, begun, events, req, state,
                   pause, runs>>

\* The signing key could not be saved: an error, and a terminal event.
SignFails(w) == pc[w] = "signing" /\ End(w)

\* The state is stored before its token or resume id is returned.
StorePaused(w) ==
    /\ pc[w] = "storing"
    /\ table' = Store(table, pause[w].id, pause[w].kind, state[w].sess,
                      state[w].exp, state[w].wait, pause[w].ttl)
    /\ issued' = issued \cup {pause[w].id}
    /\ Return(w)
    /\ UNCHANGED <<used, active, begun, events, runs>>

\* Faulty StoreFails: the failure is reported although the state was written.
StoreFailsLate(w) ==
    /\ pc[w] = "storing"
    /\ table' = Store(table, pause[w].id, pause[w].kind, state[w].sess,
                      state[w].exp, state[w].wait, pause[w].ttl)
    /\ events' = [events EXCEPT ![state[w].sess] = @ + 1]
    /\ Return(w)
    /\ UNCHANGED <<used, issued, active, begun, runs>>

\* The store refuses: the client gets an error instead of the handle.
StoreFails(w) == pc[w] = "storing" /\ End(w)

-----------------------------------------------------------------------------
(***************************************************************************)
(* Everybody else.                                                         *)
(***************************************************************************)

\* A tick of the clock: stored entries age and waits come closer.
Tick ==
    /\ table' = Aged(table)
    /\ state' = [w \in Workers |->
                    JState(state[w].sess, state[w].exp, state[w].ext,
                           Sooner(state[w].wait))]
    /\ table' # table \/ state' # state
    /\ UNCHANGED <<used, issued, active, begun, events, pc, req, pause, runs>>

\* An administrator deactivates or reactivates the journey.
ToggleActive ==
    /\ active' = ~active
    /\ UNCHANGED <<table, used, issued, begun, events, pc, req, state, pause,
                   runs>>

\* The process restarts: the requests and the in-memory table are lost.
Restart ==
    /\ table' = EmptyTable
    /\ pc' = [w \in Workers |-> "idle"]
    /\ req' = [w \in Workers |-> NoReq]
    /\ state' = [w \in Workers |-> NoState]
    /\ pause' = [w \in Workers |-> NoPause]
    /\ UNCHANGED <<used, issued, active, begun, events, runs>>

Take(w) ==
    \/ \E h \in Handles, ok \in BOOLEAN :
          TakeByToken(w, h, ok) \/ TakeByResume(w, h, ok)
    \/ \E h \in Handles : ResumeToken(w, h)

Load(w) == LoadJourney(w) \/ RejectJourney(w)

Check(w) ==
    \/ RestoreOnClientError(w) \/ Abandon(w)
    \/ \E id \in Handles : Execute(w, id)

Step(w) ==
    \/ Finish(w) \/ Fail(w) \/ AskInput(w)
    \/ \E id \in Handles : SuspendFlow(w, id) \/ WaitAgain(w, id)
    \/ \E id \in Handles, wait \in Waits : WaitUntil(w, id, wait)

Pause(w) == Sign(w) \/ SignFails(w) \/ StorePaused(w) \/ StoreFails(w)

\* What a worker does with a request it has accepted.
Handle(w) == Load(w) \/ Check(w) \/ Step(w) \/ Pause(w)

Next ==
    \/ \E w \in Workers, s \in Sessions : StartNew(w, s)
    \/ \E w \in Workers, m \in Extensions : ExtendExp(w, m)
    \/ \E w \in Workers : Take(w) \/ Handle(w)
    \/ Tick \/ ToggleActive \/ Restart

Spec == Init /\ [][Next]_vars

-----------------------------------------------------------------------------
(***************************************************************************)
(* Properties.                                                             *)
(***************************************************************************)

(***************************************************************************)
(* A handle starts at most one execution however many requests present it  *)
(* at once, and once it did, no table entry and no request still has it:   *)
(* GetAndDelete is atomic, and the fresh jti comes before the execution.   *)
(***************************************************************************)
AtMostOneRun ==
    \A h \in Handles :
        /\ runs[h] <= 1
        /\ runs[h] = 1 => ~Stored(table, h) /\ \A w \in Workers : ~Holds(w, h)

\* Where the state of a session is: in the table or in a worker's hands.
Copies(s) ==
    {<<"table", h>> : h \in {g \in Handles :
                              Stored(table, g) /\ table[g].sess = s}}
    \cup {<<"worker", w>> : w \in {v \in Workers : state[v].sess = s}}

(***************************************************************************)
(* A journey run never forks: its state exists in one place at most, it    *)
(* gets at most one terminal event, and after that event nothing is left   *)
(* that could be resumed (a terminal result is never persisted).           *)
(***************************************************************************)
NoFork ==
    \A s \in Sessions :
        /\ Cardinality(Copies(s)) <= 1
        /\ events[s] <= 1
        /\ events[s] = 1 => Copies(s) = {}

\* The life of a handle as a client sees it.
HandleStatus ==
    [h \in Handles |->
        IF Stored(table, h) THEN "live"
        ELSE IF \E w \in Workers : Holds(w, h) THEN "taken"
        ELSE IF h \in issued THEN "gone"
        ELSE "unissued"]

C == INSTANCE Continuations WITH status <- HandleStatus, runs <- runs

(***************************************************************************)
(* The handles behave as one-shot continuations: one is issued together    *)
(* with its stored state, taken by one request at a time, given back on a  *)
(* client error, and never comes back once run, dropped or expired.        *)
(***************************************************************************)
OneShotHandles == C!Spec
=============================================================================
