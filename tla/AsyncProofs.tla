---------------------------- MODULE AsyncProofs ----------------------------
(***************************************************************************)
(* Proofs about Async, for every program of asynchronous steps: the types, *)
(* the truth of the answers and the agreement on what is shared.           *)
(***************************************************************************)
EXTENDS Async, SequenceTheorems, TLAPS

(***************************************************************************)
(* The inductive invariant, by tasks and by steps.                         *)
(***************************************************************************)
Fresh(k) == k > at \/ (k = at /\ main = "run")
Waiting(k) == main = "wait" /\ at = k
Last == contexts[Len(contexts)]

\* What has a result is on its way to be sent or is done; what an ALL has written is in
\* the newest container as long as the step waits, and when it has answered "true".
TaskOK(t) ==
    /\ task[t] \in {"none", "ready", "cloned", "running", "sending", "done"}
    /\ result[t] \in {"none", "ok", "error"}
    /\ home[t] \in 0..Len(contexts)
    /\ Fresh(t[1]) => task[t] = "none"
    /\ Kind(t) \in WaitKinds => (result[t] = "none" <=> task[t] \in {"none", "ready", "cloned", "running"})
    /\ Kind(t) \in WaitKinds /\ Waiting(t[1]) /\ task[t] \in {"cloned", "running"}
         => home[t] = Len(contexts)
    /\ Waiting(t[1]) \/ answer[t[1]] = "true" =>
         (Kind(t) = "ALL" /\ Behaviour(t) = "writes" /\ result[t] = "ok" => t \in Last)

\* The results of a step: sent once, by tasks that are done; an ANY that still waits
\* has received failures only.
ResultsOK(k) ==
    /\ channel[k] \cap received[k] = {} /\ channel[k] \cup received[k] \subseteq Of(k)
    /\ \A t \in channel[k] \cup received[k] : task[t] = "done" /\ (program[k].kind \in WaitKinds)
    /\ Waiting(k) /\ program[k].kind = "ANY" => \A t \in received[k] : result[t] = "error"

\* AnswersAreTrue, of one step.
AnswerOK(k) ==
    program[k].kind \in WaitKinds =>
        LET ok == {t \in Of(k) : result[t] = "ok"}
            bad == {t \in Of(k) : result[t] = "error"}
        IN  /\ answer[k] = "true" => IF program[k].kind = "ALL" THEN ok = Of(k) ELSE ok # {}
            /\ answer[k] = "false" =>
                 timedOut[k] \/ IF program[k].kind = "ALL" THEN bad # {} ELSE bad = Of(k)

Domains ==
    /\ DOMAIN answer = Steps /\ DOMAIN over = Steps /\ DOMAIN timedOut = Steps
    /\ DOMAIN channel = Steps /\ DOMAIN received = Steps
    /\ DOMAIN task = Tasks /\ DOMAIN result = Tasks /\ DOMAIN home = Tasks

RunOK ==
    /\ program \in Seq(StepConfigs)
    /\ at \in 1..(Len(program) + 1) /\ main \in {"run", "wait", "succeeded", "failed"}
    /\ main = "wait" => at \in Steps
    /\ contexts \in Seq(SUBSET Tasks) /\ Len(contexts) # 0

IndInv ==
    /\ Domains /\ RunOK
    /\ \A t \in Tasks : TaskOK(t)
    /\ \A k \in Steps : ResultsOK(k) /\ AnswerOK(k)

-----------------------------------------------------------------------------
(***************************************************************************)
(* What a step leaves as it is.                                            *)
(***************************************************************************)

\* The program never changes, and nothing that is made of it.
LEMMA SameProgram ==
    ASSUME UNCHANGED program
    PROVE  /\ Steps' = Steps /\ Tasks' = Tasks
           /\ \A k : Of(k)' = Of(k) /\ Unsafe(k)' = Unsafe(k)
           /\ \A t : Kind(t)' = Kind(t) /\ Behaviour(t)' = Behaviour(t)
  BY DEF Steps, Tasks, Of, Unsafe, Kind, Behaviour

\* The tasks of the steps.
LEMMA TaskFields ==
    ASSUME RunOK
    PROVE  /\ Steps = 1..Len(program) /\ Len(program) \in Nat
           /\ \A t \in Tasks : t[1] \in Steps /\ t \in Of(t[1]) /\ Kind(t) = program[t[1]].kind
           /\ \A k \in Steps : \A t \in Of(k) : t \in Tasks /\ t[1] = k /\ Kind(t) = program[k].kind
           /\ \A t \in Tasks : Kind(t) \in {"ALL", "ANY", "SEQUENTLY", "CONCURRENT"}
           /\ Len(contexts) \in Nat \ {0} /\ DOMAIN contexts = 1..Len(contexts)
  <1>1. program \in Seq(StepConfigs) /\ contexts \in Seq(SUBSET Tasks) /\ Len(contexts) # 0
    BY DEF RunOK
  <1>2. /\ Steps = 1..Len(program) /\ Len(program) \in Nat
        /\ \A k \in Steps : program[k] \in StepConfigs
        /\ Len(contexts) \in Nat \ {0} /\ DOMAIN contexts = 1..Len(contexts)
    BY <1>1, LenProperties DEF Steps
  <1>3. \A k \in Steps : program[k].kind \in {"ALL", "ANY", "SEQUENTLY", "CONCURRENT"}
    BY <1>2 DEF StepConfigs, WaitKinds
  <1> QED  BY <1>2, <1>3 DEF Tasks, Of, Kind

\* A task that does nothing.
LEMMA KeepTask ==
    ASSUME RunOK, UNCHANGED program, NEW t \in Tasks, TaskOK(t),
           task'[t] = task[t], result'[t] = result[t], home'[t] = home[t],
           Fresh(t[1])' => Fresh(t[1]),
           Waiting(t[1])' => Waiting(t[1]) /\ Len(contexts') = Len(contexts),
           answer'[t[1]] = "true" => answer[t[1]] = "true" \/ Waiting(t[1]) \/ Kind(t) \notin WaitKinds,
           Len(contexts) \in Nat, Len(contexts') \in Nat, Len(contexts') >= Len(contexts),
           t \in Last => t \in Last'
    PROVE  TaskOK(t)'
  <1>1. Kind(t)' = Kind(t) /\ Behaviour(t)' = Behaviour(t)
    BY SameProgram
  <1>2. Kind(t) = "ALL" => Kind(t) \in WaitKinds
    BY DEF WaitKinds
  <1>3. home'[t] \in 0..Len(contexts')
    BY DEF TaskOK
  <1> QED  BY <1>1, <1>2, <1>3 DEF TaskOK

\* Results stay, and so does what is done.
Settled(k) ==
    \A t \in Of(k) : /\ result[t] # "none" => result'[t] = result[t]
                     /\ task[t] = "done" => task'[t] = "done"

\* A step that receives nothing.
LEMMA KeepResults ==
    ASSUME RunOK, UNCHANGED program, NEW k \in Steps, ResultsOK(k),
           channel'[k] = channel[k], received'[k] = received[k],
           program[k].kind \in WaitKinds => Settled(k),
           Waiting(k)' => Waiting(k)
    PROVE  ResultsOK(k)'
  <1>1. Of(k)' = Of(k)
    BY SameProgram
  <1>2. program[k].kind = "ANY" => program[k].kind \in WaitKinds
    BY DEF WaitKinds
  <1> QED  BY <1>1, <1>2 DEF ResultsOK, Settled

\* A step that has answered, or has not.
LEMMA KeepAnswer ==
    ASSUME UNCHANGED program, NEW k \in Steps, AnswerOK(k), answer'[k] = answer[k],
           timedOut'[k] = timedOut[k], program[k].kind \in WaitKinds => Settled(k)
    PROVE  AnswerOK(k)'
  <1>1. Of(k)' = Of(k)
    BY SameProgram
  <1> QED  BY <1>1 DEF AnswerOK, Settled

\* The parts make the invariant.
LEMMA Together ==
    ASSUME UNCHANGED program, Domains', RunOK', \A t \in Tasks : TaskOK(t)',
           \A k \in Steps : ResultsOK(k)' /\ AnswerOK(k)'
    PROVE  IndInv'
  BY SameProgram DEF IndInv

\* The run ends or nothing happens to it, and to its tasks neither.
LEMMA QuietStep ==
    ASSUME IndInv,
           UNCHANGED <<program, at, answer, timedOut, contexts, task, result, home, channel, received>>,
           main' = main \/ main' \in {"succeeded", "failed"},
           DOMAIN over' = Steps
    PROVE  IndInv'
  <1>1. RunOK /\ Domains
    BY DEF IndInv
  <1>2. \A k : (Fresh(k)' => Fresh(k)) /\ (Waiting(k)' => Waiting(k))
    BY DEF Fresh, Waiting
  <1>3. ASSUME NEW t \in Tasks PROVE TaskOK(t)'
    <2>1. TaskOK(t)
      BY DEF IndInv, TaskOK
    <2>2. Len(contexts) \in Nat /\ Last' = Last
      BY <1>1, TaskFields DEF Last
    <2> QED  BY <1>1, <1>2, <2>1, <2>2, KeepTask
  <1>4. ASSUME NEW k \in Steps PROVE ResultsOK(k)' /\ AnswerOK(k)'
    <2>1. ResultsOK(k) /\ AnswerOK(k) /\ Settled(k)
      BY DEF IndInv, Settled
    <2> QED  BY <1>1, <1>2, <2>1, KeepResults, KeepAnswer
  <1>5. RunOK' /\ Domains'
    BY <1>1, SameProgram DEF RunOK, Domains
  <1> QED  BY <1>3, <1>4, <1>5, Together

-----------------------------------------------------------------------------
(***************************************************************************)
(* The run.                                                                *)
(***************************************************************************)

\* The containers after a wrap.
LEMMA Wrapped ==
    ASSUME RunOK, UNCHANGED program, Wrap
    PROVE  /\ contexts' \in Seq(SUBSET Tasks) /\ Len(contexts') = Len(contexts) + 1 /\ Len(contexts) \in Nat
           /\ Last' = Last
  <1>1. contexts \in Seq(SUBSET Tasks) /\ Len(contexts) # 0 /\ Len(contexts) \in Nat
    BY TaskFields DEF RunOK
  <1>2. contexts[Len(contexts)] \in SUBSET Tasks
    BY <1>1, ElementOfSeq
  <1> QED  BY <1>1, <1>2, AppendProperties DEF Wrap, Last

\* AsyncWait.Execute starts its children.
LEMMA StartWaitStep ==
    ASSUME IndInv, StartWait
    PROVE  IndInv'
  <1>1. /\ main = "run" /\ at \in Steps /\ main' = "wait" /\ Wrap
        /\ UNCHANGED <<program, at, answer, over, timedOut, result, home, channel, received>>
        /\ task' = [t \in Tasks |-> IF t \in Of(at) THEN "ready" ELSE task[t]]
        /\ program[at].kind \in WaitKinds
    BY DEF StartWait
  <1>2. RunOK /\ Domains
    BY DEF IndInv
  <1>3. \A k \in Steps : /\ (Fresh(k)' => Fresh(k) /\ k # at) /\ (Waiting(k)' => k = at)
                         /\ Fresh(at)
    BY <1>1, <1>2, TaskFields DEF Fresh, Waiting, RunOK
  <1>4. ASSUME NEW t \in Tasks PROVE TaskOK(t)'
    <2>1. TaskOK(t) /\ t[1] \in Steps
      BY <1>2, TaskFields DEF IndInv
    <2>2. CASE t \in Of(at)
      <3>1. t[1] = at /\ Kind(t) \in WaitKinds /\ Kind(t)' = Kind(t)
        BY <1>1, <1>2, <2>2, TaskFields, SameProgram
      <3>2. task[t] = "none" /\ result[t] = "none"
        BY <1>1, <1>3, <2>1, <3>1 DEF TaskOK
      <3>3. task'[t] = "ready" /\ result'[t] = "none" /\ home'[t] = home[t]
        BY <1>1, <2>2, <3>2
      <3>4. home[t] \in 0..Len(contexts') /\ ~Fresh(t[1])'
        BY <1>1, <1>2, <1>3, <2>1, <3>1, Wrapped DEF TaskOK
      <3> QED  BY <1>1, <2>1, <3>1, <3>3, <3>4 DEF TaskOK
    <2>3. CASE t \notin Of(at)
      <3>1. t[1] # at
        BY <1>1, <2>3 DEF Of
      <3>2. task'[t] = task[t] /\ ~Waiting(t[1])' /\ (Fresh(t[1])' => Fresh(t[1]))
        BY <1>1, <1>3, <2>1, <2>3, <3>1
      <3>4. Len(contexts) \in Nat /\ Len(contexts') = Len(contexts) + 1 /\ Last' = Last
        BY <1>1, <1>2, Wrapped
      <3> QED  BY <1>1, <1>2, <2>1, <3>2, <3>4, KeepTask
    <2> QED  BY <2>2, <2>3
  <1>5. ASSUME NEW k \in Steps PROVE ResultsOK(k)' /\ AnswerOK(k)'
    <2>1. ResultsOK(k) /\ AnswerOK(k)
      BY DEF IndInv
    <2>2. CASE k # at
      <3>1. Settled(k) /\ ~Waiting(k)'
        BY <1>1, <1>2, <1>3, <2>2, TaskFields DEF Settled
      <3> QED  BY <1>1, <1>2, <2>1, <3>1, KeepResults, KeepAnswer
    <2>3. CASE k = at
      <3>1. \A t \in Of(k) : t \in Tasks /\ task[t] = "none" /\ result[t] = "none"
        BY <1>1, <1>2, <1>3, <2>3, TaskFields DEF IndInv, TaskOK
      <3>2. channel[k] \cup received[k] = {} /\ Settled(k)
        BY <2>1, <3>1 DEF ResultsOK, Settled
      <3>3. ResultsOK(k)'
        BY <1>1, <3>2 DEF ResultsOK
      <3> QED  BY <1>1, <2>1, <3>2, <3>3, KeepAnswer
    <2> QED  BY <2>2, <2>3
  <1>6. RunOK' /\ Domains'
    BY <1>1, <1>2, Wrapped, SameProgram DEF RunOK, Domains
  <1> QED  BY <1>1, <1>4, <1>5, <1>6, Together

\* AsyncExec.Execute starts its children and goes on.
LEMMA StartExecStep ==
    ASSUME IndInv, StartExec
    PROVE  IndInv'
  <1>1. /\ main = "run" /\ at \in Steps /\ at' = at + 1 /\ Wrap
        /\ UNCHANGED <<program, main, over, timedOut, result, channel, received>>
        /\ task' = [t \in Tasks |->
                  IF t \in Of(at) /\ (t[2] = 1 \/ program[at].kind = "CONCURRENT") THEN "ready"
                  ELSE task[t]]
        /\ home' = [t \in Tasks |-> IF t \in Of(at) THEN Len(contexts) + 1 ELSE home[t]]
        /\ answer' = [answer EXCEPT ![at] = "true"]
        /\ program[at].kind \notin WaitKinds
    BY DEF StartExec
  <1>2. RunOK /\ Domains
    BY DEF IndInv
  <1>3. /\ Len(contexts) \in Nat /\ Len(contexts') = Len(contexts) + 1 /\ Last' = Last
        /\ contexts' \in Seq(SUBSET Tasks)
    BY <1>1, <1>2, Wrapped
  <1>4. \A k \in Steps : (Fresh(k)' => Fresh(k) /\ k # at) /\ ~Waiting(k)'
    BY <1>1, <1>2, TaskFields DEF Fresh, Waiting, RunOK
  <1>5. ASSUME NEW t \in Tasks PROVE TaskOK(t)'
    <2>1. TaskOK(t) /\ t[1] \in Steps /\ Kind(t)' = Kind(t)
      BY <1>1, <1>2, TaskFields, SameProgram DEF IndInv, TaskOK
    <2>2. CASE t \in Of(at)
      <3>1. t[1] = at /\ Kind(t) \notin WaitKinds /\ Kind(t) # "ALL"
        BY <1>1, <1>2, <2>2, TaskFields DEF WaitKinds
      <3>2. task'[t] \in {"none", "ready", "cloned", "running", "sending", "done"} /\ result'[t] = result[t]
            /\ home'[t] = Len(contexts')
        BY <1>1, <1>3, <2>1, <2>2 DEF TaskOK
      <3>3. ~Fresh(t[1])' /\ home'[t] \in 0..Len(contexts')
        BY <1>3, <1>4, <2>1, <3>1, <3>2
      <3> QED  BY <2>1, <3>1, <3>2, <3>3 DEF TaskOK
    <2>3. CASE t \notin Of(at)
      <3>1. t[1] # at
        BY <1>1, <2>3 DEF Of
      <3>2. task'[t] = task[t] /\ home'[t] = home[t] /\ answer'[t[1]] = answer[t[1]]
        BY <1>1, <1>2, <2>1, <2>3, <3>1 DEF Domains
      <3> QED  BY <1>1, <1>2, <1>3, <1>4, <2>1, <3>2, KeepTask
    <2> QED  BY <2>2, <2>3
  <1>6. ASSUME NEW k \in Steps PROVE ResultsOK(k)' /\ AnswerOK(k)'
    <2>1. ResultsOK(k) /\ AnswerOK(k)
      BY DEF IndInv
    <2>2. program[k].kind \in WaitKinds => Settled(k) /\ answer'[k] = answer[k]
      BY <1>1, <1>2, TaskFields DEF Settled, Domains
    <2>3. ResultsOK(k)'
      BY <1>1, <1>2, <1>4, <2>1, <2>2, KeepResults
    <2>4. AnswerOK(k)'
      BY <1>1, <2>1, <2>2, KeepAnswer DEF AnswerOK
    <2> QED  BY <2>3, <2>4
  <1>7. RunOK' /\ Domains'
    BY <1>1, <1>2, <1>3, TaskFields, SameProgram DEF RunOK, Domains
  <1> QED  BY <1>1, <1>5, <1>6, <1>7, Together

\* A step that waits answers.
LEMMA AnswerStep ==
    ASSUME IndInv, main = "wait", NEW outcome \in {"true", "false"}, AnswerWait(outcome),
           UNCHANGED <<program, contexts, task, result, home>>,
           DOMAIN timedOut' = Steps, DOMAIN channel' = Steps, DOMAIN received' = Steps,
           \A k \in Steps \ {at} : /\ channel'[k] = channel[k] /\ received'[k] = received[k]
                                   /\ timedOut'[k] = timedOut[k],
           channel'[at] \cap received'[at] = {},
           channel'[at] \cup received'[at] \subseteq channel[at] \cup received[at],
           program[at].kind = "ALL" /\ outcome = "true" => \A t \in Of(at) : result[t] = "ok",
           program[at].kind = "ANY" /\ outcome = "true" => \E t \in Of(at) : result[t] = "ok",
           program[at].kind = "ALL" /\ outcome = "false" => timedOut'[at] \/ \E t \in Of(at) : result[t] = "error",
           program[at].kind = "ANY" /\ outcome = "false" => timedOut'[at] \/ \A t \in Of(at) : result[t] = "error"
    PROVE  IndInv'
  <1>1. RunOK /\ Domains /\ at \in Steps
    BY DEF IndInv, RunOK
  <1>2. /\ answer' = [answer EXCEPT ![at] = outcome] /\ over' = [over EXCEPT ![at] = TRUE]
        /\ \/ at' = at + 1 /\ main' = "run"
           \/ at' = at /\ main' = "failed"
    BY DEF AnswerWait, EmitEnd
  <1>3. \A k \in Steps : (Fresh(k)' => Fresh(k)) /\ ~Waiting(k)'
    BY <1>1, <1>2, TaskFields DEF Fresh, Waiting, RunOK
  <1>4. ASSUME NEW t \in Tasks PROVE TaskOK(t)'
    <2>1. TaskOK(t) /\ t[1] \in Steps
      BY <1>1, TaskFields DEF IndInv, TaskOK
    <2>2. answer'[t[1]] = "true" => answer[t[1]] = "true" \/ Waiting(t[1])
      BY <1>1, <1>2, <2>1 DEF Waiting, Domains
    <2>3. Len(contexts) \in Nat /\ Last' = Last
      BY <1>1, TaskFields DEF Last
    <2> QED  BY <1>1, <1>3, <2>1, <2>2, <2>3, KeepTask
  <1>5. ASSUME NEW k \in Steps PROVE ResultsOK(k)' /\ AnswerOK(k)'
    <2>1. ResultsOK(k) /\ AnswerOK(k) /\ Settled(k) /\ Of(k)' = Of(k)
      BY SameProgram DEF IndInv, Settled
    <2>2. CASE k # at
      <3>1. answer'[k] = answer[k]
        BY <1>1, <1>2, <2>2 DEF Domains
      <3> QED  BY <1>1, <1>3, <2>1, <2>2, <3>1, KeepResults, KeepAnswer
    <2>3. CASE k = at
      <3>0. PICK n : n = at
        OBVIOUS
      <3>1. k = n /\ answer'[n] = outcome /\ program' = program
        BY <1>1, <1>2, <2>3, <3>0 DEF Domains
      <3>2. ResultsOK(k)'
        BY <1>3, <2>1, <3>0, <3>1 DEF ResultsOK
      <3>3. \A t \in Of(k) : result'[t] = result[t]
        OBVIOUS
      <3>4. AnswerOK(k)'
        BY <2>1, <3>0, <3>1, <3>3 DEF AnswerOK, WaitKinds
      <3> QED  BY <3>2, <3>4
    <2> QED  BY <2>2, <2>3
  <1>6. RunOK'
    BY <1>1, <1>2, TaskFields, SameProgram DEF RunOK
  <1>7. DOMAIN over' = Steps
    BY <1>1, <1>2 DEF Domains
  <1>8. Domains'
    BY <1>1, <1>2, <1>7, SameProgram DEF Domains
  <1> QED  BY <1>4, <1>5, <1>6, <1>8, Together

\* A result is received and the step waits on.
LEMMA ReceiveStep ==
    ASSUME IndInv, main = "wait",
           UNCHANGED <<program, at, main, answer, over, timedOut, contexts, task, result, home>>,
           NEW t \in channel[at],
           channel' = [channel EXCEPT ![at] = @ \ {t}], received' = [received EXCEPT ![at] = @ \cup {t}],
           program[at].kind = "ANY" => result[t] = "error"
    PROVE  IndInv'
  <1>1. RunOK /\ Domains /\ at \in Steps
    BY DEF IndInv, RunOK
  <1>2. \A k : (Fresh(k)' <=> Fresh(k)) /\ (Waiting(k)' <=> Waiting(k))
    BY DEF Fresh, Waiting
  <1>3. ASSUME NEW s \in Tasks PROVE TaskOK(s)'
    <2>1. TaskOK(s)
      BY DEF IndInv, TaskOK
    <2>2. Len(contexts) \in Nat /\ Last' = Last
      BY <1>1, TaskFields DEF Last
    <2> QED  BY <1>1, <1>2, <2>1, <2>2, KeepTask
  <1>4. ASSUME NEW k \in Steps PROVE ResultsOK(k)' /\ AnswerOK(k)'
    <2>1. ResultsOK(k) /\ AnswerOK(k) /\ Settled(k) /\ Of(k)' = Of(k)
      BY SameProgram DEF IndInv, Settled
    <2>2. AnswerOK(k)'
      BY <2>1, KeepAnswer
    <2>3. CASE k # at
      BY <1>1, <1>2, <2>1, <2>2, <2>3, KeepResults DEF Domains
    <2>4. CASE k = at
      <3>1. PICK x, y : x = channel[k] /\ y = received[k]
        OBVIOUS
      <3>2. channel'[k] = x \ {t} /\ received'[k] = y \cup {t} /\ t \in x
        BY <1>1, <2>4, <3>1 DEF Domains
      <3> QED  BY <1>2, <2>1, <2>2, <2>4, <3>1, <3>2 DEF ResultsOK
    <2> QED  BY <2>3, <2>4
  <1>5. RunOK' /\ Domains'
    BY <1>1, SameProgram DEF RunOK, Domains
  <1> QED  BY <1>3, <1>4, <1>5, Together

\* PromiseAll and PromiseAny.
LEMMA WaitSteps ==
    ASSUME IndInv, AnswerEmpty \/ ReceiveAll \/ TimeoutAll \/ ReceiveAny \/ TimeoutAny
    PROVE  IndInv'
  <1>1. RunOK /\ Domains /\ main = "wait" /\ at \in Steps
    BY DEF IndInv, RunOK, AnswerEmpty, ReceiveAll, TimeoutAll, ReceiveAny, TimeoutAny
  <1>2. UNCHANGED <<program, contexts, task, result, home>>
    BY DEF AnswerEmpty, ReceiveAll, TimeoutAll, ReceiveAny, TimeoutAny, taskVars, sharedVars
  <1>3. ResultsOK(at) /\ AnswerOK(at)
    BY <1>1 DEF IndInv
  <1>4. /\ channel[at] \cap received[at] = {}
        /\ \A t \in channel[at] \cup received[at] : t \in Of(at) /\ task[t] = "done"
        /\ program[at].kind \in WaitKinds =>
             \A t \in Of(at) : task[t] = "done" => result[t] \in {"ok", "error"}
    <2>1. channel[at] \cap received[at] = {} /\ \A t \in channel[at] \cup received[at] : t \in Of(at) /\ task[t] = "done"
      BY <1>3 DEF ResultsOK
    <2>2. ASSUME program[at].kind \in WaitKinds, NEW t \in Of(at), task[t] = "done"
          PROVE  result[t] \in {"ok", "error"}
      <3>1. t \in Tasks /\ Kind(t) \in WaitKinds
        BY <1>1, <2>2, TaskFields
      <3> QED  BY <2>2, <3>1 DEF IndInv, TaskOK
    <2> QED  BY <2>1, <2>2
  <1>5. CASE AnswerEmpty
    <2>1. UNCHANGED <<channel, received, timedOut>> /\ Of(at) = {}
      BY <1>5 DEF AnswerEmpty, taskVars
    <2>2. PICK o \in {"true", "false"} : o = IF program[at].kind = "ALL" THEN "true" ELSE "false"
      OBVIOUS
    <2>3. AnswerWait(o)
      BY <1>5, <2>2 DEF AnswerEmpty
    <2> QED  BY <1>1, <1>2, <1>4, <2>1, <2>2, <2>3, AnswerStep DEF Domains
  <1>6. CASE TimeoutAll \/ TimeoutAny
    <2>1. /\ UNCHANGED <<channel, received>> /\ timedOut' = [timedOut EXCEPT ![at] = TRUE]
          /\ AnswerWait("false")
      BY <1>6 DEF TimeoutAll, TimeoutAny, taskVars
    <2>2. /\ timedOut'[at] = TRUE /\ DOMAIN timedOut' = Steps
          /\ \A k \in Steps \ {at} : timedOut'[k] = timedOut[k]
      BY <1>1, <2>1 DEF Domains
    <2> QED  BY <1>1, <1>2, <1>4, <2>1, <2>2, AnswerStep DEF Domains
  <1>7. CASE ReceiveAll \/ ReceiveAny
    <2>1. UNCHANGED timedOut /\ program[at].kind \in {"ALL", "ANY"}
      BY <1>7 DEF ReceiveAll, ReceiveAny
    <2>2. PICK t \in channel[at] :
            /\ channel' = [channel EXCEPT ![at] = @ \ {t}]
            /\ received' = [received EXCEPT ![at] = @ \cup {t}]
            /\ \/ /\ ReceiveAll
                  /\ IF received'[at] # Of(at) THEN UNCHANGED <<at, main, answer, over, audience, due>>
                     ELSE AnswerWait(IF \A s \in Of(at) : result[s] = "ok" THEN "true" ELSE "false")
               \/ /\ ReceiveAny
                  /\ CASE result[t] = "ok" -> AnswerWait("true")
                       [] result[t] # "ok" /\ received'[at] = Of(at) -> AnswerWait("false")
                       [] OTHER -> UNCHANGED <<at, main, answer, over, audience, due>>
      BY <1>7 DEF ReceiveAll, ReceiveAny
    <2>3. t \in Of(at) /\ result[t] \in {"ok", "error"}
      BY <1>4, <2>1, <2>2 DEF WaitKinds
    <2>4. /\ DOMAIN channel' = Steps /\ DOMAIN received' = Steps
          /\ \A k \in Steps \ {at} : channel'[k] = channel[k] /\ received'[k] = received[k]
          /\ channel'[at] = channel[at] \ {t} /\ received'[at] = received[at] \cup {t}
      BY <1>1, <2>2 DEF Domains
    <2>5. /\ channel'[at] \cap received'[at] = {}
          /\ channel'[at] \cup received'[at] \subseteq channel[at] \cup received[at]
      BY <1>4, <2>2, <2>4
    <2>6. received'[at] = Of(at) => \A s \in Of(at) : result[s] \in {"ok", "error"}
      BY <1>4, <2>1, <2>3, <2>4 DEF WaitKinds
    <2>7. CASE UNCHANGED <<at, main, answer, over>> /\ (program[at].kind = "ANY" => result[t] = "error")
      BY <1>1, <1>2, <2>1, <2>2, <2>7, ReceiveStep
    <2>8. CASE /\ program[at].kind = "ALL" /\ received'[at] = Of(at)
               /\ AnswerWait(IF \A s \in Of(at) : result[s] = "ok" THEN "true" ELSE "false")
      <3>1. PICK o \in {"true", "false"} : o = IF \A s \in Of(at) : result[s] = "ok" THEN "true" ELSE "false"
        OBVIOUS
      <3>2. AnswerWait(o)
        BY <2>8, <3>1
      <3>3. o = "true" => \A s \in Of(at) : result[s] = "ok"
        BY <3>1
      <3>4. o = "false" => \E s \in Of(at) : result[s] = "error"
        BY <2>6, <2>8, <3>1
      <3> QED  BY <1>1, <1>2, <2>1, <2>4, <2>5, <2>8, <3>2, <3>3, <3>4, AnswerStep DEF Domains
    <2>9. CASE program[at].kind = "ANY" /\ result[t] = "ok" /\ AnswerWait("true")
      BY <1>1, <1>2, <2>1, <2>3, <2>4, <2>5, <2>9, AnswerStep DEF Domains
    <2>10. CASE program[at].kind = "ANY" /\ result[t] # "ok" /\ received'[at] = Of(at) /\ AnswerWait("false")
      <3>1. \A s \in received[at] : result[s] = "error"
        BY <1>1, <1>3, <2>10 DEF ResultsOK, Waiting
      <3>2. \A s \in Of(at) : result[s] = "error"
        BY <2>3, <2>4, <2>10, <3>1
      <3> QED  BY <1>1, <1>2, <2>1, <2>4, <2>5, <2>10, <3>2, AnswerStep DEF Domains
    <2>11. CASE ReceiveAll
      <3>1. program[at].kind = "ALL"
        BY <2>11 DEF ReceiveAll
      <3>2. ~ReceiveAny
        BY <3>1 DEF ReceiveAny
      <3> QED  BY <2>2, <2>7, <2>8, <2>11, <3>1, <3>2
    <2>12. CASE ReceiveAny
      <3>1. program[at].kind = "ANY"
        BY <2>12 DEF ReceiveAny
      <3>2. ~ReceiveAll
        BY <3>1 DEF ReceiveAll
      <3> QED  BY <2>2, <2>3, <2>7, <2>9, <2>10, <2>12, <3>1, <3>2
    <2> QED  BY <1>7, <2>11, <2>12
  <1> QED  BY <1>5, <1>6, <1>7

\* The other steps of the run, of its timers and of its listeners.
LEMMA OtherSteps ==
    ASSUME IndInv,
           \/ Refuse \/ Succeed \/ Spawn \/ Timeout \/ RequestOver
           \/ \E l \in Listeners : Register(l) \/ Unregister(l) \/ CallListener(l) \/ ListenerReturns(l)
           \/ UNCHANGED vars
    PROVE  IndInv'
  <1>1. DOMAIN over = Steps
    BY DEF IndInv, Domains
  <1>2. CASE Refuse \/ Succeed
    BY <1>1, <1>2, QuietStep DEF Refuse, Succeed, EmitEnd, taskVars, sharedVars
  <1>3. CASE Timeout \/ RequestOver
    <2>1. DOMAIN over' = Steps
      BY <1>1, <1>3 DEF Timeout, RequestOver
    <2> QED  BY <1>3, <2>1, QuietStep DEF Timeout, RequestOver, taskVars, sharedVars
  <1>4. CASE \/ Spawn
             \/ \E l \in Listeners : Register(l) \/ Unregister(l) \/ CallListener(l) \/ ListenerReturns(l)
    BY <1>1, <1>4, QuietStep DEF Spawn, Register, Unregister, CallListener, ListenerReturns, runVars, taskVars, sharedVars
  <1>5. CASE UNCHANGED vars
    BY <1>1, <1>5, QuietStep DEF vars
  <1> QED  BY <1>2, <1>3, <1>4, <1>5

-----------------------------------------------------------------------------
(***************************************************************************)
(* The children.                                                           *)
(***************************************************************************)

\* What a child may do to the containers: it writes to some of them.
Written ==
    /\ contexts' \in Seq(SUBSET Tasks) /\ Len(contexts') = Len(contexts)
    /\ \A t \in Tasks : t \in Last => t \in Last'

\* One child takes a step, the others none.
LEMMA ChildStep ==
    ASSUME IndInv, NEW t \in Tasks, UNCHANGED runVars, UNCHANGED received, Domains', Written,
           \A s \in Tasks \ {t} : /\ result'[s] = result[s] /\ home'[s] = home[s]
                                  /\ task'[s] = task[s] \/ TaskOK(s)',
           TaskOK(t)',
           \A s \in Tasks : Kind(s) \in WaitKinds =>
              /\ result[s] # "none" => result'[s] = result[s]
              /\ task[s] = "done" => task'[s] = "done",
           UNCHANGED channel \/ (/\ channel' = [channel EXCEPT ![t[1]] = @ \cup {t}]
                                 /\ task[t] # "done" /\ task'[t] = "done" /\ Kind(t) \in WaitKinds)
    PROVE  IndInv'
  <1>1. RunOK /\ Domains
    BY DEF IndInv
  <1>2. UNCHANGED <<program, at, main, answer, over, gone, timedOut>>
    BY DEF runVars
  <1>3. \A k : (Fresh(k)' <=> Fresh(k)) /\ (Waiting(k)' <=> Waiting(k))
    BY <1>2 DEF Fresh, Waiting
  <1>4. ASSUME NEW s \in Tasks \ {t}, task'[s] = task[s] PROVE TaskOK(s)'
    <2>1. TaskOK(s)
      BY DEF IndInv
    <2>3. Len(contexts) \in Nat /\ Len(contexts') = Len(contexts) /\ (s \in Last => s \in Last')
      BY <1>1, TaskFields DEF Written
    <2> QED  BY <1>1, <1>2, <1>3, <1>4, <2>1, <2>3, KeepTask
  <1>5. \A s \in Tasks : TaskOK(s)'
    BY <1>4
  <1>6. ASSUME NEW k \in Steps PROVE ResultsOK(k)' /\ AnswerOK(k)'
    <2>1. ResultsOK(k) /\ AnswerOK(k) /\ Of(k)' = Of(k)
      BY <1>2, SameProgram DEF IndInv
    <2>2. program[k].kind \in WaitKinds => Settled(k)
      BY <1>1, TaskFields DEF Settled
    <2>3. AnswerOK(k)'
      BY <1>2, <2>1, <2>2, KeepAnswer
    <2>4. CASE channel'[k] = channel[k]
      BY <1>1, <1>2, <1>3, <2>1, <2>2, <2>3, <2>4, KeepResults
    <2>5. CASE channel'[k] # channel[k]
      <3>1. k = t[1] /\ channel'[k] = channel[k] \cup {t} /\ task[t] # "done" /\ task'[t] = "done"
            /\ Kind(t) \in WaitKinds
        BY <1>1, <2>5, TaskFields DEF Domains
      <3>2. t \in Of(k) /\ program[k].kind \in WaitKinds /\ t \notin received[k]
        BY <1>1, <2>1, <3>1, TaskFields DEF ResultsOK
      <3>3. Settled(k) /\ \A s \in channel[k] \cup received[k] : s \in Of(k) /\ task'[s] = "done"
        BY <2>1, <2>2, <3>2 DEF Settled, ResultsOK
      <3>4. ASSUME Waiting(k), program[k].kind = "ANY", NEW s \in received[k] PROVE result'[s] = "error"
        <4>1. result[s] = "error" /\ s \in Of(k)
          BY <2>1, <3>4 DEF ResultsOK
        <4> QED  BY <3>3, <4>1 DEF Settled
      <3>5. ResultsOK(k)'
        BY <1>2, <1>3, <2>1, <3>1, <3>2, <3>3, <3>4 DEF ResultsOK
      <3> QED  BY <2>3, <3>5
    <2> QED  BY <2>4, <2>5
  <1>7. RunOK'
    BY <1>1, <1>2, SameProgram DEF RunOK, Written
  <1> QED  BY <1>2, <1>5, <1>6, <1>7, Together

\* Nothing is written.
LEMMA NotWritten ==
    ASSUME IndInv, UNCHANGED contexts
    PROVE  Written
  BY DEF IndInv, RunOK, Written, Last

\* What is known of a child that is not fresh.
LEMMA ChildHere ==
    ASSUME IndInv, NEW t \in Tasks
    PROVE  /\ RunOK /\ Domains /\ TaskOK(t) /\ t[1] \in Steps /\ Len(contexts) \in Nat
           /\ UNCHANGED runVars => /\ (Fresh(t[1])' <=> Fresh(t[1])) /\ (Waiting(t[1])' <=> Waiting(t[1]))
                                   /\ UNCHANGED <<program, answer>>
                                   /\ Kind(t)' = Kind(t) /\ Behaviour(t)' = Behaviour(t)
                                   /\ Tasks' = Tasks /\ Steps' = Steps
           /\ ResultsOK(t[1]) /\ AnswerOK(t[1]) /\ t \in Of(t[1]) /\ Kind(t) = program[t[1]].kind
  <1>1. RunOK /\ Domains /\ TaskOK(t)
    BY DEF IndInv
  <1>2. t[1] \in Steps /\ Len(contexts) \in Nat /\ t \in Of(t[1]) /\ Kind(t) = program[t[1]].kind
    BY <1>1, TaskFields
  <1>3. ASSUME UNCHANGED runVars
        PROVE  /\ (Fresh(t[1])' <=> Fresh(t[1])) /\ (Waiting(t[1])' <=> Waiting(t[1]))
               /\ UNCHANGED <<program, answer>>
               /\ Kind(t)' = Kind(t) /\ Behaviour(t)' = Behaviour(t)
               /\ Tasks' = Tasks /\ Steps' = Steps
    BY <1>3, SameProgram DEF runVars, Fresh, Waiting
  <1> QED  BY <1>1, <1>2, <1>3 DEF IndInv

\* cloneTransaction
LEMMA CloneStep ==
    ASSUME IndInv, NEW t \in Tasks, Clone(t)
    PROVE  IndInv'
  <1>1. /\ task[t] = "ready" /\ task' = [task EXCEPT ![t] = "cloned"]
        /\ home' = [home EXCEPT ![t] = IF Kind(t) \in WaitKinds THEN Len(contexts) ELSE @]
        /\ UNCHANGED runVars /\ UNCHANGED <<result, channel, received, contexts>>
    BY DEF Clone
  <1>2. /\ RunOK /\ Domains /\ TaskOK(t) /\ Len(contexts) \in Nat /\ Kind(t)' = Kind(t)
        /\ (Fresh(t[1])' <=> Fresh(t[1])) /\ Tasks' = Tasks /\ Steps' = Steps /\ UNCHANGED <<program, answer>>
    BY <1>1, ChildHere
  <1>3. Domains'
    BY <1>1, <1>2 DEF Domains, runVars
  <1>4. /\ task'[t] = "cloned" /\ home'[t] \in {Len(contexts), home[t]}
        /\ Kind(t) \in WaitKinds => home'[t] = Len(contexts)
        /\ \A s \in Tasks \ {t} : task'[s] = task[s] /\ home'[s] = home[s]
    BY <1>1, <1>2 DEF Domains
  <1>5. home'[t] \in 0..Len(contexts)
    BY <1>2, <1>4 DEF TaskOK
  <1>6. Kind(t) = "ALL" => Kind(t) \in WaitKinds
    BY DEF WaitKinds
  <1>7. TaskOK(t)'
    BY <1>1, <1>2, <1>4, <1>5, <1>6 DEF TaskOK
  <1> QED  BY <1>1, <1>3, <1>4, <1>7, NotWritten, ChildStep

\* The copy is given a step.
LEMMA NameChildStep ==
    ASSUME IndInv, NEW t \in Tasks, NameChild(t)
    PROVE  IndInv'
  <1>1. /\ task[t] = "cloned" /\ task' = [task EXCEPT ![t] = "running"]
        /\ UNCHANGED runVars /\ UNCHANGED <<result, home, channel, received, contexts>>
    BY DEF NameChild, sharedVars
  <1>2. /\ RunOK /\ Domains /\ TaskOK(t) /\ Kind(t)' = Kind(t) /\ Behaviour(t)' = Behaviour(t)
        /\ (Fresh(t[1])' <=> Fresh(t[1])) /\ (Waiting(t[1])' <=> Waiting(t[1]))
        /\ Tasks' = Tasks /\ Steps' = Steps /\ UNCHANGED <<program, answer>>
    BY <1>1, ChildHere
  <1>3. Domains'
    BY <1>1, <1>2 DEF Domains, runVars
  <1>4. task'[t] = "running" /\ \A s \in Tasks \ {t} : task'[s] = task[s]
    BY <1>1, <1>2 DEF Domains
  <1>5. Last' = Last
    BY <1>1 DEF Last
  <1>6. TaskOK(t)'
    BY <1>1, <1>2, <1>4, <1>5 DEF TaskOK
  <1> QED  BY <1>1, <1>3, <1>4, <1>6, NotWritten, ChildStep

\* A child returns.
LEMMA ReturnStep ==
    ASSUME IndInv, NEW t \in Tasks, NEW r \in {"ok", "error"}, Return(t, r),
           task[t] \in {"ready", "running"}, UNCHANGED runVars, UNCHANGED <<home, channel, received>>,
           Written,
           Waiting(t[1]) /\ Kind(t) = "ALL" /\ Behaviour(t) = "writes" /\ r = "ok" => t \in Last'
    PROVE  IndInv'
  <1>1. /\ RunOK /\ Domains /\ TaskOK(t) /\ Len(contexts) \in Nat /\ Kind(t)' = Kind(t)
        /\ Behaviour(t)' = Behaviour(t)
        /\ (Fresh(t[1])' <=> Fresh(t[1])) /\ (Waiting(t[1])' <=> Waiting(t[1]))
        /\ Tasks' = Tasks /\ Steps' = Steps /\ UNCHANGED <<program, answer>>
        /\ AnswerOK(t[1]) /\ t \in Of(t[1]) /\ Kind(t) = program[t[1]].kind
    BY ChildHere
  <1>2. task' = [task EXCEPT ![t] = "sending"] /\ result' = [result EXCEPT ![t] = r]
    BY DEF Return
  <1>3. Domains'
    BY <1>1, <1>2 DEF Domains, runVars
  <1>4. /\ task'[t] = "sending" /\ result'[t] = r
        /\ \A s \in Tasks \ {t} : task'[s] = task[s] /\ result'[s] = result[s]
    BY <1>1, <1>2 DEF Domains
  <1>5. Kind(t) \in WaitKinds => result[t] = "none"
    BY <1>1 DEF TaskOK
  <1>6. Kind(t) = "ALL" => answer[t[1]] # "true"
    BY <1>1, <1>5 DEF AnswerOK, WaitKinds
  <1>7. TaskOK(t)'
    BY <1>1, <1>4, <1>6 DEF TaskOK, Written
  <1> QED  BY <1>3, <1>4, <1>5, <1>7, ChildStep

\* A child fails, writes or claims.
LEMMA ReturnSteps ==
    ASSUME IndInv, NEW t \in Tasks, Fail(t) \/ Write(t) \/ Claim(t)
    PROVE  IndInv'
  <1>1. /\ UNCHANGED runVars /\ UNCHANGED <<home, channel, received>> /\ task[t] \in {"ready", "running"}
    BY DEF Fail, Write, Claim
  <1>2. RunOK /\ Domains /\ TaskOK(t) /\ Len(contexts) \in Nat
    BY ChildHere
  <1>4. CASE Fail(t)
    <2>1. Return(t, "error") /\ UNCHANGED contexts
      BY <1>4 DEF Fail, sharedVars
    <2> QED  BY <1>1, <2>1, NotWritten, ReturnStep
  <1>5. CASE Claim(t)
    <2>1. /\ Return(t, "ok") /\ UNCHANGED contexts /\ Behaviour(t) = "claims"
      BY <1>5 DEF Claim
    <2> QED  BY <1>1, <2>1, NotWritten, ReturnStep
  <1>6. CASE Write(t)
    <2>1. /\ Return(t, "ok") /\ task[t] = "running"
          /\ contexts' = [g \in DOMAIN contexts |->
                            IF g = home[t] \/ ~copies THEN contexts[g] \cup {t} ELSE contexts[g]]
      BY <1>6 DEF Write
    <2>2. PICK n \in Nat \ {0} : n = Len(contexts) /\ DOMAIN contexts = 1..n /\ contexts \in [1..n -> SUBSET Tasks]
      BY <1>2, LenProperties DEF RunOK
    <2>3. contexts' \in [1..n -> SUBSET Tasks]
      BY <2>1, <2>2
    <2>4. contexts' \in Seq(SUBSET Tasks) /\ Len(contexts') = n
      BY <2>2, <2>3, SeqDef, LenProperties
    <2>5. Last' = contexts'[n] /\ Last = contexts[n] /\ contexts[n] \subseteq contexts'[n]
      BY <2>1, <2>2, <2>4 DEF Last
    <2>6. Written
      BY <2>2, <2>4, <2>5 DEF Written
    <2>7. ASSUME Waiting(t[1]), Kind(t) = "ALL" PROVE t \in Last'
      <3>1. home[t] = n
        BY <1>2, <2>1, <2>2, <2>7 DEF TaskOK, WaitKinds
      <3> QED  BY <2>1, <2>2, <2>5, <3>1
    <2> QED  BY <1>1, <2>1, <2>6, <2>7, ReturnStep
  <1> QED  BY <1>4, <1>5, <1>6

\* The result of a waited child is sent, or dropped.
LEMMA SendSteps ==
    ASSUME IndInv, NEW t \in Tasks, SendAll(t) \/ SendAny(t)
    PROVE  IndInv'
  <1>1. /\ UNCHANGED runVars /\ UNCHANGED <<result, home, received, contexts>>
        /\ task[t] = "sending" /\ task' = [task EXCEPT ![t] = "done"] /\ Kind(t) \in WaitKinds
        /\ UNCHANGED channel \/ channel' = [channel EXCEPT ![t[1]] = @ \cup {t}]
    BY DEF SendAll, SendAny, sharedVars, WaitKinds
  <1>2. /\ RunOK /\ Domains /\ TaskOK(t) /\ Kind(t)' = Kind(t) /\ Behaviour(t)' = Behaviour(t)
        /\ (Fresh(t[1])' <=> Fresh(t[1])) /\ (Waiting(t[1])' <=> Waiting(t[1]))
        /\ Tasks' = Tasks /\ Steps' = Steps /\ UNCHANGED <<program, answer>>
    BY <1>1, ChildHere
  <1>3. Domains'
    BY <1>1, <1>2 DEF Domains, runVars
  <1>4. task'[t] = "done" /\ \A s \in Tasks \ {t} : task'[s] = task[s]
    BY <1>1, <1>2 DEF Domains
  <1>5. Last' = Last
    BY <1>1 DEF Last
  <1>6. TaskOK(t)'
    BY <1>1, <1>2, <1>4, <1>5 DEF TaskOK
  <1> QED  BY <1>1, <1>3, <1>4, <1>6, NotWritten, ChildStep

\* A child in the background ends, and the next one starts.
LEMMA EndBackgroundStep ==
    ASSUME IndInv, NEW t \in Tasks, EndBackground(t)
    PROVE  IndInv'
  <1>1. /\ UNCHANGED runVars /\ UNCHANGED <<result, home, channel, received, contexts>>
        /\ task[t] = "sending" /\ Kind(t) \notin WaitKinds
        /\ task' = Background(t, [task EXCEPT ![t] = "done"])
    BY DEF EndBackground, sharedVars
  <1>2. /\ RunOK /\ Domains /\ TaskOK(t) /\ Tasks' = Tasks /\ Steps' = Steps /\ UNCHANGED <<program, answer>>
    BY <1>1, ChildHere
  <1>3. /\ DOMAIN task' = Tasks
        /\ \A s \in Tasks : \/ task'[s] = task[s]
                            \/ s = t /\ task'[s] = "done"
                            \/ s = Following(t) /\ task'[s] = "ready"
    BY <1>1, <1>2 DEF Background, Domains
  <1>4. Domains'
    BY <1>1, <1>2, <1>3 DEF Domains, runVars
  <1>5. ASSUME NEW s \in Tasks, Kind(s) \notin WaitKinds, task'[s] \in {"ready", "done"}, s[1] = t[1]
        PROVE  TaskOK(s)'
    <2>1. /\ TaskOK(s) /\ Kind(s)' = Kind(s) /\ (Fresh(s[1])' <=> Fresh(s[1]))
      BY <1>1, <1>5, ChildHere
    <2>2. Kind(s) # "ALL" /\ ~Fresh(t[1])
      BY <1>1, <1>2, <1>5 DEF WaitKinds, TaskOK
    <2> QED  BY <1>1, <1>5, <2>1, <2>2 DEF TaskOK
  <1>6. \A s \in Tasks : s = t \/ s = Following(t) => s[1] = t[1] /\ Kind(s) \notin WaitKinds
    BY <1>1 DEF Following, Kind
  <1>7. \A s \in Tasks : task'[s] # task[s] => TaskOK(s)' /\ Kind(s) \notin WaitKinds
    BY <1>3, <1>5, <1>6
  <1>8. TaskOK(t)'
    <2>1. task'[t] \in {"ready", "done"}
      BY <1>1, <1>2, <1>3 DEF Background, Domains
    <2> QED  BY <1>5, <1>6, <2>1
  <1> QED  BY <1>1, <1>4, <1>7, <1>8, NotWritten, ChildStep

-----------------------------------------------------------------------------
(***************************************************************************)
(* The interaction values: all children are given the one map of the run.  *)
(***************************************************************************)

\* A child that runs has the map of the run, and was told what that map says; a child in
\* the background has it since its step was started.
ValueOK(t) ==
    /\ handle[t] \in {0, shared}
    /\ claimed[t] # NoTask => shared # 0 /\ claimed[t] = values[shared]
    /\ task[t] \in {"cloned", "running"} => handle[t] # 0
    /\ Kind(t) \notin WaitKinds /\ t[1] < at => handle[t] # 0
    /\ Kind(t) \notin WaitKinds /\ task[t] # "none" => t[1] < at

ValuesInv ==
    /\ Len(values) \in Nat /\ DOMAIN values = 1..Len(values) /\ shared \in 0..Len(values)
    /\ DOMAIN handle = Tasks /\ DOMAIN claimed = Tasks
    /\ main = "wait" => program[at].kind \in WaitKinds
    /\ \A t \in Tasks : ValueOK(t)

\* TransactionValues.Share: the map that is there stays.
LEMMA Shared ==
    ASSUME Share, Len(values) \in Nat, DOMAIN values = 1..Len(values), shared \in 0..Len(values)
    PROVE  /\ Len(values') \in Nat /\ DOMAIN values' = 1..Len(values')
           /\ shared' \in 1..Len(values')
           /\ shared # 0 => shared' = shared /\ values' = values
  <1>1. CASE shared # 0
    BY <1>1 DEF Share
  <1>2. CASE shared = 0
    <2>1. values' = Append(values, NoTask) /\ shared' = Len(values) + 1
      BY <1>2 DEF Share
    <2>2. Len(values') = Len(values) + 1 /\ DOMAIN values' = 1..(Len(values) + 1)
      BY <2>1
    <2> QED  BY <1>2, <2>1, <2>2
  <1> QED  BY <1>1, <1>2

\* A step that leaves the values alone.
LEMMA KeepValues ==
    ASSUME IndInv, ValuesInv, UNCHANGED <<program, values, shared, handle, claimed>>,
           main' = "wait" => program[at'].kind \in WaitKinds,
           at' = at \/ (at' = at + 1 /\ program[at].kind \in WaitKinds),
           \A t \in Tasks : /\ task'[t] \in {"cloned", "running"} => task[t] \in {"cloned", "running"}
                            /\ \/ Kind(t) \in WaitKinds \/ task'[t] = "none"
                               \/ task[t] # "none" \/ t[1] < at
    PROVE  ValuesInv'
  <1>1. RunOK /\ Tasks' = Tasks /\ at \in Int
    BY SameProgram, TaskFields DEF IndInv, RunOK
  <1>2. ASSUME NEW t \in Tasks PROVE ValueOK(t)'
    <2>1. ValueOK(t) /\ Kind(t)' = Kind(t) /\ t[1] \in Int /\ Kind(t) = program[t[1]].kind
      BY <1>1, SameProgram, TaskFields DEF ValuesInv
    <2>2. Kind(t) \notin WaitKinds /\ t[1] < at' => t[1] < at
      BY <1>1, <2>1
    <2>3. t[1] < at => t[1] < at'
      BY <1>1, <2>1
    <2> QED  BY <2>1, <2>2, <2>3 DEF ValueOK
  <1> QED  BY <1>1, <1>2 DEF ValuesInv

\* The steps of the run that start no children in the background.
LEMMA RunKeepsValues ==
    ASSUME IndInv, ValuesInv,
           \/ Refuse \/ StartWait \/ AnswerEmpty \/ ReceiveAll \/ TimeoutAll \/ ReceiveAny \/ TimeoutAny
           \/ Succeed \/ Spawn \/ Timeout \/ RequestOver
           \/ \E l \in Listeners : Register(l) \/ Unregister(l) \/ CallListener(l) \/ ListenerReturns(l)
           \/ UNCHANGED vars
    PROVE  ValuesInv'
  <1>1. UNCHANGED <<program, values, shared, handle, claimed>>
    BY DEF Refuse, StartWait, AnswerEmpty, ReceiveAll, TimeoutAll, ReceiveAny, TimeoutAny, Succeed, Spawn,
           Timeout, RequestOver, Register, Unregister, CallListener, ListenerReturns, vars, runVars,
           sharedVars, valueVars
  <1>2. main = "wait" => program[at].kind \in WaitKinds
    BY DEF ValuesInv
  <1>3. CASE StartWait
    <2>1. /\ at' = at /\ main' = "wait" /\ program[at].kind \in WaitKinds
          /\ task' = [t \in Tasks |-> IF t \in Of(at) THEN "ready" ELSE task[t]]
      BY <1>3 DEF StartWait
    <2>2. \A t \in Tasks : t \in Of(at) => Kind(t) \in WaitKinds
      BY <2>1 DEF Of, Kind
    <2> QED  BY <1>1, <2>1, <2>2, KeepValues
  <1>4. CASE AnswerEmpty \/ ReceiveAll \/ TimeoutAll \/ ReceiveAny \/ TimeoutAny
    <2>1. /\ main = "wait" /\ UNCHANGED task
          /\ \/ UNCHANGED <<at, main>>
             \/ \E o : AnswerWait(o)
      BY <1>4 DEF AnswerEmpty, ReceiveAll, TimeoutAll, ReceiveAny, TimeoutAny, taskVars
    <2>2. ASSUME NEW o, AnswerWait(o) PROVE main' # "wait" /\ (at' = at \/ at' = at + 1)
      BY <2>2 DEF AnswerWait, EmitEnd
    <2>3. /\ main' = "wait" => at' = at
          /\ at' = at \/ at' = at + 1
      BY <2>1, <2>2
    <2> QED  BY <1>1, <1>2, <2>1, <2>3, KeepValues
  <1>5. CASE \/ Refuse \/ Succeed \/ Spawn \/ Timeout \/ RequestOver \/ UNCHANGED vars
             \/ \E l \in Listeners : Register(l) \/ Unregister(l) \/ CallListener(l) \/ ListenerReturns(l)
    <2>1. UNCHANGED <<at, task>> /\ (main' = main \/ main' \in {"succeeded", "failed"})
      BY <1>5 DEF Refuse, Succeed, Spawn, Timeout, RequestOver, EmitEnd, Register, Unregister,
                  CallListener, ListenerReturns, vars, runVars, taskVars
    <2> QED  BY <1>1, <1>2, <2>1, KeepValues
  <1> QED  BY <1>3, <1>4, <1>5

\* AsyncExec.Execute shares the values with all its children at once.
LEMMA StartExecSharesValues ==
    ASSUME IndInv, ValuesInv, StartExec
    PROVE  ValuesInv'
  <1>1. /\ main' = main /\ main = "run" /\ at \in Steps /\ at' = at + 1 /\ Share /\ UNCHANGED <<program, claimed>>
        /\ handle' = [t \in Tasks |-> IF t \in Of(at) THEN shared' ELSE handle[t]]
        /\ program[at].kind \notin WaitKinds
        /\ task' = [t \in Tasks |->
                  IF t \in Of(at) /\ (t[2] = 1 \/ program[at].kind = "CONCURRENT") THEN "ready"
                  ELSE task[t]]
    BY DEF StartExec
  <1>2. RunOK /\ Tasks' = Tasks /\ at \in Int
    BY <1>1, SameProgram, TaskFields DEF IndInv, RunOK
  <1>3. /\ Len(values') \in Nat /\ DOMAIN values' = 1..Len(values') /\ shared' \in 1..Len(values')
        /\ shared # 0 => shared' = shared /\ values' = values
    BY <1>1, Shared DEF ValuesInv
  <1>4. ASSUME NEW t \in Tasks PROVE ValueOK(t)'
    <2>1. ValueOK(t) /\ Kind(t)' = Kind(t) /\ t[1] \in Int /\ (t \in Of(at) <=> t[1] = at)
      BY <1>1, <1>2, SameProgram, TaskFields DEF ValuesInv, Of
    <2>2. /\ handle'[t] \in {0, shared'} /\ (handle[t] # 0 => handle'[t] # 0)
          /\ t \in Of(at) => handle'[t] # 0
      BY <1>1, <1>3, <2>1 DEF ValueOK
    <2>3. claimed'[t] # NoTask => shared' # 0 /\ claimed'[t] = values'[shared']
      BY <1>1, <1>3, <2>1 DEF ValueOK
    <2>4. task'[t] = task[t] \/ (t \in Of(at) /\ task'[t] = "ready")
      BY <1>1
    <2>5. t[1] < at' <=> t[1] < at \/ t \in Of(at)
      BY <1>1, <1>2, <2>1
    <2> QED  BY <2>1, <2>2, <2>3, <2>4, <2>5 DEF ValueOK
  <1> QED  BY <1>1, <1>2, <1>3, <1>4 DEF ValuesInv

\* A copy shares the values of the run: the first makes them, the others join.
LEMMA CloneSharesValues ==
    ASSUME IndInv, ValuesInv, NEW c \in Tasks, Clone(c)
    PROVE  ValuesInv'
  <1>1. /\ UNCHANGED <<program, at, main, claimed>> /\ task[c] = "ready"
        /\ task' = [task EXCEPT ![c] = "cloned"]
        /\ IF Kind(c) \in WaitKinds THEN Share /\ handle' = [handle EXCEPT ![c] = shared']
           ELSE UNCHANGED <<values, shared, handle>>
    BY DEF Clone, runVars
  <1>2. RunOK /\ Domains /\ Tasks' = Tasks /\ ValueOK(c)
    BY <1>1, SameProgram DEF IndInv, ValuesInv
  <1>3. /\ Len(values') \in Nat /\ DOMAIN values' = 1..Len(values') /\ shared' \in 0..Len(values')
        /\ shared # 0 => shared' = shared /\ values' = values
        /\ DOMAIN handle' = Tasks /\ handle'[c] \in {0, shared'} /\ handle'[c] # 0
        /\ \A t \in Tasks \ {c} : handle'[t] = handle[t]
    <2>1. CASE Kind(c) \in WaitKinds
      BY <1>1, <2>1, Shared DEF ValuesInv
    <2>2. CASE Kind(c) \notin WaitKinds
      BY <1>1, <1>2, <2>2 DEF ValuesInv, ValueOK
    <2> QED  BY <2>1, <2>2
  <1>4. ASSUME NEW t \in Tasks PROVE ValueOK(t)'
    <2>1. ValueOK(t) /\ Kind(t)' = Kind(t)
      BY <1>1, SameProgram DEF ValuesInv
    <2>2. handle'[t] \in {0, shared'} /\ (handle[t] # 0 => handle'[t] # 0)
      BY <1>3, <2>1 DEF ValueOK
    <2>3. claimed'[t] # NoTask => shared' # 0 /\ claimed'[t] = values'[shared']
      BY <1>1, <1>3, <2>1 DEF ValueOK
    <2>4. CASE t = c
      <3>1. task'[t] = "cloned" /\ task[t] # "none" /\ handle'[t] # 0
        BY <1>1, <1>2, <1>3, <2>4 DEF Domains
      <3> QED  BY <1>1, <2>1, <2>2, <2>3, <3>1 DEF ValueOK
    <2>5. CASE t # c
      <3>1. task'[t] = task[t]
        BY <1>1, <1>2, <2>5 DEF Domains
      <3> QED  BY <1>1, <2>1, <2>2, <2>3, <3>1 DEF ValueOK
    <2> QED  BY <2>4, <2>5
  <1> QED  BY <1>1, <1>2, <1>3, <1>4 DEF ValuesInv

\* TransactionValues.LoadOrStore
LEMMA ClaimAgrees ==
    ASSUME IndInv, ValuesInv, NEW c \in Tasks, Claim(c)
    PROVE  ValuesInv'
  <1>1. /\ UNCHANGED <<program, at, main, shared, handle>> /\ task[c] = "running"
        /\ task' = [task EXCEPT ![c] = "sending"]
        /\ values' = [values EXCEPT ![handle[c]] = IF @ = NoTask THEN c ELSE @]
        /\ claimed' = [claimed EXCEPT ![c] = values'[handle[c]]]
    BY DEF Claim, Return, runVars
  <1>2. RunOK /\ Domains /\ Tasks' = Tasks /\ ValueOK(c)
    BY <1>1, SameProgram DEF IndInv, ValuesInv
  <1>3. handle[c] = shared /\ shared \in 1..Len(values)
    BY <1>1, <1>2 DEF ValueOK, ValuesInv
  <1>4. /\ DOMAIN values' = DOMAIN values /\ Len(values') = Len(values)
        /\ values'[shared] = IF values[shared] = NoTask THEN c ELSE values[shared]
    <2>1. DOMAIN values' = 1..Len(values) /\ Len(values) \in Nat
      BY <1>1 DEF ValuesInv
    <2>2. Len(values') = Len(values)
      BY <2>1, <1>1, <1>3 DEF ValuesInv
    <2> QED  BY <1>1, <1>3, <2>1, <2>2 DEF ValuesInv
  <1>5. ASSUME NEW t \in Tasks PROVE ValueOK(t)'
    <2>1. ValueOK(t) /\ Kind(t)' = Kind(t) /\ DOMAIN claimed = Tasks
      BY <1>1, SameProgram DEF ValuesInv
    <2>2. claimed'[t] # NoTask => shared # 0 /\ claimed'[t] = values'[shared]
      <3>1. CASE t = c
        BY <1>1, <1>3, <2>1, <3>1
      <3>2. CASE t # c
        BY <1>1, <1>3, <1>4, <2>1, <3>2 DEF ValueOK
      <3> QED  BY <3>1, <3>2
    <2>3. task'[t] = task[t] \/ (t = c /\ task'[t] = "sending" /\ task[t] = "running")
      BY <1>1, <1>2 DEF Domains
    <2> QED  BY <1>1, <2>1, <2>2, <2>3 DEF ValueOK
  <1> QED  BY <1>1, <1>2, <1>4, <1>5 DEF ValuesInv

\* The other steps of a child.
LEMMA ChildKeepsValues ==
    ASSUME IndInv, ValuesInv, NEW c \in Tasks,
           NameChild(c) \/ Fail(c) \/ Write(c) \/ SendAll(c) \/ SendAny(c) \/ EndBackground(c)
    PROVE  ValuesInv'
  <1>1. UNCHANGED <<program, at, main, values, shared, handle, claimed>>
    BY DEF NameChild, Fail, Write, SendAll, SendAny, EndBackground, runVars, sharedVars, valueVars
  <1>2. Domains /\ ValueOK(c) /\ (main = "wait" => program[at].kind \in WaitKinds)
    BY DEF IndInv, ValuesInv
  <1>3. CASE NameChild(c) \/ Fail(c) \/ Write(c) \/ SendAll(c) \/ SendAny(c)
    <2>1. /\ task[c] # "none"
          /\ \/ task[c] = "cloned" /\ task' = [task EXCEPT ![c] = "running"]
             \/ task' = [task EXCEPT ![c] = "sending"]
             \/ task' = [task EXCEPT ![c] = "done"]
      BY <1>3 DEF NameChild, Fail, Write, SendAll, SendAny, Return
    <2>2. \A t \in Tasks : \/ task'[t] = task[t]
                           \/ /\ t = c /\ task[t] # "none"
                              /\ task'[t] = "running" => task[t] = "cloned"
                              /\ task'[t] # "cloned"
      BY <1>2, <2>1 DEF Domains
    <2> QED  BY <1>1, <1>2, <2>2, KeepValues
  <1>4. CASE EndBackground(c)
    <2>1. task[c] = "sending" /\ Kind(c) \notin WaitKinds /\ task' = Background(c, [task EXCEPT ![c] = "done"])
      BY <1>4 DEF EndBackground
    <2>2. c[1] < at
      BY <1>2, <2>1 DEF ValueOK
    <2>3. \A t \in Tasks : \/ task'[t] = task[t]
                           \/ t = c /\ task[t] # "none" /\ task'[t] = "done"
                           \/ t = Following(c) /\ task'[t] = "ready"
      BY <1>2, <2>1 DEF Background, Domains
    <2>4. \A t \in Tasks : t = Following(c) => t[1] < at
      BY <2>2 DEF Following
    <2> QED  BY <1>1, <1>2, <2>3, <2>4, KeepValues
  <1> QED  BY <1>3, <1>4

-----------------------------------------------------------------------------
(***************************************************************************)
(* The theorems.                                                           *)
(***************************************************************************)

\* Async: the specification keeps the invariant.
THEOREM AsyncInvariant == Spec => []IndInv
  <1>1. ASSUME Init PROVE IndInv
    <2>1. PICK s \in Scenarios : program = s.steps
      BY <1>1 DEF Init
    <2>2. program \in Seq(StepConfigs) /\ Len(program) \in Nat
      BY <2>1, ScenariosAssumption, LenProperties
    <2>3. /\ at = 1 /\ main = "run"
          /\ \A k \in Steps : answer[k] \notin {"true", "false"} /\ channel[k] = {} /\ received[k] = {}
          /\ \A t \in Tasks : /\ task[t] = "none" /\ result[t] = "none" /\ home[t] = 0
      BY <1>1 DEF Init
    <2>4. Domains
      BY <1>1 DEF Init, Domains
    <2>5. contexts \in Seq(SUBSET Tasks) /\ Len(contexts) = 1
      <3>1. PICK S : S = SUBSET Tasks
        OBVIOUS
      <3>2. <<{}>> \in [1..1 -> S]
        BY <3>1
      <3>3. <<{}>> \in Seq(S) /\ Len(<<{}>>) = 1
        BY <3>2, SeqDef
      <3> QED  BY <1>1, <3>1, <3>3 DEF Init
    <2>6. RunOK
      <3>1. at \in 1..(Len(program) + 1) /\ main # "wait"
        BY <2>2, <2>3
      <3> QED  BY <2>2, <2>3, <2>5, <3>1 DEF RunOK
    <2>7. ASSUME NEW t \in Tasks PROVE TaskOK(t)
      <3>1. answer[t[1]] # "true" /\ ~Waiting(t[1])
        BY <2>3, <2>6, TaskFields DEF Waiting
      <3> QED  BY <2>3, <2>5, <3>1 DEF TaskOK
    <2>8. \A k \in Steps : ResultsOK(k) /\ AnswerOK(k)
      BY <2>3 DEF ResultsOK, AnswerOK
    <2> QED  BY <2>4, <2>6, <2>7, <2>8 DEF IndInv
  <1>2. ASSUME IndInv, [Next]_vars PROVE IndInv'
    <2>1. CASE StartWait
      BY <1>2, <2>1, StartWaitStep
    <2>2. CASE StartExec
      BY <1>2, <2>2, StartExecStep
    <2>3. CASE AnswerEmpty \/ ReceiveAll \/ TimeoutAll \/ ReceiveAny \/ TimeoutAny
      BY <1>2, <2>3, WaitSteps
    <2>4. CASE \/ Refuse \/ Succeed \/ Spawn \/ Timeout \/ RequestOver
               \/ \E l \in Listeners : Register(l) \/ Unregister(l) \/ CallListener(l) \/ ListenerReturns(l)
               \/ UNCHANGED vars
      BY <1>2, <2>4, OtherSteps
    <2>5. ASSUME NEW t \in Tasks, Child(t) PROVE IndInv'
      BY <1>2, <2>5, CloneStep, NameChildStep, ReturnSteps, SendSteps, EndBackgroundStep DEF Child
    <2> QED  BY <1>2, <2>1, <2>2, <2>3, <2>4, <2>5 DEF Next, Main
  <1> QED  BY <1>1, <1>2, PTL DEF Spec

\* TransactionValues: the children of a run work on one map, and the first that is
\* copied makes it.
THEOREM OneMapPerRun == Spec => []ValuesInv
  <1>1. ASSUME Init PROVE ValuesInv
    <2>1. /\ values = <<>> /\ shared = 0 /\ main = "run" /\ at = 1
          /\ handle = [t \in Tasks |-> 0] /\ claimed = [t \in Tasks |-> NoTask]
          /\ task = [t \in Tasks |-> "none"]
      BY <1>1 DEF Init
    <2>2. \A t \in Tasks : ~(t[1] < at)
      <3>1. PICK s \in Scenarios : program = s.steps
        BY <1>1 DEF Init
      <3>2. Steps = 1..Len(program) /\ Len(program) \in Nat
        BY <3>1, ScenariosAssumption, LenProperties DEF Steps
      <3> QED  BY <2>1, <3>2 DEF Tasks
    <2>3. Len(values) = 0 /\ DOMAIN values = 1..0
      BY <2>1
    <2> QED  BY <2>1, <2>2, <2>3 DEF ValuesInv, ValueOK
  <1>2. ASSUME IndInv, ValuesInv, [Next]_vars PROVE ValuesInv'
    <2>1. CASE StartExec
      BY <1>2, <2>1, StartExecSharesValues
    <2>2. ASSUME NEW t \in Tasks, Child(t) PROVE ValuesInv'
      BY <1>2, <2>2, CloneSharesValues, ClaimAgrees, ChildKeepsValues DEF Child
    <2> QED  BY <1>2, <2>1, <2>2, RunKeepsValues DEF Next, Main
  <1> QED  BY <1>1, <1>2, AsyncInvariant, PTL DEF Spec

\* The types: a result is sent once and received once, and by a child of its step; every
\* child works on a container and on values that there are.
THEOREM AsyncTypeCorrect == Spec => []TypeOK
  <1>1. ASSUME IndInv, ValuesInv PROVE TypeOK
    <2>1. \A t \in Tasks : handle[t] \in 0..Len(values)
      BY <1>1 DEF ValuesInv, ValueOK
    <2> QED  BY <1>1, <2>1 DEF IndInv, RunOK, TaskOK, ResultsOK, TypeOK
  <1> QED  BY <1>1, AsyncInvariant, OneMapPerRun, PTL

\* AsyncWait: what it answers is what its children returned, or that its context ended.
THEOREM AnswersTellTheTruth == Spec => []AnswersAreTrue
  <1>1. ASSUME IndInv PROVE AnswersAreTrue
    BY <1>1 DEF IndInv, AnswerOK, AnswersAreTrue
  <1> QED  BY <1>1, AsyncInvariant, PTL

\* The contexts and the interaction values: what children of ALL wrote stays in sight of
\* the run, and all children agree on who has claimed a key.
THEOREM ChildrenShareState == Spec => []SharedStateAgrees
  <1>1. ASSUME IndInv, ValuesInv PROVE SharedStateAgrees
    <2>1. RunOK /\ \A t \in Tasks : TaskOK(t)
      BY <1>1 DEF IndInv
    <2>2. ASSUME NEW t \in Tasks, Kind(t) = "ALL", answer[t[1]] = "true", Behaviour(t) = "writes"
          PROVE  t \in Last
      <3>1. t[1] \in Steps /\ t \in Of(t[1]) /\ program[t[1]].kind = "ALL"
        BY <2>1, <2>2, TaskFields
      <3>2. result[t] = "ok"
        BY <1>1, <2>2, <3>1 DEF IndInv, AnswerOK, WaitKinds
      <3> QED  BY <2>1, <2>2, <3>2 DEF TaskOK
    <2>3. WaitedWritesVisible
      BY <2>2 DEF WaitedWritesVisible, Last
    <2>4. OneClaim
      BY <1>1 DEF OneClaim, ValuesInv, ValueOK
    <2> QED  BY <2>3, <2>4 DEF SharedStateAgrees
  <1> QED  BY <1>1, AsyncInvariant, OneMapPerRun, PTL
=============================================================================
