---------------------------- MODULE EngineProofs ----------------------------
(***************************************************************************)
(* Proofs about Engine, for every set of journeys: the types, the call     *)
(* stack that three records keep of SubJourneys, and the pauses.           *)
(***************************************************************************)
EXTENDS Engine, SequenceTheorems, TLAPS

(***************************************************************************)
(* The types, and when there are unanswered requests: in a Chain behind a  *)
(* child that asked, and from then on to the next invocation.              *)
(***************************************************************************)
Frames == [j : Journeys, s : Steps \cup {Empty}]
Calls == [at : Steps, end : {"open", "true", "false", "lost"}]
Asking == {"Form", "Choice", "Metadata", "SuspendFlow", "Chain"}

AskedInTime ==
    /\ mode = "frames" \/ (mode = "exec" /\ chain = 0) => asked = {}
    /\ mode = "settle" /\ asked # {} => Conf[cur.s].type \in Asking

TypeInv == TypeOK /\ AskedInTime /\ calls \in Seq(Calls)

(***************************************************************************)
(* The calls.  n frames of the stack belong to calls; the marks tell how   *)
(* the child of the last call has ended.                                   *)
(***************************************************************************)
Stacked(n) == Len(stack) = n /\ \A i \in 1 .. Len(calls) : i <= n => stack[i].s = calls[i].at

CallsOK ==
    \A i \in 1 .. Len(calls) : /\ Conf[calls[i].at].type = "SubJourney"
                               /\ i < Len(calls) => calls[i].end = "open"

Marked(v) == \A s \in Steps : marks[s] = IF calls # <<>> /\ s = Last(calls).at THEN v ELSE "unset"
Unmarked == \A s \in Steps : marks[s] = "unset"
MarksExact == IF ChildEnded THEN Marked(Last(calls).end) ELSE Unmarked

Called == Conf[cur.s].type = "SubJourney" /\ out = Empty
EndsHere == Conf[cur.s].type \in {"Success", "Failure", "End"} /\ stack # <<>>

ExecOK ==
    /\ IF ChildEnded THEN Stacked(Len(calls) - 1) /\ cur.s = Last(calls).at ELSE Stacked(Len(calls))
    /\ MarksExact

WaitOK ==
    /\ Stacked(IF ChildEnded THEN Len(calls) ELSE Len(calls) + 1)
    /\ MarksExact

SettleOK ==
    /\ ~ChildEnded
    /\ Stacked(IF Called THEN Len(calls) + 1 ELSE Len(calls))
    /\ IF EndsHere THEN Marked(EndValue(Conf[cur.s])) ELSE Unmarked

CallInv ==
    /\ CallsOK
    /\ ~ResultLost =>
         /\ mode # "over" => PropsMatchCalls
         /\ mode = "exec" => ExecOK
         /\ mode = "settle" => SettleOK
         /\ mode = "paused" \/ (mode = "frames" /\ stack # <<>>) => WaitOK
         /\ mode = "frames" /\ stack = <<>> => calls = <<>>
         /\ result \in {"succeeded", "failed"} => calls = <<>>

(***************************************************************************)
(* The pauses: whoever has asked, and who has suspended the run.           *)
(***************************************************************************)
AskedHere ==
    \A r \in asked : /\ r.type = "Form" => r.at = AnyStep
                     /\ r.type = "Choice" => r.at = Id(cur.s) \/ Conf[cur.s].type = "Chain"

\* A SuspendFlow step, or one in a Chain at a place in S, has suspended the run.
SuspendedIn(f, S) ==
    /\ f.s \in Steps
    /\ \/ Conf[f.s].type = "SuspendFlow" /\ suspended = Id(f.s)
       \/ /\ Conf[f.s].type = "Chain"
          /\ \E i \in S : /\ i \in 1 .. Len(Conf[f.s].inner)
                          /\ Conf[f.s].inner[i].type = "SuspendFlow"
                          /\ suspended = <<f.j, i>>

\* In a Chain the places before the next child if this invocation suspends the run, and
\* otherwise those not yet executed.
SuspendingPlaces == IF byId THEN {i \in Nat : i < chain} ELSE {i \in Nat : chain <= i}

PauseInv ==
    /\ AskedHere
    /\ mode = "paused" => stack # <<>> /\ Last(stack) = cur
    /\ mode = "frames" \/ (mode = "exec" /\ chain = 0) => ~byId
    /\ byId => suspended # AnyStep \/ mode = "over"
    /\ byId => asked # {}
    /\ suspended # AnyStep =>
         /\ mode = "frames" => stack # <<>> /\ SuspendedIn(Last(stack), Nat)
         /\ mode = "exec" => SuspendedIn(cur, SuspendingPlaces)
         /\ mode \in {"settle", "paused"} => byId /\ SuspendedIn(cur, Nat)

-----------------------------------------------------------------------------
(***************************************************************************)
(* Sequences: a non-empty sequence is what lies under its last element     *)
(* and that element.                                                       *)
(***************************************************************************)

\* What Front and Last take from a stack.
LEMMA TopOfSequence ==
    ASSUME NEW S, NEW q \in Seq(S), q # <<>>
    PROVE  /\ Len(q) \in Nat \ {0}
           /\ Last(q) = q[Len(q)] /\ Last(q) \in S
           /\ Front(q) \in Seq(S) /\ Len(Front(q)) = Len(q) - 1
           /\ \A i \in 1 .. Len(q) - 1 : Front(q)[i] = q[i]
<1>1. Len(q) \in Nat \ {0}
  BY EmptySeq, SMT
<1>2. Last(q) = q[Len(q)] /\ Last(q) \in S
  BY <1>1 DEF Last
<1>3. PICK n \in Nat : n = Len(q) - 1
  BY <1>1
<1>4. Front(q) \in Seq(S)
  BY DEF Front
<1>5. Len(Front(q)) = Len(q) - 1
  BY <1>3 DEF Front
<1>6. \A i \in 1 .. Len(q) - 1 : Front(q)[i] = q[i]
  BY DEF Front
<1> QED  BY <1>1, <1>2, <1>4, <1>5, <1>6

\* What a sequence becomes when two elements are put on top.
LEMMA TwoMore ==
    ASSUME NEW S, NEW q \in Seq(S), NEW a \in S, NEW b \in S, NEW c, c = q \o <<a, b>>
    PROVE  /\ Len(c) = Len(q) + 2 /\ c[Len(q) + 1] = a
           /\ \A i \in 1 .. Len(q) : c[i] = q[i]
<1>1. <<a, b>> \in Seq(S) /\ Len(<<a, b>>) = 2 /\ <<a, b>>[1] = a
  OBVIOUS
<1>2. Len(q) \in Nat
  OBVIOUS
<1>3. PICK top \in Seq(S) : top = <<a, b>>
  BY <1>1
<1>4. Len(q \o top) = Len(q) + 2
  BY <1>1, <1>3
<1>5. (q \o top)[Len(q) + 1] = a
  BY <1>1, <1>2, <1>3
<1>6. \A i \in 1 .. Len(q) : (q \o top)[i] = q[i]
  BY <1>1, <1>2, <1>3
<1> QED  BY <1>3, <1>4, <1>5, <1>6

-----------------------------------------------------------------------------
(***************************************************************************)
(* Executions: what every Execute finds and what its return does.          *)
(***************************************************************************)

\* The step that executes is the current one, or a child of the current Chain.
LEMMA ExecutingStep ==
    ASSUME TypeInv, NEW t, Executing(t)
    PROVE  /\ mode = "exec" /\ result = "none"
           /\ ConfigOK(Here) /\ Here.type = t
           /\ chain = 0 => Here = Conf[cur.s] /\ HereId = Id(cur.s)
           /\ chain # 0 => /\ Conf[cur.s].type = "Chain"
                           /\ t \notin {"Chain", "SubJourney"}
                           /\ chain \in 1 .. Len(Conf[cur.s].inner)
                           /\ Here = Conf[cur.s].inner[chain]
<1>1. mode = "exec" /\ Here.type = t /\ chain <= Len(Children)
  BY DEF Executing
<1>2. cur.s \in Steps /\ chain \in Nat /\ result = "none"
  BY <1>1 DEF TypeInv, TypeOK
<1>3. CASE chain = 0
  BY <1>1, <1>2, <1>3, ConfAssumption DEF Here, HereId
<1>4. CASE chain # 0
  <2>1. Conf[cur.s].type = "Chain"
    BY <1>4 DEF TypeInv, TypeOK
  <2>2. Children = Conf[cur.s].inner /\ Here = Conf[cur.s].inner[chain]
    BY <1>4 DEF Children, Here
  <2>3. chain \in 1 .. Len(Conf[cur.s].inner)
    BY <1>1, <1>2, <1>4, <2>1, <2>2, ConfAssumption
  <2>4. ConfigOK(Here) /\ Here.type \notin {"Chain", "SubJourney"}
    BY <1>2, <2>1, <2>2, <2>3, ConfAssumption
  <2> QED  BY <1>1, <1>2, <1>4, <2>1, <2>2, <2>3, <2>4
<1> QED  BY <1>3, <1>4

\* A return settles the current step, or goes on with the next child of the Chain.
LEMMA ReturnMoves ==
    ASSUME TypeInv, NEW t, Executing(t), NEW o, Returns(o), cur' = cur, result' = result,
           asked' = asked \/ t \in Asking
    PROVE  /\ chain' \in Nat /\ mode' \in Running \cup {"paused", "over"}
           /\ chain' # 0 => mode' \in {"exec", "over"} /\ Conf[cur'.s].type = "Chain"
           /\ (mode' = "over") <=> (result' # "none")
           /\ AskedInTime'
<1>1. /\ mode = "exec" /\ result = "none" /\ chain \in Nat
      /\ chain = 0 => Conf[cur.s].type = t
      /\ chain # 0 => Conf[cur.s].type = "Chain"
  BY ExecutingStep DEF TypeInv, TypeOK
<1>2. CASE chain = 0
  <2>1. mode' = "settle" /\ chain' = 0
    BY <1>2 DEF Returns
  <2>2. asked = {}
    BY <1>1, <1>2 DEF TypeInv, AskedInTime
  <2>3. AskedInTime'
    BY <1>1, <1>2, <2>1, <2>2 DEF AskedInTime
  <2> QED  BY <1>1, <2>1, <2>3 DEF Running
<1>3. CASE chain # 0
  <2>1. mode' = "exec" /\ chain' = chain + 1
    BY <1>1, <1>3 DEF Returns
  <2> QED  BY <1>1, <1>3, <2>1 DEF Running, AskedInTime
<1> QED  BY <1>2, <1>3

-----------------------------------------------------------------------------
(***************************************************************************)
(* The types.                                                              *)
(***************************************************************************)

\* Popping a frame, failing to load its journey, or running out of frames keeps the types.
LEMMA FramesTyped ==
    ASSUME TypeInv, PopFrame \/ FrameFails \/ NoFrameLeft
    PROVE  TypeInv'
<1> USE DEF TypeInv, TypeOK, AskedInTime, closedCtx, inputs, contexts, Running
<1>1. CASE PopFrame
  <2>1. Front(stack) \in Seq(Frames) /\ Last(stack) \in Frames
    BY <1>1, TopOfSequence DEF PopFrame, Frames
  <2>2. cur' \in [j : Journeys, s : Steps]
    BY <1>1, <2>1, ConfAssumption DEF PopFrame, Frames, Frame
  <2>3. chain = 0
    BY <1>1 DEF PopFrame
  <2> QED  BY <1>1, <2>1, <2>2, <2>3 DEF PopFrame, Frames
<1>2. CASE FrameFails
  <2>1. Front(stack) \in Seq(Frames)
    BY <1>2, TopOfSequence DEF FrameFails, Frames
  <2> QED  BY <1>2, <2>1 DEF FrameFails, Finish, Frames
<1>3. CASE NoFrameLeft
  BY <1>3 DEF NoFrameLeft, Finish
<1> QED  BY <1>1, <1>2, <1>3

\* An error that ends the run inside the loop keeps the types.
LEMMA StopsTyped ==
    ASSUME TypeInv, InfiniteLoop \/ StepFails
    PROVE  TypeInv'
<1>1. mode = "exec" /\ mode' = "over" /\ result' = "error"
  BY DEF InfiniteLoop, StepFails, Executing, Finish
<1>2. /\ UNCHANGED <<stack, cur, chain, chainOut, out, marks, tags, props, saved>>
      /\ UNCHANGED <<suspended, byId, sealed, requests, asked, provided, ticks, attempts, calls>>
  BY DEF InfiniteLoop, StepFails, closedCtx, inputs, contexts
<1> QED  BY <1>1, <1>2 DEF TypeInv, TypeOK, AskedInTime, Running

\* An execution that returns keeps the types if what it writes to the contexts is typed.
LEMMA ReturnTyped ==
    ASSUME TypeInv, NEW t, Executing(t), NEW o, Returns(o),
           UNCHANGED <<cur, ticks, result, sealed>>, asked' = asked \/ t \in Asking,
           stack' \in Seq(Frames), marks' \in [Steps -> {"unset", "true", "false"}],
           tags' \subseteq Journeys,
           props' \in Steps \cup {None}, saved' \in Seq(Steps \cup {None}),
           byId' \in BOOLEAN, asked' \subseteq requests', attempts' \in Nat,
           calls' \in Seq(Calls)
    PROVE  TypeInv'
<1>1. /\ chain' \in Nat /\ mode' \in Running \cup {"paused", "over"}
      /\ chain' # 0 => mode' \in {"exec", "over"} /\ Conf[cur'.s].type = "Chain"
      /\ (mode' = "over") <=> (result' # "none")
      /\ AskedInTime'
  BY ReturnMoves
<1>2. /\ cur' \in [j : Journeys, s : Steps] /\ ticks' \in [Steps -> 0 .. MaxTick]
      /\ result' \in {"none", "succeeded", "failed", "error"}
  BY DEF TypeInv, TypeOK
<1> QED  BY <1>1, <1>2 DEF TypeInv, TypeOK, Frames

\* The steps that ask a client keep the types.
LEMMA InputsTyped ==
    ASSUME TypeInv, ExecForm \/ ExecChoice \/ ExecMetadata \/ ExecSuspendFlow
    PROVE  TypeInv'
<1>1. /\ stack \in Seq(Frames) /\ marks \in [Steps -> {"unset", "true", "false"}]
      /\ tags \subseteq Journeys /\ asked \subseteq requests /\ attempts \in Nat
      /\ props \in Steps \cup {None} /\ saved \in Seq(Steps \cup {None})
      /\ calls \in Seq(Calls) /\ byId \in BOOLEAN
  BY DEF TypeInv, TypeOK, Frames
<1>2. /\ UNCHANGED <<stack, cur, marks, tags, props, saved, ticks, attempts, result, calls>>
      /\ UNCHANGED sealed /\ (byId' = byId \/ byId' = TRUE)
  BY DEF ExecForm, ExecChoice, ExecMetadata, ExecSuspendFlow, closedCtx, contexts
<1>3. asked' \subseteq requests'
  BY <1>1 DEF ExecForm, ExecChoice, ExecMetadata, ExecSuspendFlow, Request
<1>4. PICK t \in Asking : Executing(t)
  BY DEF ExecForm, ExecChoice, ExecMetadata, ExecSuspendFlow, Asking
<1>5. \E o : Returns(o)
  BY DEF ExecForm, ExecChoice, ExecMetadata, ExecSuspendFlow
<1> QED  BY <1>1, <1>2, <1>3, <1>4, <1>5, ReturnTyped

\* The steps that decide or end keep the types.
LEMMA DecisionsTyped ==
    ASSUME TypeInv, ExecRetry \/ ExecBranch \/ ExecEnd \/ ExecHTTPFinishResponse
    PROVE  TypeInv'
<1>1. /\ stack \in Seq(Frames) /\ marks \in [Steps -> {"unset", "true", "false"}]
      /\ tags \subseteq Journeys /\ asked \subseteq requests /\ attempts \in Nat
      /\ props \in Steps \cup {None} /\ saved \in Seq(Steps \cup {None})
      /\ calls \in Seq(Calls) /\ byId \in BOOLEAN
  BY DEF TypeInv, TypeOK, Frames
<1>2. /\ UNCHANGED <<stack, cur, tags, props, saved, ticks, result, calls>>
      /\ UNCHANGED <<byId, sealed, requests, asked>>
  BY DEF ExecRetry, ExecBranch, ExecEnd, ExecHTTPFinishResponse, closedCtx, inputs, contexts
<1>3. \E o : Returns(o)
  BY DEF ExecRetry, ExecBranch, ExecEnd, ExecHTTPFinishResponse
<1>4. \E t : Executing(t)
  BY DEF ExecRetry, ExecBranch, ExecEnd, ExecHTTPFinishResponse
<1>5. attempts' \in Nat
  BY <1>1 DEF ExecRetry, ExecBranch, ExecEnd, ExecHTTPFinishResponse
<1>6. marks' \in [Steps -> {"unset", "true", "false"}]
  <2>1. CASE ExecEnd
    <3>1. EndValue(Here) \in {"true", "false", "unset"}
      BY <2>1, ExecutingStep DEF ExecEnd, EndValue, ConfigOK
    <3> QED  BY <1>1, <2>1, <3>1 DEF ExecEnd
  <2> QED  BY <1>1, <2>1 DEF ExecRetry, ExecBranch, ExecHTTPFinishResponse, closedCtx
<1> QED  BY <1>1, <1>2, <1>3, <1>4, <1>5, <1>6, ReturnTyped

\* A history record of the calls stays one when its last entry is dropped or ended.
LEMMA HistoryTyped ==
    ASSUME calls \in Seq(Calls), calls # <<>>
    PROVE  /\ Front(calls) \in Seq(Calls)
           /\ \A e \in {"true", "false", "lost"} : EndedCall(e) \in Seq(Calls)
<1>1. Front(calls) \in Seq(Calls) /\ calls[Len(calls)] \in Calls
  BY TopOfSequence
<1>2. calls[Len(calls)].at \in Steps
  BY <1>1 DEF Calls
<1> QED  BY <1>1, <1>2 DEF EndedCall, Calls

\* A SubJourney that returns, is passed by or calls keeps the types.
LEMMA SubJourneyTyped ==
    ASSUME TypeInv, SubJourneyReturns \/ SubJourneyPassed \/ SubJourneyCalls
    PROVE  TypeInv'
<1>1. /\ stack \in Seq(Frames) /\ marks \in [Steps -> {"unset", "true", "false"}]
      /\ tags \subseteq Journeys /\ asked \subseteq requests /\ attempts \in Nat
      /\ props \in Steps \cup {None} /\ saved \in Seq(Steps \cup {None})
      /\ calls \in Seq(Calls) /\ byId \in BOOLEAN /\ cur \in [j : Journeys, s : Steps]
  BY DEF TypeInv, TypeOK, Frames
<1>2. UNCHANGED <<cur, ticks, result, byId, sealed, requests, asked, attempts>>
  BY DEF SubJourneyReturns, SubJourneyPassed, SubJourneyCalls, closedCtx, inputs, contexts
<1>3. Executing("SubJourney") /\ Here.sub \in Journeys
  BY ExecutingStep DEF SubJourneyReturns, SubJourneyPassed, SubJourneyCalls, ConfigOK
<1>4. CASE SubJourneyReturns
  <2>1. Returns(marks[cur.s]) /\ UNCHANGED stack
    BY <1>4 DEF SubJourneyReturns
  <2>2. props' \in Steps \cup {None} /\ saved' \in Seq(Steps \cup {None})
    <3>1. CASE saved = <<>>
      BY <1>1, <1>4, <3>1 DEF SubJourneyReturns
    <3>2. CASE saved # <<>>
      <4>1. Last(saved) \in Steps \cup {None} /\ Front(saved) \in Seq(Steps \cup {None})
        BY <1>1, <3>2, TopOfSequence
      <4> QED  BY <1>4, <3>2, <4>1 DEF SubJourneyReturns
    <3> QED  BY <3>1, <3>2
  <2>3. /\ marks' \in [Steps -> {"unset", "true", "false"}]
        /\ tags' \subseteq Journeys
    BY <1>1, <1>3, <1>4 DEF SubJourneyReturns
  <2>4. calls' \in Seq(Calls)
    BY <1>1, <1>4, HistoryTyped DEF SubJourneyReturns, Recorded
  <2> QED  BY <1>1, <1>2, <1>3, <2>1, <2>2, <2>3, <2>4, ReturnTyped
<1>5. CASE SubJourneyPassed
  <2>1. Returns("true") /\ UNCHANGED <<stack, marks, tags, props, saved, calls>>
    BY <1>5 DEF SubJourneyPassed, closedCtx
  <2> QED  BY <1>1, <1>2, <1>3, <2>1, ReturnTyped
<1>6. CASE SubJourneyCalls
  <2>1. Returns(Empty) /\ UNCHANGED <<marks, tags>>
    BY <1>6 DEF SubJourneyCalls
  <2>2. props' \in Steps \cup {None} /\ saved' \in Seq(Steps \cup {None})
    BY <1>1, <1>6 DEF SubJourneyCalls
  <2>3. cur \in Frames /\ Frame(Here.sub, Empty) \in Frames
    BY <1>1, <1>3 DEF Frames, Frame
  <2>4. stack' \in Seq(Frames)
    BY <1>1, <1>6, <2>3 DEF SubJourneyCalls
  <2>5. calls' \in Seq(Calls)
    <3>1. [at |-> cur.s, end |-> "open"] \in Calls
      BY <1>1 DEF Calls
    <3> QED  BY <1>1, <1>6, <3>1 DEF SubJourneyCalls
  <2> QED  BY <1>1, <1>2, <1>3, <2>1, <2>2, <2>4, <2>5, ReturnTyped
<1> QED  BY <1>4, <1>5, <1>6

\* Entering and leaving a Chain keeps the types.
LEMMA ChainTyped ==
    ASSUME TypeInv, EnterChain \/ LeaveChain
    PROVE  TypeInv'
<1>1. CASE EnterChain
  <2>1. chain = 0 /\ mode = "exec" /\ Conf[cur.s].type = "Chain"
    BY <1>1, ExecutingStep DEF EnterChain
  <2>2. /\ chain' = 1
        /\ UNCHANGED <<stack, cur, mode, marks, tags, props, saved, byId, requests, asked>>
        /\ UNCHANGED <<sealed, ticks, attempts, result, calls>>
    BY <1>1 DEF EnterChain, closedCtx, inputs, contexts
  <2> QED  BY <2>1, <2>2 DEF TypeInv, TypeOK, AskedInTime
<1>2. CASE LeaveChain
  <2>1. mode = "exec" /\ chain > Len(Children)
    BY <1>2 DEF LeaveChain
  <2>2. chain # 0
    BY <2>1 DEF Children
  <2>3. chain' = 0 /\ mode' = "settle" /\ Conf[cur.s].type = "Chain"
    BY <1>2, <2>2 DEF LeaveChain, TypeInv, TypeOK
  <2>4. marks' \in [Steps -> {"unset", "true", "false"}]
    BY <1>2 DEF LeaveChain, TypeInv, TypeOK
  <2>5. /\ UNCHANGED <<stack, cur, tags, props, saved, byId, requests, asked>>
        /\ UNCHANGED <<sealed, ticks, attempts, result, calls>>
    BY <1>2 DEF LeaveChain, inputs, contexts
  <2> QED  BY <2>1, <2>3, <2>4, <2>5 DEF TypeInv, TypeOK, AskedInTime, Running, Asking
<1> QED  BY <1>1, <1>2

\* Settling a step and the next invocation keep the types.
LEMMA SettleTyped ==
    ASSUME TypeInv, Pause \/ EndChild \/ EndRoot \/ Yield \/ Follow
    PROVE  TypeInv'
<1>1. mode = "settle" /\ chain = 0 /\ result = "none" /\ cur \in [j : Journeys, s : Steps]
  BY DEF Pause, EndChild, EndRoot, Yield, Follow, Ends, Continues, Settling, TypeInv, TypeOK
<1>2. ticks' \in [Steps -> 0 .. MaxTick]
  BY <1>1, ConfAssumption
  DEF Pause, EndChild, EndRoot, Yield, Follow, Ends, Continues, Settling, TypeInv, TypeOK
<1>3. UNCHANGED <<chain, marks, tags, props, saved, byId, sealed, asked, attempts>>
  BY DEF Pause, EndChild, EndRoot, Yield, Follow, closedCtx, inputs, contexts
<1>4. calls' \in Seq(Calls)
  <2>1. CASE EndChild
    <3>1. cur.s \in Steps /\ Conf[cur.s].type \in Terminal
      BY <1>1, <2>1 DEF EndChild, Ends
    <3>2. ClosedBy(Conf[cur.s]) \in {"true", "false", "lost"}
      BY <3>1, ConfAssumption DEF ClosedBy, EndValue, ConfigOK
    <3> QED  BY <2>1, <3>2, HistoryTyped DEF EndChild, Recorded, TypeInv
  <2>2. CASE Yield
    BY <2>2, HistoryTyped DEF Yield, Recorded, TypeInv
  <2> QED  BY <2>1, <2>2 DEF Pause, EndRoot, Follow, TypeInv
<1>5. CASE Pause
  <2>1. stack' \in Seq(Frames)
    BY <1>1, <1>5 DEF Pause, TypeInv, TypeOK, Frames
  <2>2. mode' = "paused" /\ UNCHANGED <<cur, requests, result>>
    BY <1>5 DEF Pause, inputs
  <2> QED  BY <1>1, <1>2, <1>3, <1>4, <2>1, <2>2 DEF TypeInv, TypeOK, AskedInTime, Frames
<1>6. CASE EndChild \/ Yield
  <2>1. mode' = "frames" /\ UNCHANGED <<stack, cur, result>> /\ asked = {}
    BY <1>6 DEF EndChild, Yield, Ends, Continues
  <2> QED  BY <1>1, <1>2, <1>3, <1>4, <2>1 DEF TypeInv, TypeOK, AskedInTime, Running
<1>7. CASE EndRoot
  <2>1. /\ mode' = "over" /\ result' \in {"failed", "succeeded"}
        /\ UNCHANGED <<stack, cur, requests>>
    BY <1>7 DEF EndRoot, Finish, inputs
  <2> QED  BY <1>1, <1>2, <1>3, <1>4, <2>1 DEF TypeInv, TypeOK, AskedInTime
<1>8. CASE Follow
  <2>1. asked = {} /\ UNCHANGED stack
    BY <1>8 DEF Follow, Continues
  <2>2. cur' \in [j : Journeys, s : Steps]
    BY <1>1, <1>8, ConfAssumption DEF Follow, Frame
  <2>3. \/ mode' = "exec" /\ result' = "none"
        \/ mode' = "over" /\ result' = "error"
    BY <1>1, <1>8 DEF Follow, Finish
  <2> QED  BY <1>1, <1>2, <1>3, <1>4, <2>1, <2>2, <2>3 DEF TypeInv, TypeOK, AskedInTime, Running
<1> QED  BY <1>5, <1>6, <1>7, <1>8

\* The next invocation keeps the types.
LEMMA InvocationTyped ==
    ASSUME TypeInv, Submit \/ Resume
    PROVE  TypeInv'
<1>1. mode = "paused" /\ \E p : NextInvocation(p)
  BY DEF Submit, Resume
<1>2. /\ mode' = "frames" /\ asked' = {} /\ byId' = FALSE /\ ticks' = [s \in Steps |-> 0]
      /\ UNCHANGED <<stack, cur, chain, marks, tags, props, saved>>
      /\ sealed' \in BOOLEAN /\ UNCHANGED <<attempts, result, calls>>
  BY <1>1 DEF NextInvocation, WillBeSealed, closedCtx
<1>3. ticks' \in [Steps -> 0 .. MaxTick]
  BY <1>2, ConfAssumption
<1> QED  BY <1>1, <1>2, <1>3 DEF TypeInv, TypeOK, AskedInTime, Running

\* Every step keeps the types.
LEMMA StepTyped ==
    ASSUME TypeInv, [Next]_vars
    PROVE  TypeInv'
<1>1. CASE UNCHANGED vars
  BY <1>1 DEF vars, control, closedCtx, inputs, contexts, TypeInv, TypeOK, AskedInTime
<1>2. CASE Next
  BY <1>2, FramesTyped, StopsTyped, InputsTyped, DecisionsTyped, SubJourneyTyped, ChainTyped,
     SettleTyped, InvocationTyped
  DEF Next, Step, Execute
<1> QED  BY <1>1, <1>2

\* The types hold at the start.
LEMMA InitTyped == Init => TypeInv
<1> SUFFICES ASSUME Init PROVE TypeInv
  OBVIOUS
<1>1. Frame(Root, StartOf[Root]) \in [j : Journeys, s : Steps]
  BY ConfAssumption DEF Frame
<1>2. <<Frame(Root, StartOf[Root])>> \in Seq([j : Journeys, s : Steps \cup {Empty}])
  BY <1>1
<1>3. ticks \in [Steps -> 0 .. MaxTick] /\ marks \in [Steps -> {"unset", "true", "false"}]
  BY ConfAssumption DEF Init
<1>4. /\ chain = 0 /\ mode = "frames" /\ tags = {} /\ props = None /\ saved = <<>> /\ byId = FALSE
      /\ requests = {} /\ asked = {} /\ attempts = 0 /\ result = "none" /\ calls = <<>>
      /\ cur = Frame(Root, StartOf[Root]) /\ stack = <<Frame(Root, StartOf[Root])>>
      /\ sealed \in BOOLEAN
  BY DEF Init
<1>5. TypeOK
  <2>1. /\ stack \in Seq([j : Journeys, s : Steps \cup {Empty}])
        /\ cur \in [j : Journeys, s : Steps]
    BY <1>1, <1>2, <1>4
  <2>2. /\ chain \in Nat /\ tags \subseteq Journeys /\ asked \subseteq requests
        /\ props \in Steps \cup {None} /\ attempts \in Nat
    BY <1>4
  <2>3. saved \in Seq(Steps \cup {None})
    BY <1>4
  <2> QED  BY <1>3, <1>4, <2>1, <2>2, <2>3 DEF TypeOK, Running
<1>6. AskedInTime /\ calls \in Seq(Calls)
  BY <1>4 DEF AskedInTime
<1> QED  BY <1>5, <1>6 DEF TypeInv

\* The type invariant of the engine holds for every set of journeys that the validation
\* accepts: no outcome, pause or return makes the loop run a step that is not there.
THEOREM EngineTypeCorrect == Spec => []TypeOK
<1>1. Init => TypeInv
  BY InitTyped
<1>2. TypeInv /\ [Next]_vars => TypeInv'
  BY StepTyped
<1>3. TypeInv => TypeOK
  BY DEF TypeInv
<1> QED  BY <1>1, <1>2, <1>3, PTL DEF Spec

-----------------------------------------------------------------------------
(***************************************************************************)
(* The pauses.  A child of a Chain runs under an id of its own, made of    *)
(* the journey and its place; what it suspends, the same place of the same *)
(* Chain takes back.                                                       *)
(***************************************************************************)

\* The id of a step is neither the empty one nor that of a child of a Chain.
LEMMA StepIds ==
    /\ \A s \in Steps : Id(s) # AnyStep
    /\ \A s, j : \A i \in Nat \ {0} : Id(s) # <<j, i>> /\ AnyStep # <<j, i>>
<1>1. \A s, u : Id(s) = Id(u) => s = u
  BY DEF Id
<1>2. Empty \notin Steps
  BY ConfAssumption
<1>3. \A s, j : \A i \in Nat \ {0} : Id(s) # <<j, i>>
  BY DEF Id
<1> QED  BY <1>1, <1>2, <1>3 DEF AnyStep

\* What a return leaves of a suspension: nothing changes but the next place of the Chain.
LEMMA ReturnPauses ==
    ASSUME TypeInv, PauseInv, NEW t, Executing(t), t \notin {"SuspendFlow", "Chain"},
           NEW o, Returns(o),
           UNCHANGED <<cur, suspended, byId>>, asked \subseteq asked',
           \A r \in asked' : r \in asked \/ (/\ r.type = "Form" => r.at = AnyStep
                                             /\ r.type = "Choice" => \/ r.at = Id(cur.s)
                                                                     \/ Conf[cur.s].type = "Chain")
    PROVE  PauseInv'
<1>1. /\ mode = "exec" /\ chain \in Nat
      /\ chain = 0 => Conf[cur.s].type = t
      /\ chain # 0 => /\ Conf[cur.s].type = "Chain" /\ chain \in 1 .. Len(Conf[cur.s].inner)
                      /\ Conf[cur.s].inner[chain].type = t
  BY ExecutingStep DEF TypeInv, TypeOK
<1>2. AskedHere'
  BY DEF PauseInv, AskedHere, AnyStep, Id
<1>3. CASE chain = 0
  <2>1. mode' = "settle" /\ ~byId
    BY <1>1, <1>3 DEF Returns, PauseInv
  <2>2. suspended = AnyStep
    BY <1>1, <1>3 DEF PauseInv, SuspendedIn
  <2> QED  BY <1>2, <2>1, <2>2 DEF PauseInv, AnyStep, Id
<1>4. CASE chain # 0
  <2>1. mode' = "exec" /\ chain' = chain + 1
    BY <1>1, <1>4 DEF Returns
  <2>2. suspended # AnyStep => SuspendedIn(cur, SuspendingPlaces)'
    <3> SUFFICES ASSUME suspended # AnyStep PROVE SuspendedIn(cur, SuspendingPlaces)'
      OBVIOUS
    <3>1. PICK i \in SuspendingPlaces : /\ i \in 1 .. Len(Conf[cur.s].inner)
                                        /\ Conf[cur.s].inner[i].type = "SuspendFlow"
                                        /\ suspended = <<cur.j, i>>
      BY <1>1, <1>4 DEF PauseInv, SuspendedIn
    <3>2. i # chain
      BY <1>1, <1>4, <3>1
    <3>3. i \in Nat /\ i \in SuspendingPlaces'
      BY <1>1, <2>1, <3>1, <3>2 DEF SuspendingPlaces
    <3> QED  BY <1>1, <1>4, <3>1, <3>3 DEF SuspendedIn, TypeInv, TypeOK
  <2> QED  BY <1>1, <1>2, <2>1, <2>2 DEF PauseInv, AnyStep, Id
<1> QED  BY <1>3, <1>4

\* The steps that ask without suspending keep the pauses in order.
LEMMA InputPauses ==
    ASSUME TypeInv, PauseInv, ExecForm \/ ExecChoice \/ ExecMetadata
    PROVE  PauseInv'
<1>1. UNCHANGED <<cur, suspended, byId>> /\ \E o : Returns(o)
  BY DEF ExecForm, ExecChoice, ExecMetadata, closedCtx
<1>2. CASE ExecForm
  <2>1. Executing("Form") /\ asked' = asked \cup {AskField(f) : f \in MissingFields}
    BY <1>2 DEF ExecForm, Request
  <2>2. \A f : AskField(f).type = "Form" /\ AskField(f).at = AnyStep
    BY DEF AskField, Ask
  <2> QED  BY <1>1, <2>1, <2>2, ReturnPauses
<1>3. CASE ExecChoice
  <2>1. Executing("Choice") /\ asked \subseteq asked' /\ asked' \subseteq asked \cup {AskHere}
    BY <1>3 DEF ExecChoice, Request
  <2>2. Here.type = "Choice" /\ (HereId = Id(cur.s) \/ Conf[cur.s].type = "Chain")
    BY <2>1, ExecutingStep DEF TypeInv, TypeOK
  <2>3. AskHere.type = "Choice" /\ (AskHere.at = Id(cur.s) \/ Conf[cur.s].type = "Chain")
    BY <2>2 DEF AskHere, Ask
  <2> QED  BY <1>1, <2>1, <2>3, ReturnPauses
<1>4. CASE ExecMetadata
  <2>1. Executing("Metadata") /\ asked \subseteq asked' /\ asked' \subseteq asked \cup {AskHere}
    BY <1>4 DEF ExecMetadata, Request
  <2>2. AskHere.type = "Metadata"
    BY <2>1 DEF Executing, AskHere, Ask
  <2> QED  BY <1>1, <2>1, <2>2, ReturnPauses
<1> QED  BY <1>2, <1>3, <1>4

\* A SuspendFlow suspends the run under its own id, or takes its suspension back.
LEMMA SuspendPauses ==
    ASSUME TypeInv, PauseInv, ExecSuspendFlow
    PROVE  PauseInv'
<1>1. Executing("SuspendFlow") /\ UNCHANGED cur /\ Returns("true")
  BY DEF ExecSuspendFlow
<1>2. /\ mode = "exec" /\ cur.s \in Steps /\ chain \in Nat /\ Here.type = "SuspendFlow"
      /\ chain = 0 => HereId = Id(cur.s) /\ Conf[cur.s].type = "SuspendFlow"
      /\ chain # 0 => /\ Conf[cur.s].type = "Chain" /\ chain \in 1 .. Len(Conf[cur.s].inner)
                      /\ Conf[cur.s].inner[chain].type = "SuspendFlow"
                      /\ HereId = <<cur.j, chain>>
  BY <1>1, ExecutingStep DEF TypeInv, TypeOK, HereId
<1>3. /\ chain = 0 => mode' = "settle"
      /\ chain # 0 => mode' = "exec" /\ chain' = chain + 1
  BY <1>1, <1>2 DEF Returns
<1>4. CASE suspended = HereId
  <2>1. suspended' = AnyStep /\ UNCHANGED <<byId, asked>>
    BY <1>4 DEF ExecSuspendFlow
  <2>2. ~byId
    <3> SUFFICES ASSUME byId, chain # 0 PROVE FALSE
      BY <1>2 DEF PauseInv
    <3>1. suspended = <<cur.j, chain>> /\ suspended # AnyStep
      BY <1>2, <1>4, StepIds
    <3>2. PICK i \in SuspendingPlaces : suspended = <<cur.j, i>>
      BY <1>2, <3>1 DEF PauseInv, SuspendedIn
    <3>3. i < chain /\ i \in Nat
      BY <3>2 DEF SuspendingPlaces
    <3> QED  BY <1>2, <3>1, <3>2, <3>3
  <2> QED  BY <1>1, <1>2, <1>3, <2>1, <2>2 DEF PauseInv, AskedHere, AnyStep, Id
<1>5. CASE suspended # HereId
  <2>1. suspended' = HereId /\ byId' = TRUE /\ asked' = asked \cup {AskHere}
    BY <1>5 DEF ExecSuspendFlow, Request
  <2>2. AskHere.type = "SuspendFlow"
    BY <1>2 DEF AskHere, Ask
  <2>3. AskedHere'
    BY <1>1, <2>1, <2>2 DEF PauseInv, AskedHere, AnyStep, Id
  <2>4. suspended' # AnyStep
    BY <1>2, <2>1, StepIds
  <2>5. CASE chain = 0
    <3>1. SuspendedIn(cur, Nat)'
      BY <1>1, <1>2, <2>1, <2>5 DEF SuspendedIn, Id
    <3> QED  BY <1>3, <2>1, <2>3, <2>4, <2>5, <3>1 DEF PauseInv, AnyStep, Id
  <2>6. CASE chain # 0
    <3>1. chain \in SuspendingPlaces'
      BY <1>2, <1>3, <2>1, <2>6 DEF SuspendingPlaces
    <3>2. SuspendedIn(cur, SuspendingPlaces)'
      BY <1>1, <1>2, <2>1, <2>6, <3>1 DEF SuspendedIn
    <3> QED  BY <1>2, <1>3, <2>1, <2>3, <2>4, <2>6, <3>2 DEF PauseInv, AnyStep, Id
  <2> QED  BY <2>5, <2>6
<1> QED  BY <1>4, <1>5

\* The other executions keep the pauses in order.
LEMMA OtherPauses ==
    ASSUME TypeInv, PauseInv,
           \/ ExecRetry \/ ExecBranch \/ ExecEnd \/ ExecHTTPFinishResponse
           \/ SubJourneyReturns \/ SubJourneyPassed \/ SubJourneyCalls
    PROVE  PauseInv'
<1>1. UNCHANGED <<cur, suspended, byId, asked>>
  BY DEF ExecRetry, ExecBranch, ExecEnd, ExecHTTPFinishResponse, SubJourneyReturns,
         SubJourneyPassed, SubJourneyCalls, closedCtx, inputs, contexts
<1>2. \E o : Returns(o)
  BY DEF ExecRetry, ExecBranch, ExecEnd, ExecHTTPFinishResponse, SubJourneyReturns,
         SubJourneyPassed, SubJourneyCalls
<1>3. \E t : t \notin {"SuspendFlow", "Chain"} /\ Executing(t)
  BY DEF ExecRetry, ExecBranch, ExecEnd, ExecHTTPFinishResponse, SubJourneyReturns,
         SubJourneyPassed, SubJourneyCalls
<1> QED  BY <1>1, <1>2, <1>3, ReturnPauses

\* Entering and leaving a Chain keeps the pauses in order: who leaves it suspended has
\* been suspended by this execution of it.
LEMMA ChainPauses ==
    ASSUME TypeInv, PauseInv, EnterChain \/ LeaveChain
    PROVE  PauseInv'
<1>1. UNCHANGED <<cur, suspended, byId, asked>> /\ mode = "exec"
  BY DEF EnterChain, LeaveChain, Executing, closedCtx, inputs, contexts
<1>2. CASE EnterChain
  <2>1. Executing("Chain") /\ chain' = 1 /\ mode' = "exec"
    BY <1>1, <1>2 DEF EnterChain
  <2>2. chain = 0 /\ Conf[cur.s].type = "Chain" /\ ~byId
    BY <1>1, <2>1, ExecutingStep DEF PauseInv
  <2>3. suspended # AnyStep => SuspendedIn(cur, SuspendingPlaces)'
    <3> SUFFICES ASSUME suspended # AnyStep PROVE SuspendedIn(cur, SuspendingPlaces)'
      OBVIOUS
    <3>1. PICK i \in SuspendingPlaces : /\ i \in 1 .. Len(Conf[cur.s].inner)
                                        /\ Conf[cur.s].inner[i].type = "SuspendFlow"
                                        /\ suspended = <<cur.j, i>>
      BY <1>1, <2>2 DEF PauseInv, SuspendedIn
    <3>2. i \in SuspendingPlaces'
      BY <1>1, <2>1, <2>2, <3>1 DEF SuspendingPlaces
    <3> QED  BY <1>1, <2>2, <3>1, <3>2 DEF SuspendedIn, TypeInv, TypeOK
  <2> QED  BY <1>1, <2>1, <2>2, <2>3 DEF PauseInv, AskedHere, AnyStep, Id
<1>3. CASE LeaveChain
  <2>1. mode' = "settle" /\ chain \in Nat /\ chain > Len(Children)
    BY <1>3 DEF LeaveChain, TypeInv, TypeOK
  <2>2. Conf[cur.s].type = "Chain" /\ Children = Conf[cur.s].inner /\ cur.s \in Steps /\ chain # 0
    <3>1. chain # 0
      BY <2>1 DEF Children
    <3> QED  BY <3>1 DEF Children, TypeInv, TypeOK
  <2>3. Len(Conf[cur.s].inner) \in Nat
    BY <2>2, ConfAssumption
  <2>4. suspended # AnyStep => byId /\ SuspendedIn(cur, Nat)'
    <3> SUFFICES ASSUME suspended # AnyStep PROVE byId /\ SuspendedIn(cur, Nat)'
      OBVIOUS
    <3>1. PICK i \in SuspendingPlaces : /\ i \in 1 .. Len(Conf[cur.s].inner)
                                        /\ Conf[cur.s].inner[i].type = "SuspendFlow"
                                        /\ suspended = <<cur.j, i>>
      BY <1>1, <2>2 DEF PauseInv, SuspendedIn
    <3>2. byId /\ i \in Nat
      BY <2>1, <2>2, <2>3, <3>1 DEF SuspendingPlaces
    <3> QED  BY <1>1, <2>2, <3>1, <3>2 DEF SuspendedIn
  <2> QED  BY <1>1, <2>1, <2>4 DEF PauseInv, AskedHere, AnyStep, Id
<1> QED  BY <1>2, <1>3

\* Popping a frame, or an error, keeps the pauses in order.
LEMMA FramePauses ==
    ASSUME TypeInv, PauseInv, PopFrame \/ FrameFails \/ NoFrameLeft \/ InfiniteLoop \/ StepFails
    PROVE  PauseInv'
<1>1. CASE PopFrame
  <2>1. mode = "frames" /\ mode' = "exec" /\ chain' = chain /\ UNCHANGED <<suspended, byId, asked>>
    BY <1>1 DEF PopFrame, closedCtx, inputs, contexts
  <2>2. chain = 0 /\ asked = {} /\ ~byId
    BY <2>1 DEF TypeInv, TypeOK, AskedInTime, PauseInv
  <2>3. suspended # AnyStep => SuspendedIn(cur, SuspendingPlaces)'
    <3> SUFFICES ASSUME suspended # AnyStep PROVE SuspendedIn(cur, SuspendingPlaces)'
      OBVIOUS
    <3>1. SuspendedIn(Last(stack), Nat)
      BY <2>1 DEF PauseInv
    <3>2. cur'.s = Last(stack).s /\ cur'.j = Last(stack).j
      BY <1>1, <3>1, ConfAssumption DEF PopFrame, Frame, SuspendedIn
    <3>3. SuspendingPlaces' = Nat
      BY <2>1, <2>2 DEF SuspendingPlaces
    <3> QED  BY <2>1, <3>1, <3>2, <3>3 DEF SuspendedIn
  <2> QED  BY <2>1, <2>2, <2>3 DEF PauseInv, AskedHere, AnyStep, Id
<1>2. CASE FrameFails \/ NoFrameLeft \/ InfiniteLoop \/ StepFails
  <2>1. mode' = "over" /\ UNCHANGED <<cur, suspended, byId, asked>>
    BY <1>2 DEF FrameFails, NoFrameLeft, InfiniteLoop, StepFails, Finish, closedCtx, inputs, contexts
  <2> QED  BY <2>1 DEF PauseInv, AskedHere, AnyStep, Id
<1> QED  BY <1>1, <1>2

\* Settling a step keeps the pauses in order: a suspended run does pause.
LEMMA SettlePauses ==
    ASSUME TypeInv, PauseInv, Pause \/ EndChild \/ EndRoot \/ Yield \/ Follow
    PROVE  PauseInv'
<1>1. mode = "settle" /\ UNCHANGED <<suspended, byId, asked>>
  BY DEF Pause, EndChild, EndRoot, Yield, Follow, Ends, Continues, Settling, closedCtx, inputs, contexts
<1>2. CASE Pause
  <2>1. mode' = "paused" /\ stack' = Append(stack, cur) /\ cur' = cur
    BY <1>2 DEF Pause
  <2>2. stack' # <<>> /\ Last(stack') = cur
    <3>1. stack \in Seq(Frames) /\ cur \in Frames
      BY DEF TypeInv, TypeOK, Frames
    <3>2. Len(stack') = Len(stack) + 1 /\ stack'[Len(stack) + 1] = cur /\ Len(stack) \in Nat
      BY <2>1, <3>1
    <3> QED  BY <3>2 DEF Last
  <2> QED  BY <1>1, <2>1, <2>2 DEF PauseInv, AskedHere, SuspendedIn, AnyStep, Id
<1>3. CASE EndChild \/ EndRoot \/ Yield \/ Follow
  <2>1. asked = {} /\ mode' \in {"frames", "over", "exec"}
    BY <1>3 DEF EndChild, EndRoot, Yield, Follow, Ends, Continues, Finish
  <2>2. suspended = AnyStep /\ ~byId
    BY <1>1, <2>1 DEF PauseInv
  <2> QED  BY <1>1, <2>1, <2>2 DEF PauseInv, AskedHere, AnyStep, Id
<1> QED  BY <1>2, <1>3

\* The next invocation starts with the frame of the step that paused.
LEMMA InvocationPauses ==
    ASSUME TypeInv, PauseInv, Submit \/ Resume
    PROVE  PauseInv'
<1>1. mode = "paused" /\ \E p : NextInvocation(p)
  BY DEF Submit, Resume
<1>2. mode' = "frames" /\ asked' = {} /\ byId' = FALSE /\ UNCHANGED <<stack, cur, suspended>>
  BY <1>1 DEF NextInvocation, closedCtx
<1>3. suspended # AnyStep => stack # <<>> /\ SuspendedIn(Last(stack), Nat)
  BY <1>1 DEF PauseInv
<1>4. suspended' # AnyStep => stack' # <<>> /\ SuspendedIn(Last(stack), Nat)'
  BY <1>2, <1>3 DEF SuspendedIn, AnyStep, Id
<1> QED  BY <1>2, <1>4 DEF PauseInv, AskedHere, AnyStep, Id

\* For all journeys: a run that paused is left with a resume id exactly if a SuspendFlow of
\* the frame that will execute again waits for it, and otherwise every form field and choice
\* it asked for passes validateProvided, but for a Choice in a Chain and for a journey that
\* looks for its client inputs in the other context than the one the invocation began with.
THEOREM PausesCanBeAnswered == Spec => []PauseCanBeAnswered
<1>1. Init => TypeInv /\ PauseInv
  <2> SUFFICES ASSUME Init PROVE PauseInv
    BY InitTyped
  <2> QED  BY DEF Init, PauseInv, AskedHere
<1>2. TypeInv /\ PauseInv /\ [Next]_vars => (TypeInv /\ PauseInv)'
  <2> SUFFICES ASSUME TypeInv, PauseInv, [Next]_vars PROVE PauseInv'
    BY StepTyped
  <2>1. CASE UNCHANGED vars
    BY <2>1 DEF vars, control, closedCtx, inputs, contexts, PauseInv, AskedHere, SuspendedIn,
                SuspendingPlaces, AnyStep, Id
  <2>2. CASE Next
    BY <2>2, InputPauses, SuspendPauses, OtherPauses, ChainPauses, FramePauses, SettlePauses,
       InvocationPauses
    DEF Next, Step, Execute
  <2> QED  BY <2>1, <2>2
<1>3. TypeInv /\ PauseInv => PauseCanBeAnswered
  <2> SUFFICES ASSUME TypeInv, PauseInv, mode = "paused"
               PROVE  /\ byId <=> suspended # AnyStep
                      /\ byId => suspended \in IdsOf(Last(stack))
                      /\ ~byId /\ sealed = WillBeSealed =>
                            \A r \in asked :
                                \/ r.type = "Form"
                                \/ r.type = "Choice" /\ Conf[Last(stack).s].type # "Chain"
                                => r \in Visible
    BY DEF PauseCanBeAnswered
  <2>1. Last(stack) = cur /\ cur.s \in Steps /\ asked \subseteq requests
    BY DEF PauseInv, TypeInv, TypeOK
  <2>2. byId <=> suspended # AnyStep
    BY DEF PauseInv
  <2>3. byId => suspended \in IdsOf(cur)
    BY <2>2 DEF PauseInv, SuspendedIn, IdsOf
  <2>4. \A r \in asked : r.type = "Form" \/ (r.type = "Choice" /\ Conf[cur.s].type # "Chain")
                         => r.at \in {AnyStep, Id(cur.s)}
    BY DEF PauseInv, AskedHere
  <2>5. sealed = WillBeSealed => asked \subseteq NextRequests
    BY <2>1 DEF NextRequests
  <2> QED  BY <2>1, <2>2, <2>3, <2>4, <2>5 DEF Visible
<1> QED  BY <1>1, <1>2, <1>3, PTL DEF Spec

-----------------------------------------------------------------------------
(***************************************************************************)
(* The calls.  A Success, Failure or End in a Chain would leave a result   *)
(* for the caller and go on: the theorems are about journeys without them  *)
(* among the children of their Chains.  What a lost result leads to is not *)
(* recorded, so that the lemmas are about runs in which none was lost.     *)
(***************************************************************************)

\* No Chain has a child of one of the types.
ChainsWithout(types) ==
    \A s \in Steps : Conf[s].type = "Chain" =>
        \A i \in 1 .. Len(Conf[s].inner) : Conf[s].inner[i].type \notin types

\* The results a child may leave are outcomes.
LEMMA ResultsAreOutcomes == Empty \notin {"true", "false"}
BY Zenon DEF Empty

\* At a step that executes and is no SubJourney, every call is open and no mark is left.
LEMMA ExecutionFindsCalls ==
    ASSUME TypeInv, CallInv, ~ResultLost, NEW t, Executing(t), t # "SubJourney"
    PROVE  /\ mode = "exec" /\ result = "none" /\ PropsMatchCalls /\ CallsOK
           /\ ~ChildEnded /\ Stacked(Len(calls)) /\ Unmarked
<1>1. mode = "exec" /\ result = "none" /\ (chain = 0 => Conf[cur.s].type = t)
      /\ (chain # 0 => Conf[cur.s].type = "Chain")
  BY ExecutingStep
<1>2. PropsMatchCalls /\ CallsOK /\ ExecOK
  BY <1>1 DEF CallInv
<1>3. ~ChildEnded
  <2> SUFFICES ASSUME ChildEnded PROVE FALSE
    OBVIOUS
  <2>1. cur.s = Last(calls).at /\ calls # <<>>
    BY <1>2 DEF ExecOK, ChildEnded
  <2>2. Len(calls) \in 1 .. Len(calls) /\ Last(calls) = calls[Len(calls)]
    <3>1. Len(calls) \in Nat \ {0} /\ Last(calls) = calls[Len(calls)]
      BY <2>1, TopOfSequence DEF TypeInv
    <3> QED  BY <3>1
  <2>3. Conf[cur.s].type = "SubJourney"
    BY <1>2, <2>1, <2>2 DEF CallsOK
  <2> QED  BY <1>1, <2>3
<1>4. Stacked(Len(calls)) /\ Unmarked
  BY <1>2, <1>3 DEF ExecOK, MarksExact
<1> QED  BY <1>1, <1>2, <1>3, <1>4

\* An execution that touches neither the stack nor the marks keeps the calls in order.
LEMMA ReturnCalls ==
    ASSUME TypeInv, CallInv, ~ResultLost, NEW t, Executing(t), NEW o, Returns(o),
           t \notin {"SubJourney", "Success", "Failure", "End"},
           UNCHANGED <<cur, stack, marks, props, saved, result, calls>>
    PROVE  CallInv'
<1>1. /\ mode = "exec" /\ result = "none" /\ PropsMatchCalls /\ CallsOK
      /\ ~ChildEnded /\ Stacked(Len(calls)) /\ Unmarked
  BY ExecutionFindsCalls
<1>2. CallsOK' /\ PropsMatchCalls' /\ ~ChildEnded' /\ Stacked(Len(calls))' /\ Unmarked'
  BY <1>1 DEF CallsOK, PropsMatchCalls, ChildEnded, Stacked, Unmarked
<1>3. CASE chain = 0
  <2>1. mode' = "settle" /\ Conf[cur'.s].type = t
    BY <1>3, ExecutingStep DEF Returns
  <2>2. SettleOK'
    BY <1>2, <2>1 DEF SettleOK, Called, EndsHere
  <2> QED  BY <1>1, <1>2, <2>1, <2>2 DEF CallInv
<1>4. CASE chain # 0
  <2>1. mode' = "exec"
    BY <1>1, <1>4 DEF Returns
  <2>2. ExecOK'
    BY <1>2 DEF ExecOK, MarksExact
  <2> QED  BY <1>1, <1>2, <2>1, <2>2 DEF CallInv
<1> QED  BY <1>3, <1>4

\* The steps that ask, suspend, count or decide keep the calls in order.
LEMMA PlainCalls ==
    ASSUME TypeInv, CallInv, ~ResultLost,
           \/ ExecForm \/ ExecChoice \/ ExecMetadata \/ ExecSuspendFlow \/ ExecRetry
           \/ ExecBranch \/ ExecHTTPFinishResponse
    PROVE  CallInv'
<1>1. UNCHANGED <<cur, stack, marks, props, saved, result, calls>>
  BY DEF ExecForm, ExecChoice, ExecMetadata, ExecSuspendFlow, ExecRetry, ExecBranch,
         ExecHTTPFinishResponse, closedCtx
<1>2. \E o : Returns(o)
  BY DEF ExecForm, ExecChoice, ExecMetadata, ExecSuspendFlow, ExecRetry, ExecBranch,
         ExecHTTPFinishResponse
<1>3. \E t : t \notin {"SubJourney", "Success", "Failure", "End"} /\ Executing(t)
  BY DEF ExecForm, ExecChoice, ExecMetadata, ExecSuspendFlow, ExecRetry, ExecBranch,
         ExecHTTPFinishResponse
<1> QED  BY <1>1, <1>2, <1>3, ReturnCalls

\* The end of a child leaves its result for the innermost call.
LEMMA EndCalls ==
    ASSUME ChainsWithout({"Success", "Failure", "End"}), TypeInv, CallInv, ~ResultLost, ExecEnd
    PROVE  CallInv'
<1>1. PICK t \in {"Success", "Failure", "End"} : Executing(t)
  BY DEF ExecEnd
<1>2. /\ mode = "exec" /\ result = "none" /\ PropsMatchCalls /\ CallsOK
      /\ ~ChildEnded /\ Stacked(Len(calls)) /\ Unmarked
  BY <1>1, ExecutionFindsCalls
<1>3. chain = 0 /\ Here = Conf[cur.s] /\ Conf[cur.s].type = t
  BY <1>1, ExecutingStep DEF ChainsWithout, TypeInv, TypeOK
<1>4. /\ mode' = "settle" /\ UNCHANGED <<cur, stack, props, saved, result, calls>>
      /\ marks' = IF stack = <<>> THEN marks
                  ELSE [marks EXCEPT ![Last(stack).s] = EndValue(Conf[cur.s])]
  BY <1>3 DEF ExecEnd, Returns
<1>5. CallsOK' /\ PropsMatchCalls' /\ ~ChildEnded' /\ Stacked(Len(calls))'
  BY <1>2, <1>4 DEF CallsOK, PropsMatchCalls, ChildEnded, Stacked
<1>6. stack # <<>> => calls # <<>> /\ Last(stack).s = Last(calls).at
  <2> SUFFICES ASSUME stack # <<>> PROVE calls # <<>> /\ Last(stack).s = Last(calls).at
    OBVIOUS
  <2>1. Len(stack) \in Nat \ {0} /\ Last(stack) = stack[Len(stack)]
    BY TopOfSequence DEF TypeInv, TypeOK
  <2>2. Len(calls) = Len(stack) /\ stack[Len(calls)].s = calls[Len(calls)].at
    BY <1>2, <2>1 DEF Stacked
  <2> QED  BY <2>1, <2>2 DEF Last
<1>7. SettleOK'
  <2>1. ~Called'
    BY <1>1, <1>3, <1>4 DEF Called
  <2>2. CASE stack = <<>>
    <3>1. ~EndsHere' /\ Unmarked'
      BY <1>2, <1>4, <2>2 DEF EndsHere, Unmarked
    <3> QED  BY <1>5, <2>1, <3>1 DEF SettleOK
  <2>3. CASE stack # <<>>
    <3>1. EndsHere'
      BY <1>1, <1>3, <1>4, <2>3 DEF EndsHere
    <3>2. \A s \in Steps : marks'[s] = IF s = Last(calls).at THEN EndValue(Conf[cur.s]) ELSE "unset"
      BY <1>2, <1>4, <1>6, <2>3 DEF Unmarked, TypeInv, TypeOK
    <3>3. Marked(EndValue(Conf[cur.s]))'
      BY <1>4, <1>6, <2>3, <3>2 DEF Marked, EndValue, Last
    <3> QED  BY <1>5, <2>1, <3>1, <3>3 DEF SettleOK
  <2> QED  BY <2>2, <2>3
<1> QED  BY <1>2, <1>4, <1>5, <1>7 DEF CallInv

\* At a SubJourney that executes, its mark tells whether its child has ended.
LEMMA SubJourneyFindsCalls ==
    ASSUME TypeInv, CallInv, ~ResultLost, Executing("SubJourney")
    PROVE  /\ mode = "exec" /\ chain = 0 /\ result = "none"
           /\ Conf[cur.s].type = "SubJourney" /\ cur.s \in Steps
           /\ PropsMatchCalls /\ CallsOK
           /\ marks[cur.s] = "unset" => ~ChildEnded /\ Stacked(Len(calls)) /\ Unmarked
           /\ marks[cur.s] # "unset" => /\ calls # <<>> /\ marks[cur.s] = Last(calls).end
                                        /\ cur.s = Last(calls).at
                                        /\ Stacked(Len(calls) - 1)
                                        /\ \A s \in Steps : s # cur.s => marks[s] = "unset"
<1>1. /\ mode = "exec" /\ chain = 0 /\ result = "none"
      /\ Conf[cur.s].type = "SubJourney" /\ cur.s \in Steps
  BY ExecutingStep DEF TypeInv, TypeOK
<1>2. PropsMatchCalls /\ CallsOK /\ ExecOK
  BY <1>1 DEF CallInv
<1>3. CASE ChildEnded
  <2>1. calls # <<>> /\ cur.s = Last(calls).at /\ Stacked(Len(calls) - 1) /\ Marked(Last(calls).end)
    BY <1>2, <1>3 DEF ExecOK, MarksExact, ChildEnded
  <2>2. Last(calls) \in Calls /\ Last(calls).end \notin {"open", "lost"}
    BY <1>3, <2>1, TopOfSequence DEF TypeInv, ChildEnded, ResultLost
  <2>3. marks[cur.s] = Last(calls).end /\ \A s \in Steps : s # cur.s => marks[s] = "unset"
    BY <1>1, <2>1 DEF Marked
  <2>4. marks[cur.s] # "unset"
    BY <2>2, <2>3 DEF Calls
  <2> QED  BY <1>1, <1>2, <2>1, <2>3, <2>4
<1>4. CASE ~ChildEnded
  <2>1. Stacked(Len(calls)) /\ Unmarked
    BY <1>2, <1>4 DEF ExecOK, MarksExact
  <2> QED  BY <1>1, <1>2, <1>4, <2>1 DEF Unmarked
<1> QED  BY <1>3, <1>4

\* A SubJourney whose child has ended takes its call off all three records.
LEMMA ReturnsCalls ==
    ASSUME TypeInv, CallInv, ~ResultLost, SubJourneyReturns
    PROVE  /\ CallInv'
           /\ calls # <<>> /\ calls' = Front(calls) /\ out' = Last(calls).end
<1>1. Executing("SubJourney") /\ marks[cur.s] # "unset"
  BY DEF SubJourneyReturns
<1>2. /\ mode = "exec" /\ chain = 0 /\ result = "none"
      /\ Conf[cur.s].type = "SubJourney" /\ cur.s \in Steps
      /\ PropsMatchCalls /\ CallsOK
      /\ calls # <<>> /\ marks[cur.s] = Last(calls).end /\ cur.s = Last(calls).at
      /\ Stacked(Len(calls) - 1) /\ \A s \in Steps : s # cur.s => marks[s] = "unset"
  BY <1>1, SubJourneyFindsCalls
<1>3. /\ mode' = "settle" /\ out' = marks[cur.s] /\ UNCHANGED <<stack, cur, result>>
      /\ marks' = [marks EXCEPT ![cur.s] = "unset"] /\ calls' = Front(calls)
  BY <1>2 DEF SubJourneyReturns, Returns, Recorded
<1>4. /\ Len(calls) \in Nat \ {0} /\ Last(calls) = calls[Len(calls)]
      /\ calls' \in Seq(Calls) /\ Len(calls') = Len(calls) - 1
      /\ \A i \in 1 .. Len(calls) - 1 : calls'[i] = calls[i]
  BY <1>2, <1>3, TopOfSequence DEF TypeInv
<1>5. CallsOK'
  <2> SUFFICES ASSUME NEW i \in 1 .. Len(calls')
               PROVE  /\ Conf[calls'[i].at].type = "SubJourney"
                      /\ i < Len(calls') => calls'[i].end = "open"
    BY DEF CallsOK
  <2>1. i \in 1 .. Len(calls) - 1 /\ i \in 1 .. Len(calls) /\ i < Len(calls)
    BY <1>4
  <2>2. calls'[i] = calls[i]
    BY <1>4, <2>1
  <2> QED  BY <1>2, <2>1, <2>2 DEF CallsOK
<1>6. calls' # <<>> => Last(calls') = calls[Len(calls) - 1] /\ Len(calls) > 1
  <2> SUFFICES ASSUME calls' # <<>> PROVE Last(calls') = calls[Len(calls) - 1] /\ Len(calls) > 1
    OBVIOUS
  <2>1. Len(calls') \in Nat \ {0} /\ Last(calls') = calls'[Len(calls')]
    BY <1>4, TopOfSequence
  <2> QED  BY <1>4, <2>1
<1>7. ~ChildEnded'
  BY <1>2, <1>4, <1>6 DEF CallsOK, ChildEnded
<1>8. PropsMatchCalls'
  <2>1. saved \in Seq(Steps \cup {None}) /\ Len(saved) = Len(calls) /\ saved # <<>>
    BY <1>2, <1>4 DEF PropsMatchCalls, TypeInv, TypeOK
  <2>2. props' = saved[Len(saved)] /\ saved' = Front(saved)
    BY <2>1 DEF SubJourneyReturns, Last
  <2>3. Len(saved') = Len(saved) - 1 /\ \A i \in 1 .. Len(saved) - 1 : saved'[i] = saved[i]
    BY <2>1, <2>2, TopOfSequence
  <2>4. saved[Len(calls)] = IF Len(calls) = 1 THEN None ELSE calls[Len(calls) - 1].at
    BY <1>2, <1>4 DEF PropsMatchCalls
  <2>5. props' = IF calls' = <<>> THEN None ELSE Last(calls').at
    BY <1>4, <1>6, <2>1, <2>2, <2>4, EmptySeq
  <2>6. \A i \in 1 .. Len(calls') : saved'[i] = IF i = 1 THEN None ELSE calls'[i - 1].at
    <3> SUFFICES ASSUME NEW i \in 1 .. Len(calls')
                 PROVE  saved'[i] = IF i = 1 THEN None ELSE calls'[i - 1].at
      OBVIOUS
    <3>1. i \in 1 .. Len(calls) - 1 /\ i \in 1 .. Len(calls) /\ i \in Nat
      BY <1>4
    <3>2. saved'[i] = saved[i] /\ (i # 1 => calls'[i - 1] = calls[i - 1])
      BY <1>4, <2>1, <2>3, <3>1
    <3>3. saved[i] = IF i = 1 THEN None ELSE calls[i - 1].at
      BY <1>2, <3>1 DEF PropsMatchCalls
    <3> QED  BY <3>2, <3>3
  <2> QED  BY <1>4, <2>1, <2>3, <2>5, <2>6 DEF PropsMatchCalls
<1>9. SettleOK'
  <2>1. out' \in {"true", "false"}
    BY <1>1, <1>2, <1>3 DEF TypeInv, TypeOK
  <2>2. ~Called' /\ ~EndsHere'
    BY <1>2, <1>3, <2>1, ResultsAreOutcomes DEF Called, EndsHere
  <2>3. Stacked(Len(calls))'
    BY <1>2, <1>3, <1>4 DEF Stacked
  <2>4. Unmarked'
    BY <1>2, <1>3 DEF Unmarked, TypeInv, TypeOK
  <2> QED  BY <1>7, <2>2, <2>3, <2>4 DEF SettleOK
<1> QED  BY <1>2, <1>3, <1>5, <1>8, <1>9 DEF CallInv

\* A tagged SubJourney is passed by and leaves the calls as they are.
LEMMA PassedCalls ==
    ASSUME TypeInv, CallInv, ~ResultLost, SubJourneyPassed
    PROVE  CallInv'
<1>1. Executing("SubJourney") /\ marks[cur.s] = "unset"
  BY DEF SubJourneyPassed
<1>2. /\ mode = "exec" /\ chain = 0 /\ result = "none" /\ Conf[cur.s].type = "SubJourney"
      /\ PropsMatchCalls /\ CallsOK /\ ~ChildEnded /\ Stacked(Len(calls)) /\ Unmarked
  BY <1>1, SubJourneyFindsCalls
<1>3. /\ mode' = "settle" /\ out' = "true"
      /\ UNCHANGED <<stack, cur, marks, props, saved, result, calls>>
  BY <1>2 DEF SubJourneyPassed, Returns, closedCtx
<1>4. ~Called' /\ ~EndsHere'
  BY <1>2, <1>3, ResultsAreOutcomes DEF Called, EndsHere
<1>5. CallsOK' /\ PropsMatchCalls' /\ ~ChildEnded' /\ Stacked(Len(calls))' /\ Unmarked'
  BY <1>2, <1>3 DEF CallsOK, PropsMatchCalls, ChildEnded, Stacked, Unmarked
<1>6. SettleOK'
  BY <1>4, <1>5 DEF SettleOK
<1> QED  BY <1>2, <1>3, <1>5, <1>6 DEF CallInv

\* A call is put on all three records, under the frame of the child's entry.
LEMMA CallsCalls ==
    ASSUME TypeInv, CallInv, ~ResultLost, SubJourneyCalls
    PROVE  CallInv' /\ Len(calls') = Len(calls) + 1
<1>1. Executing("SubJourney") /\ marks[cur.s] = "unset"
  BY DEF SubJourneyCalls
<1>2. /\ mode = "exec" /\ chain = 0 /\ result = "none" /\ Conf[cur.s].type = "SubJourney"
      /\ cur.s \in Steps
      /\ PropsMatchCalls /\ CallsOK /\ ~ChildEnded /\ Stacked(Len(calls)) /\ Unmarked
  BY <1>1, SubJourneyFindsCalls
<1>3. /\ mode' = "settle" /\ out' = Empty /\ UNCHANGED <<cur, marks, result>>
      /\ stack' = stack \o <<cur, Frame(Here.sub, Empty)>>
      /\ saved' = Append(saved, props) /\ props' = cur.s
      /\ calls' = Append(calls, [at |-> cur.s, end |-> "open"])
  BY <1>2 DEF SubJourneyCalls, Returns
<1>4. [at |-> cur.s, end |-> "open"] \in Calls /\ calls \in Seq(Calls) /\ Len(calls) \in Nat
  BY <1>2 DEF Calls, TypeInv
<1>5. /\ Len(calls') = Len(calls) + 1 /\ calls' # <<>>
      /\ \A i \in 1 .. Len(calls) : calls'[i] = calls[i]
      /\ calls'[Len(calls) + 1] = [at |-> cur.s, end |-> "open"]
  <2> DEFINE call == [at |-> cur.s, end |-> "open"]
  <2>1. call \in Calls /\ calls' = Append(calls, call)
    BY <1>3, <1>4
  <2> HIDE DEF call
  <2>2. /\ Len(calls') = Len(calls) + 1 /\ calls' # <<>>
        /\ \A i \in 1 .. Len(calls) : calls'[i] = calls[i]
        /\ calls'[Len(calls) + 1] = call
    BY <1>4, <2>1, AppendProperties
  <2> QED  BY <2>2 DEF call
<1>6. Last(calls') = [at |-> cur.s, end |-> "open"]
  BY <1>5 DEF Last
<1>7. CallsOK'
  <2>1. calls # <<>> => calls[Len(calls)].end = "open"
    BY <1>2 DEF ChildEnded, Last
  <2>2. \A i \in 1 .. Len(calls) : calls[i].end = "open" /\ Conf[calls[i].at].type = "SubJourney"
    BY <1>2, <1>4, <2>1 DEF CallsOK
  <2> QED  BY <1>2, <1>4, <1>5, <2>2 DEF CallsOK
<1>8. PropsMatchCalls'
  <2>1. saved \in Seq(Steps \cup {None}) /\ Len(saved) = Len(calls)
    BY <1>2 DEF PropsMatchCalls, TypeInv, TypeOK
  <2>2. /\ Len(saved') = Len(calls) + 1 /\ saved'[Len(calls) + 1] = props
        /\ \A i \in 1 .. Len(calls) : saved'[i] = saved[i]
    BY <1>3, <1>4, <2>1
  <2>3. props = IF Len(calls) + 1 = 1 THEN None ELSE calls[Len(calls)].at
    BY <1>2, <1>4, EmptySeq DEF PropsMatchCalls, Last
  <2>4. \A i \in 1 .. Len(calls) : saved'[i] = IF i = 1 THEN None ELSE calls'[i - 1].at
    BY <1>2, <1>4, <1>5, <2>2 DEF PropsMatchCalls
  <2>5. saved'[Len(calls) + 1] = IF Len(calls) + 1 = 1 THEN None ELSE calls'[Len(calls)].at
    BY <1>4, <1>5, <2>2, <2>3
  <2>6. \A i \in 1 .. Len(calls') : saved'[i] = IF i = 1 THEN None ELSE calls'[i - 1].at
    BY <1>4, <1>5, <2>4, <2>5
  <2> QED  BY <1>3, <1>5, <1>6, <2>2, <2>6 DEF PropsMatchCalls
<1>9. SettleOK'
  <2>1. Called' /\ ~EndsHere' /\ Unmarked' /\ ~ChildEnded'
    BY <1>2, <1>3, <1>6 DEF Called, EndsHere, Unmarked, ChildEnded
  <2>2. Len(stack) = Len(calls) /\ stack \in Seq(Frames) /\ cur \in Frames
    BY <1>2 DEF Stacked, TypeInv, TypeOK, Frames
  <2>3. Len(stack') = Len(calls) + 2 /\ stack'[Len(calls) + 1] = cur
        /\ \A i \in 1 .. Len(calls) : stack'[i] = stack[i]
    <3>1. Frame(Here.sub, Empty) \in Frames
      BY <1>1, ExecutingStep DEF ConfigOK, Frames, Frame
    <3>2. /\ Len(stack') = Len(stack) + 2 /\ stack'[Len(stack) + 1] = cur
          /\ \A i \in 1 .. Len(stack) : stack'[i] = stack[i]
      <4>1. PICK now, old, top, entry :
              now = stack' /\ old = stack /\ top = cur /\ entry = Frame(Here.sub, Empty)
        OBVIOUS
      <4>2. old \in Seq(Frames) /\ top \in Frames /\ entry \in Frames /\ now = old \o <<top, entry>>
        BY <1>3, <2>2, <3>1, <4>1
      <4>3. /\ Len(now) = Len(old) + 2 /\ now[Len(old) + 1] = top
            /\ \A i \in 1 .. Len(old) : now[i] = old[i]
        BY ONLY <4>2, TwoMore
      <4> QED  BY <4>1, <4>3
    <3> QED  BY <2>2, <3>2
  <2>4. Stacked(Len(calls) + 1)'
    BY <1>2, <1>4, <1>5, <2>3 DEF Stacked
  <2> QED  BY <2>1, <2>4 DEF SettleOK
<1> QED  BY <1>2, <1>3, <1>5, <1>7, <1>8, <1>9 DEF CallInv

\* Entering and leaving a Chain leaves the calls as they are.
LEMMA ChainCalls ==
    ASSUME TypeInv, CallInv, ~ResultLost, EnterChain \/ LeaveChain
    PROVE  CallInv'
<1>1. mode = "exec" /\ UNCHANGED <<cur, stack, props, saved, result, calls>>
  BY DEF EnterChain, LeaveChain, Executing, closedCtx
<1>2. Conf[cur.s].type = "Chain" /\ result = "none"
  <2>1. CASE EnterChain
    BY <2>1, ExecutingStep DEF EnterChain
  <2>2. CASE LeaveChain
    BY <2>2 DEF LeaveChain, Children, TypeInv, TypeOK
  <2> QED  BY <2>1, <2>2
<1>3. PropsMatchCalls /\ CallsOK /\ ExecOK
  BY <1>1 DEF CallInv
<1>4. ~ChildEnded
  <2> SUFFICES ASSUME ChildEnded PROVE FALSE
    OBVIOUS
  <2>1. cur.s = Last(calls).at /\ calls # <<>>
    BY <1>3 DEF ExecOK, ChildEnded
  <2>2. Len(calls) \in Nat \ {0} /\ Last(calls) = calls[Len(calls)]
    BY <2>1, TopOfSequence DEF TypeInv
  <2>3. Conf[cur.s].type = "SubJourney"
    BY <1>3, <2>1, <2>2 DEF CallsOK
  <2> QED  BY <1>2, <2>3
<1>5. Stacked(Len(calls)) /\ Unmarked
  BY <1>3, <1>4 DEF ExecOK, MarksExact
<1>6. CallsOK' /\ PropsMatchCalls' /\ ~ChildEnded' /\ Stacked(Len(calls))'
  BY <1>1, <1>3, <1>4, <1>5 DEF CallsOK, PropsMatchCalls, ChildEnded, Stacked
<1>7. CASE EnterChain
  <2>1. mode' = "exec" /\ Unmarked'
    BY <1>1, <1>5, <1>7 DEF EnterChain, closedCtx, Unmarked
  <2>2. ExecOK'
    BY <1>6, <2>1 DEF ExecOK, MarksExact
  <2> QED  BY <1>1, <1>2, <1>6, <2>1, <2>2 DEF CallInv
<1>8. CASE LeaveChain
  <2>1. mode' = "settle" /\ Unmarked'
    BY <1>1, <1>5, <1>8 DEF LeaveChain, Unmarked, TypeInv, TypeOK
  <2>2. ~Called' /\ ~EndsHere'
    BY <1>1, <1>2 DEF Called, EndsHere
  <2>3. SettleOK'
    BY <1>6, <2>1, <2>2 DEF SettleOK
  <2> QED  BY <1>1, <1>2, <1>6, <2>1, <2>3 DEF CallInv
<1> QED  BY <1>7, <1>8

\* A popped frame is the one of the innermost call, or the child that it called.
LEMMA PopCalls ==
    ASSUME TypeInv, CallInv, ~ResultLost, PopFrame
    PROVE  CallInv'
<1>1. /\ mode = "frames" /\ stack # <<>> /\ mode' = "exec" /\ stack' = Front(stack)
      /\ UNCHANGED <<marks, props, saved, result, calls>>
  BY DEF PopFrame, closedCtx
<1>2. PropsMatchCalls /\ CallsOK /\ WaitOK /\ result = "none"
  BY <1>1 DEF CallInv, TypeInv, TypeOK
<1>3. /\ Len(stack) \in Nat \ {0} /\ Last(stack) = stack[Len(stack)]
      /\ Len(stack') = Len(stack) - 1 /\ \A i \in 1 .. Len(stack) - 1 : stack'[i] = stack[i]
  BY <1>1, TopOfSequence DEF TypeInv, TypeOK
<1>4. CallsOK' /\ PropsMatchCalls' /\ (ChildEnded' <=> ChildEnded)
  BY <1>1, <1>2 DEF CallsOK, PropsMatchCalls, ChildEnded
<1>5. MarksExact'
  BY <1>1, <1>2 DEF WaitOK, MarksExact, Marked, Unmarked, ChildEnded
<1>6. calls \in Seq(Calls) /\ Len(calls) \in Nat
  BY DEF TypeInv
<1>7. CASE ChildEnded
  <2>1. Len(stack) = Len(calls) /\ \A i \in 1 .. Len(calls) : stack[i].s = calls[i].at
    BY <1>2, <1>6, <1>7 DEF WaitOK, Stacked
  <2>2. Stacked(Len(calls) - 1)'
    BY <1>1, <1>3, <1>6, <2>1 DEF Stacked
  <2>3. Last(stack).s = Last(calls).at
    BY <1>3, <2>1 DEF Last
  <2>4. Last(calls).at \in Steps
    <3>1. Last(calls) \in Calls
      BY <1>3, <1>6, <2>1 DEF Last
    <3> QED  BY <3>1 DEF Calls
  <2>5. cur'.s = Last(calls).at
    BY <2>3, <2>4, ConfAssumption DEF PopFrame, Frame
  <2>6. ExecOK'
    BY <1>1, <1>4, <1>5, <1>7, <2>2, <2>5 DEF ExecOK
  <2> QED  BY <1>1, <1>2, <1>4, <2>6 DEF CallInv
<1>8. CASE ~ChildEnded
  <2>1. Len(stack) = Len(calls) + 1 /\ \A i \in 1 .. Len(calls) : stack[i].s = calls[i].at
    BY <1>2, <1>6, <1>8 DEF WaitOK, Stacked
  <2>2. Stacked(Len(calls))'
    BY <1>1, <1>3, <1>6, <2>1 DEF Stacked
  <2>3. ExecOK'
    BY <1>4, <1>5, <1>8, <2>2 DEF ExecOK
  <2> QED  BY <1>1, <1>2, <1>4, <2>3 DEF CallInv
<1> QED  BY <1>7, <1>8

\* An error keeps what is known of the calls; a run out of frames has none open.
LEMMA StopCalls ==
    ASSUME TypeInv, CallInv, ~ResultLost, FrameFails \/ NoFrameLeft \/ InfiniteLoop \/ StepFails
    PROVE  CallInv'
<1>1. mode' = "over" /\ UNCHANGED calls
  BY DEF FrameFails, NoFrameLeft, InfiniteLoop, StepFails, Finish
<1>2. CallsOK'
  BY <1>1 DEF CallInv, CallsOK
<1>3. result' \in {"succeeded", "failed"} => calls' = <<>>
  <2>1. CASE NoFrameLeft
    BY <2>1 DEF NoFrameLeft, CallInv
  <2> QED  BY <2>1 DEF FrameFails, InfiniteLoop, StepFails, Finish
<1> QED  BY <1>1, <1>2, <1>3 DEF CallInv

\* A step that asked is no call and no end: its frame is put on top of those of the calls.
LEMMA PauseCalls ==
    ASSUME TypeInv, CallInv, ~ResultLost, Pause
    PROVE  CallInv'
<1>1. /\ mode = "settle" /\ asked # {} /\ mode' = "paused" /\ stack' = Append(stack, cur)
      /\ UNCHANGED <<cur, marks, props, saved, result, calls>>
  BY DEF Pause, Settling, closedCtx
<1>2. Conf[cur.s].type \in Asking /\ result = "none"
  BY <1>1 DEF TypeInv, TypeOK, AskedInTime
<1>3. PropsMatchCalls /\ CallsOK /\ SettleOK
  BY <1>1 DEF CallInv
<1>4. ~Called /\ ~EndsHere
  BY <1>2 DEF Called, EndsHere, Asking
<1>5. ~ChildEnded /\ Stacked(Len(calls)) /\ Unmarked
  BY <1>3, <1>4 DEF SettleOK
<1>6. CallsOK' /\ PropsMatchCalls' /\ ~ChildEnded' /\ MarksExact'
  BY <1>1, <1>3, <1>5 DEF CallsOK, PropsMatchCalls, ChildEnded, MarksExact, Unmarked
<1>7. Stacked(Len(calls) + 1)'
  <2>1. stack \in Seq(Frames) /\ cur \in Frames /\ Len(calls) \in Nat
    BY DEF TypeInv, TypeOK, Frames
  <2>2. Len(stack') = Len(stack) + 1 /\ \A i \in 1 .. Len(stack) : stack'[i] = stack[i]
    BY <1>1, <2>1
  <2> QED  BY <1>1, <1>5, <2>1, <2>2 DEF Stacked
<1>8. WaitOK'
  BY <1>6, <1>7 DEF WaitOK
<1> QED  BY <1>1, <1>2, <1>6, <1>8 DEF CallInv

\* What ending the innermost call makes of the record of the calls.
LEMMA EndedCalls ==
    ASSUME TypeInv, CallsOK, calls # <<>>, NEW e, calls' = EndedCall(e)
    PROVE  /\ calls' # <<>> /\ Len(calls') = Len(calls)
           /\ \A i \in 1 .. Len(calls) : calls'[i].at = calls[i].at
           /\ Last(calls').end = e /\ Last(calls').at = Last(calls).at
           /\ CallsOK'
<1>1. calls \in Seq(Calls) /\ Len(calls) \in Nat \ {0}
  BY TopOfSequence DEF TypeInv
<1>2. /\ DOMAIN calls' = DOMAIN calls
      /\ calls' = [calls EXCEPT ![Len(calls)] = [at |-> calls[Len(calls)].at, end |-> e]]
  BY <1>1 DEF EndedCall
<1>3. Len(calls') = Len(calls) /\ calls' # <<>>
  BY <1>1, <1>2
<1>4. /\ \A i \in 1 .. Len(calls) : i # Len(calls) => calls'[i] = calls[i]
      /\ calls'[Len(calls)] = [at |-> calls[Len(calls)].at, end |-> e]
  BY <1>1, <1>2
<1>5. CallsOK'
  BY <1>1, <1>3, <1>4 DEF CallsOK
<1> QED  BY <1>1, <1>3, <1>4, <1>5 DEF Last

\* The end of a child ends the innermost call, whose frame is on top.
LEMMA EndChildCalls ==
    ASSUME TypeInv, CallInv, ~ResultLost, EndChild
    PROVE  CallInv' /\ Len(calls') = Len(calls)
<1>1. /\ mode = "settle" /\ stack # <<>> /\ Conf[cur.s].type \in Terminal /\ mode' = "frames"
      /\ UNCHANGED <<stack, cur, marks, props, saved, result>>
      /\ Recorded(EndedCall(ClosedBy(Conf[cur.s])))
  BY DEF EndChild, Ends, Settling, closedCtx
<1>2. PropsMatchCalls /\ CallsOK /\ SettleOK /\ result = "none"
  BY <1>1 DEF CallInv, TypeInv, TypeOK
<1>3. ~Called /\ ~ChildEnded /\ Stacked(Len(calls))
  BY <1>1, <1>2 DEF Called, SettleOK, Terminal
<1>4. Len(stack) = Len(calls) /\ Len(stack) \in Nat \ {0} /\ calls # <<>>
  <2>1. Len(stack) = Len(calls)
    BY <1>3 DEF Stacked
  <2>2. Len(stack) \in Nat \ {0}
    BY <1>1, TopOfSequence DEF TypeInv, TypeOK
  <2> QED  BY <2>1, <2>2
<1>5. calls' = EndedCall(ClosedBy(Conf[cur.s]))
  BY <1>1, <1>4 DEF Recorded
<1>6. /\ calls' # <<>> /\ Len(calls') = Len(calls)
      /\ \A i \in 1 .. Len(calls) : calls'[i].at = calls[i].at
      /\ Last(calls').end = ClosedBy(Conf[cur.s]) /\ Last(calls').at = Last(calls).at
      /\ CallsOK'
  BY <1>2, <1>4, <1>5, EndedCalls
<1>7. CASE ClosedBy(Conf[cur.s]) = "lost"
  BY <1>6, <1>7 DEF CallInv, ResultLost, ClosedBy
<1>8. CASE ClosedBy(Conf[cur.s]) # "lost"
  <2>1. EndsHere /\ Last(calls').end = EndValue(Conf[cur.s])
    BY <1>1, <1>6, <1>8 DEF EndsHere, Terminal, ClosedBy
  <2>2. Marked(EndValue(Conf[cur.s]))
    BY <1>2, <2>1 DEF SettleOK
  <2>3. EndValue(Conf[cur.s]) \in {"true", "false"}
    BY <1>8, ConfAssumption DEF TypeInv, TypeOK, ConfigOK, EndValue, ClosedBy
  <2>4. ChildEnded'
    BY <1>6, <2>1, <2>3 DEF ChildEnded
  <2>5. MarksExact'
    BY <1>1, <1>4, <1>6, <2>1, <2>2, <2>4 DEF MarksExact, Marked
  <2>6. Stacked(Len(calls))'
    BY <1>1, <1>3, <1>6 DEF Stacked
  <2>7. WaitOK'
    BY <2>4, <2>5, <2>6 DEF WaitOK
  <2>8. PropsMatchCalls'
    <3>1. /\ Len(saved) = Len(calls) /\ props = Last(calls).at
          /\ \A i \in 1 .. Len(calls) : saved[i] = IF i = 1 THEN None ELSE calls[i - 1].at
      BY <1>2, <1>4 DEF PropsMatchCalls
    <3>2. \A i \in 1 .. Len(calls) : i # 1 => calls'[i - 1].at = calls[i - 1].at
      BY <1>4, <1>6
    <3>3. \A i \in 1 .. Len(calls') : saved'[i] = IF i = 1 THEN None ELSE calls'[i - 1].at
      BY <1>1, <1>6, <3>1, <3>2
    <3> QED  BY <1>1, <1>6, <3>1, <3>3 DEF PropsMatchCalls
  <2> QED  BY <1>1, <1>2, <1>6, <2>7, <2>8 DEF CallInv
<1> QED  BY <1>6, <1>7, <1>8

\* The end of the run finds no call open.
LEMMA EndRootCalls ==
    ASSUME TypeInv, CallInv, ~ResultLost, EndRoot
    PROVE  CallInv'
<1>1. /\ mode = "settle" /\ stack = <<>> /\ Conf[cur.s].type \in Terminal /\ mode' = "over"
      /\ UNCHANGED calls
  BY DEF EndRoot, Ends, Settling, Finish
<1>2. CallsOK /\ SettleOK
  BY <1>1 DEF CallInv
<1>3. Len(stack) = Len(calls)
  BY <1>1, <1>2 DEF SettleOK, Called, Stacked, Terminal
<1>4. calls = <<>>
  BY <1>1, <1>3, EmptySeq DEF TypeInv
<1> QED  BY <1>1, <1>2, <1>4 DEF CallInv, CallsOK

\* An empty outcome is a call, or it loses the result of a child, or ends a run without calls.
LEMMA YieldCalls ==
    ASSUME TypeInv, CallInv, ~ResultLost, Yield
    PROVE  CallInv' /\ Len(calls') = Len(calls)
<1>1. /\ mode = "settle" /\ out = Empty /\ Conf[cur.s].type \notin Terminal /\ mode' = "frames"
      /\ UNCHANGED <<stack, cur, marks, props, saved, result>>
  BY DEF Yield, Continues, Settling, closedCtx
<1>2. PropsMatchCalls /\ CallsOK /\ SettleOK /\ result = "none" /\ calls \in Seq(Calls)
  BY <1>1 DEF CallInv, TypeInv, TypeOK
<1>3. ~EndsHere /\ ~ChildEnded /\ Unmarked
  BY <1>1, <1>2 DEF EndsHere, SettleOK, Terminal
<1>4. CASE Conf[cur.s].type = "SubJourney"
  <2>1. UNCHANGED calls
    BY <1>4 DEF Yield
  <2>2. Stacked(Len(calls) + 1)
    BY <1>1, <1>2, <1>4 DEF Called, SettleOK
  <2>3. stack' # <<>>
    BY <1>1, <1>2, <2>2 DEF Stacked
  <2>4. CallsOK' /\ PropsMatchCalls' /\ ~ChildEnded' /\ MarksExact' /\ Stacked(Len(calls) + 1)'
    BY <1>1, <1>2, <1>3, <2>1, <2>2
    DEF CallsOK, PropsMatchCalls, ChildEnded, MarksExact, Unmarked, Stacked
  <2>5. WaitOK'
    BY <2>4 DEF WaitOK
  <2> QED  BY <1>1, <1>2, <2>1, <2>3, <2>4, <2>5 DEF CallInv
<1>5. CASE Conf[cur.s].type # "SubJourney"
  <2>1. Stacked(Len(calls)) /\ Recorded(EndedCall("lost"))
    BY <1>2, <1>5 DEF Called, SettleOK, Yield
  <2>2. CASE calls = <<>>
    <3>1. calls' = <<>> /\ Len(stack) = 0
      BY <2>1, <2>2 DEF Recorded, Stacked
    <3>2. stack = <<>>
      BY <3>1, EmptySeq DEF TypeInv, TypeOK
    <3>3. CallsOK' /\ PropsMatchCalls'
      BY <1>1, <1>2, <2>2, <3>1 DEF CallsOK, PropsMatchCalls
    <3> QED  BY <1>1, <1>2, <2>2, <3>1, <3>2, <3>3 DEF CallInv
  <2>3. CASE calls # <<>>
    <3>1. calls' = EndedCall("lost")
      BY <2>1, <2>3 DEF Recorded
    <3>2. calls' # <<>> /\ Len(calls') = Len(calls) /\ Last(calls').end = "lost" /\ CallsOK'
      BY <1>2, <2>3, <3>1, EndedCalls
    <3> QED  BY <3>2 DEF CallInv, ResultLost
  <2> QED  BY <2>2, <2>3
<1> QED  BY <1>4, <1>5

\* The next step of a journey runs under the same calls.
LEMMA FollowCalls ==
    ASSUME TypeInv, CallInv, ~ResultLost, Follow
    PROVE  CallInv'
<1>1. /\ mode = "settle" /\ out # Empty /\ Conf[cur.s].type \notin Terminal
      /\ UNCHANGED <<stack, marks, props, saved, calls>>
      /\ \/ mode' = "exec" /\ result' = result
         \/ mode' = "over" /\ result' = "error"
  BY DEF Follow, Continues, Settling, Finish, closedCtx
<1>2. PropsMatchCalls /\ CallsOK /\ SettleOK /\ result = "none"
  BY <1>1 DEF CallInv, TypeInv, TypeOK
<1>3. ~Called /\ ~EndsHere
  BY <1>1 DEF Called, EndsHere, Terminal
<1>4. ~ChildEnded /\ Unmarked /\ Stacked(Len(calls))
  BY <1>2, <1>3 DEF SettleOK
<1>5. CallsOK' /\ PropsMatchCalls' /\ ~ChildEnded' /\ Stacked(Len(calls))' /\ Unmarked'
  BY <1>1, <1>2, <1>4 DEF CallsOK, PropsMatchCalls, ChildEnded, Stacked, Unmarked
<1>6. ExecOK'
  BY <1>5 DEF ExecOK, MarksExact
<1> QED  BY <1>1, <1>2, <1>5, <1>6 DEF CallInv

\* The calls are carried through a pause.
LEMMA InvocationCalls ==
    ASSUME TypeInv, CallInv, ~ResultLost, Submit \/ Resume
    PROVE  CallInv' /\ UNCHANGED calls
<1>1. mode = "paused" /\ \E p : NextInvocation(p)
  BY DEF Submit, Resume
<1>2. mode' = "frames" /\ UNCHANGED <<stack, cur, marks, props, saved, result, calls>>
  BY <1>1 DEF NextInvocation, closedCtx
<1>3. PropsMatchCalls /\ CallsOK /\ WaitOK /\ result = "none" /\ calls \in Seq(Calls)
  BY <1>1 DEF CallInv, TypeInv, TypeOK
<1>4. stack # <<>>
  <2>1. Len(stack) = IF ChildEnded THEN Len(calls) ELSE Len(calls) + 1
    BY <1>3 DEF WaitOK, Stacked
  <2>2. Len(calls) \in Nat /\ (calls # <<>> => Len(calls) # 0)
    BY <1>3, EmptySeq
  <2> QED  BY <2>1, <2>2 DEF ChildEnded
<1>5. CallsOK' /\ PropsMatchCalls' /\ WaitOK'
  BY <1>2, <1>3
  DEF CallsOK, PropsMatchCalls, WaitOK, Stacked, MarksExact, Marked, Unmarked, ChildEnded
<1> QED  BY <1>2, <1>3, <1>4, <1>5 DEF CallInv

\* Once a result is lost the record of the calls does not change any more.
LEMMA LostStays ==
    ASSUME ResultLost, [Next]_vars
    PROVE  UNCHANGED calls
BY DEF vars, Next, Step, Execute, PopFrame, FrameFails, NoFrameLeft, InfiniteLoop, ExecForm,
       ExecChoice, ExecMetadata, ExecSuspendFlow, ExecRetry, ExecBranch, StepFails, ExecEnd,
       ExecHTTPFinishResponse, SubJourneyReturns, SubJourneyPassed, SubJourneyCalls, EnterChain,
       LeaveChain, Pause, EndChild, EndRoot, Yield, Follow, Submit, Resume, NextInvocation,
       Recorded

\* Only the calls, the returns and the ends change the record of the calls.
LEMMA OthersKeepCalls ==
    ASSUME [Next]_vars, ~SubJourneyReturns, ~SubJourneyCalls, ~EndChild, ~Yield
    PROVE  UNCHANGED calls
BY DEF vars, Next, Step, Execute, PopFrame, FrameFails, NoFrameLeft, InfiniteLoop, ExecForm,
       ExecChoice, ExecMetadata, ExecSuspendFlow, ExecRetry, ExecBranch, StepFails, ExecEnd,
       ExecHTTPFinishResponse, SubJourneyPassed, EnterChain, LeaveChain, Pause, EndRoot, Follow,
       Submit, Resume, NextInvocation

\* Every step keeps the calls in order.
LEMMA StepCalls ==
    ASSUME ChainsWithout({"Success", "Failure", "End"}), TypeInv, CallInv, [Next]_vars
    PROVE  CallInv'
<1>1. CASE UNCHANGED vars
  BY <1>1
  DEF vars, control, closedCtx, CallInv, CallsOK, ResultLost, PropsMatchCalls, ExecOK, SettleOK,
      WaitOK, Stacked, MarksExact, Marked, Unmarked, ChildEnded, Called, EndsHere
<1>2. CASE ResultLost
  <2>1. UNCHANGED calls
    BY <1>2, LostStays
  <2> QED  BY <1>2, <2>1 DEF CallInv, CallsOK, ResultLost
<1>3. CASE Next /\ ~ResultLost
  BY <1>3, PlainCalls, EndCalls, ReturnsCalls, PassedCalls, CallsCalls, ChainCalls, PopCalls,
     StopCalls, PauseCalls, EndChildCalls, EndRootCalls, YieldCalls, FollowCalls, InvocationCalls
  DEF Next, Step, Execute
<1> QED  BY <1>1, <1>2, <1>3

\* No call is open at the start.
LEMMA InitCalls == Init => CallInv
<1> SUFFICES ASSUME Init PROVE CallInv
  OBVIOUS
<1>1. /\ mode = "frames" /\ calls = <<>> /\ Len(stack) = 1 /\ stack # <<>> /\ result = "none"
      /\ props = None /\ saved = <<>> /\ Unmarked
  BY DEF Init, Unmarked
<1>2. Len(calls) = 0 /\ ~ChildEnded
  BY <1>1 DEF ChildEnded
<1>3. CallsOK /\ PropsMatchCalls /\ WaitOK
  BY <1>1, <1>2 DEF CallsOK, PropsMatchCalls, WaitOK, Stacked, MarksExact
<1> QED  BY <1>1, <1>3 DEF CallInv

\* The invariant of the calls says what the run checks of them.
LEMMA CallInvDiscipline ==
    ASSUME TypeInv, CallInv
    PROVE  CallDiscipline
<1> SUFFICES ASSUME ~ResultLost
             PROVE  /\ mode \in {"exec", "paused"} \/ (mode = "frames" /\ stack # <<>>) =>
                          FramesMatchCalls /\ PropsMatchCalls /\ MarksMatchCalls
                    /\ result \in {"succeeded", "failed"} => calls = <<>>
  BY DEF CallDiscipline
<1>1. result \in {"succeeded", "failed"} => calls = <<>>
  BY DEF CallInv
<1>2. calls \in Seq(Calls) /\ Len(calls) \in Nat /\ stack \in Seq(Frames) /\ cur \in Frames
  BY DEF TypeInv, TypeOK, Frames
<1>3. MarksExact => MarksMatchCalls
  BY DEF MarksExact, Marked, Unmarked, MarksMatchCalls, ChildEnded
<1>4. CASE mode = "exec"
  <2>1. PropsMatchCalls /\ ExecOK
    BY <1>4 DEF CallInv
  <2>2. /\ Tracked = Append(stack, cur) /\ Len(Tracked) = Len(stack) + 1
        /\ Tracked[Len(stack) + 1] = cur /\ \A i \in 1 .. Len(stack) : Tracked[i] = stack[i]
    BY <1>2, <1>4 DEF Tracked
  <2>3. CASE ChildEnded
    <3>1. Stacked(Len(calls) - 1) /\ cur.s = Last(calls).at
      BY <2>1, <2>3 DEF ExecOK
    <3>2. Len(calls) # 0
      BY <1>2, <2>3, EmptySeq DEF ChildEnded
    <3> QED  BY <1>1, <1>2, <1>3, <1>4, <2>1, <2>2, <2>3, <3>1, <3>2
             DEF FramesMatchCalls, Stacked, Last, ExecOK
  <2>4. CASE ~ChildEnded
    BY <1>1, <1>2, <1>3, <1>4, <2>1, <2>2, <2>4 DEF FramesMatchCalls, Stacked, ExecOK
  <2> QED  BY <2>3, <2>4
<1>5. CASE mode = "paused" \/ (mode = "frames" /\ stack # <<>>)
  <2>1. PropsMatchCalls /\ WaitOK /\ Tracked = stack
    BY <1>5 DEF CallInv, Tracked
  <2> QED  BY <1>1, <1>2, <1>3, <2>1 DEF FramesMatchCalls, Stacked, WaitOK
<1> QED  BY <1>1, <1>4, <1>5

\* The tracking stack, the stack of props and the marks in closedCtx agree on the SubJourney
\* calls that are open, through every pause and recursion: for all journeys whose Chains hold
\* no Success, Failure or End.
THEOREM CallsAreDisciplined ==
    ASSUME ChainsWithout({"Success", "Failure", "End"})
    PROVE  Spec => []CallDiscipline
<1>1. Init => TypeInv /\ CallInv
  BY InitTyped, InitCalls
<1>2. TypeInv /\ CallInv /\ [Next]_vars => (TypeInv /\ CallInv)'
  BY StepTyped, StepCalls
<1>3. TypeInv /\ CallInv => CallDiscipline
  BY CallInvDiscipline
<1> QED  BY <1>1, <1>2, <1>3, PTL DEF Spec

\* A SubJourney step that takes its call back goes on with the outcome that its own child
\* ended with: for all journeys whose Chains hold no Success, Failure or End.
THEOREM CallersGetChildResults ==
    ASSUME ChainsWithout({"Success", "Failure", "End"})
    PROVE  Spec => ReturnsChildResult
<1>1. Init => TypeInv /\ CallInv
  BY InitTyped, InitCalls
<1>2. TypeInv /\ CallInv /\ [Next]_vars => (TypeInv /\ CallInv)'
  BY StepTyped, StepCalls
<1>3. TypeInv /\ CallInv /\ [Next]_vars => [Len(calls') < Len(calls) => out' = Last(calls).end]_vars
  <2> SUFFICES ASSUME TypeInv, CallInv, [Next]_vars, Len(calls') < Len(calls)
               PROVE  out' = Last(calls).end
    OBVIOUS
  <2>1. Len(calls) \in Nat
    BY DEF TypeInv
  <2>2. calls' # calls
    BY <2>1
  <2>3. ~ResultLost
    BY <2>2, LostStays
  <2>4. SubJourneyReturns
    BY <2>1, <2>2, <2>3, OthersKeepCalls, CallsCalls, EndChildCalls, YieldCalls
  <2> QED  BY <2>3, <2>4, ReturnsCalls
<1> QED  BY <1>1, <1>2, <1>3, PTL DEF Spec, ReturnsChildResult
=============================================================================
