-------------------------- MODULE SchedulerProofs ---------------------------
(***************************************************************************)
(* Proofs about Scheduler.  The first part is about any schedules, callers *)
(* and administrators: the types, the single flight of a schedule and the  *)
(* freshness of shared answers.  The second part is about schedules that   *)
(* nobody edits: limits, and what the store says of timers and runs.       *)
(***************************************************************************)
EXTENDS Scheduler, SequenceTheorems, TLAPS

Depth(t) == 1 .. Len(stack[t])

(***************************************************************************)
(* The inductive invariant of the flights.                                 *)
(***************************************************************************)

\* A loop that is not free belongs to a schedule.
LoopsKnown == \A l \in Loops : loop[l].at # "free" => loop[l].id \in Ids

\* What an administrator has in hand; nobody administers before Start is done.
RequestsKnown ==
    /\ boot # {} => \A a \in Admins : admin[a].at = "idle"
    /\ \A id \in boot : store[id] # None
    /\ \A a \in Admins :
        /\ admin[a].at # "idle" => admin[a].id \in Ids
        /\ admin[a].at \in {"reload", "schedule", "register", "record"} => admin[a].sch # None
        /\ admin[a].at = "record" => admin[a].job \in Loops

(***************************************************************************)
(* What is true of a call f of task t: while it runs the schedule it is    *)
(* registered as the leader of the flight, and its value, when it has one, *)
(* is of an execution that was not over when it, or a follower of it, was  *)
(* called.                                                                 *)
(***************************************************************************)
CallOK(t, f) ==
    /\ f.at \in {"mark", "target", "save"} => f.sch # None
    /\ f.at \in Leading => running[f.id] = t
    /\ f.since <= ended[f.id]
    /\ f.at \in Leading /\ f.value # 0 => f.value > ended[f.id]
    /\ f.at \in {"lookup", "stale", "trigger", "begin"} => f.value = 0
    /\ f.at = "woken" /\ f.value # 0 => f.value > f.since

CallsOK == \A t \in Tasks : \A i \in Depth(t) : CallOK(t, stack[t][i])

\* A task leads a flight in one of its calls only.
LeadsOnce ==
    \A t \in Tasks : \A i, j \in Depth(t) :
        /\ stack[t][i].at \in Leading /\ stack[t][j].at \in Leading
        /\ stack[t][i].id = stack[t][j].id
        => i = j

EndedBegan == \A id \in Ids : ended[id] <= execs[id]

Flights == CallsOK /\ LeadsOnce /\ EndedBegan

LoopType == [id: Ids \cup {None}, cancelled: BOOLEAN, at: {"free", "check", "sleep", "entry"}]
AdminType == [at: {"idle", "reload", "schedule", "register", "record", "delete"},
              id: Ids \cup {None}, sch: Config \cup {None}, job: Loops \cup {None}]

\* The invariant, by the parts of the state it is about.
StoresOK ==
    /\ store \in [Ids -> Config \cup {None}]
    /\ running \in [Ids -> Tasks \cup {None}]
    /\ results \in [Ids -> Nat]
    /\ execs \in [Ids -> Nat] /\ ended \in [Ids -> Nat] /\ lost \in [Ids -> Nat]
    /\ boot \subseteq Ids

TimersOK ==
    /\ cronJobs \in [Ids -> Loops \cup {None}]
    /\ intervals \in [Ids -> Loops \cup {None}]
    /\ loop \in [Loops -> LoopType]
    /\ LoopsKnown

AdminsOK == admin \in [Admins -> AdminType] /\ RequestsKnown

StacksOK == stack \in [Tasks -> Seq(Calls)] /\ Flights

IndInv == StoresOK /\ TimersOK /\ AdminsOK /\ StacksOK

-----------------------------------------------------------------------------
(***************************************************************************)
(* Types of the parts.                                                     *)
(***************************************************************************)

\* None is not a schedule, a task or a configuration.
LEMMA NoneIsNothing == None \notin Ids /\ None \notin Tasks /\ None \notin Config
  BY SchedulerAssumption

\* What the operations make of a configuration is one.
LEMMA ConfigType ==
    ASSUME NEW c \in Config
    PROVE  /\ [c EXCEPT !.next = TRUE] \in Config
           /\ [c EXCEPT !.running = TRUE] \in Config
           /\ AfterRun(c) \in Config
           /\ [c EXCEPT !.next = TRUE].count = c.count /\ [c EXCEPT !.next = TRUE].max = c.max
           /\ [c EXCEPT !.running = TRUE].count = c.count
           /\ [c EXCEPT !.running = TRUE].max = c.max
           /\ AfterRun(c).count = c.count + 1 /\ AfterRun(c).max = c.max
           /\ ~AfterRun(c).running /\ (AfterRun(c).active => c.active)
  <1>1. [c EXCEPT !.next = TRUE] \in Config /\ [c EXCEPT !.running = TRUE] \in Config
    BY DEF Config
  <1>2. /\ [c EXCEPT !.next = TRUE].count = c.count /\ [c EXCEPT !.next = TRUE].max = c.max
        /\ [c EXCEPT !.running = TRUE].count = c.count
        /\ [c EXCEPT !.running = TRUE].max = c.max
    BY DEF Config
  <1> DEFINE d == [c EXCEPT !.running = FALSE, !.count = @ + 1, !.next = TRUE]
             e == [d EXCEPT !.active = FALSE, !.next = FALSE]
  <1>3. c.count + 1 \in Nat
    BY DEF Config
  <1>4. d \in Config /\ d.count = c.count + 1 /\ d.max = c.max /\ d.running = FALSE
        /\ d.active = c.active
    BY <1>3 DEF Config
  <1> HIDE DEF d
  <1>5. e \in Config /\ e.count = d.count /\ e.max = d.max /\ e.running = d.running
        /\ ~e.active
    BY <1>4 DEF Config
  <1> HIDE DEF e
  <1>6. AfterRun(c) = IF Completed(d) THEN e ELSE d
    BY DEF AfterRun, d, e
  <1> QED  BY <1>1, <1>2, <1>4, <1>5, <1>6

\* New loops and idle loops, new and idle requests have their types.
LEMMA SmallTypes ==
    /\ NoLoop \in LoopType /\ NoLoop.at = "free"
    /\ \A id \in Ids, at \in {"check", "entry"} :
          Loop(id, at) \in LoopType /\ Loop(id, at).id = id /\ Loop(id, at).at = at
                                    /\ ~Loop(id, at).cancelled
    /\ NoRequest \in AdminType /\ NoRequest.at = "idle" /\ NoRequest.id = None
  <1>1. NoLoop \in LoopType /\ NoLoop.at = "free"
    BY DEF NoLoop, Loop, LoopType
  <1>2. \A id \in Ids, at \in {"check", "entry"} :
          Loop(id, at) \in LoopType /\ Loop(id, at).id = id /\ Loop(id, at).at = at
                                    /\ ~Loop(id, at).cancelled
    BY DEF Loop, LoopType
  <1>3. NoRequest \in AdminType /\ NoRequest.at = "idle" /\ NoRequest.id = None
    BY DEF NoRequest, Handling, AdminType
  <1> QED  BY <1>1, <1>2, <1>3

\* The fields of a call.
LEMMA CallFields ==
    ASSUME NEW f \in Calls
    PROVE  /\ f.id \in Ids /\ f.at \in CallAt /\ f.sch \in Config \cup {None}
           /\ f.value \in Nat /\ f.since \in Nat /\ f.lead \in Tasks \cup {None}
           /\ f.cancel \in BOOLEAN /\ f.asked \in BOOLEAN
  BY DEF Calls

-----------------------------------------------------------------------------
(***************************************************************************)
(* The stack of a task, call by call.                                      *)
(***************************************************************************)

\* The innermost call is replaced.
LEMMA BecomesCalls ==
    ASSUME stack \in [Tasks -> Seq(Calls)], NEW t \in Tasks, stack[t] # <<>>,
           NEW c \in Calls, Becomes(t, c)
    PROVE  /\ stack' \in [Tasks -> Seq(Calls)]
           /\ \A u \in Tasks : Depth(u)' = Depth(u)
           /\ Len(stack[t]) \in Depth(t) /\ Top(t) \in Calls
           /\ \A u \in Tasks : \A i \in Depth(u) :
                stack'[u][i] = IF u = t /\ i = Len(stack[t]) THEN c ELSE stack[u][i]
  <1> DEFINE n == Len(stack[t])
             s == [stack[t] EXCEPT ![n] = c]
  <1>1. stack[t] \in Seq(Calls) /\ n \in Nat /\ n \in Depth(t) /\ stack[t][n] \in Calls
    BY LenProperties, EmptySeq DEF Depth
  <1>2. stack' = [stack EXCEPT ![t] = s]
    BY DEF Becomes
  <1>3. s \in Seq(Calls) /\ Len(s) = n
    BY <1>1, ExceptSeq DEF Depth
  <1>4. \A i \in 1 .. n : s[i] = IF i = n THEN c ELSE stack[t][i]
    BY <1>1, LenProperties
  <1> HIDE DEF s
  <1>5. stack'[t] = s /\ \A u \in Tasks \ {t} : stack'[u] = stack[u]
    BY <1>2
  <1>6. \A u \in Tasks : Depth(u)' = Depth(u)
    BY <1>3, <1>5 DEF Depth
  <1> QED  BY <1>1, <1>2, <1>3, <1>4, <1>5, <1>6 DEF Depth, Top

\* What is left of a stack when its innermost call has returned.
LEMMA PoppedCalls ==
    ASSUME stack \in [Tasks -> Seq(Calls)], NEW t \in Tasks, stack[t] # <<>>
    PROVE  /\ Popped(t) \in Seq(Calls) /\ Len(Popped(t)) = Len(stack[t]) - 1
           /\ \A i \in 1 .. (Len(stack[t]) - 1) : Popped(t)[i] = stack[t][i]
  <1>1. PICK n \in Nat : n = Len(stack[t]) /\ n # 0
    BY EmptySeq
  <1>2. PICK m \in Nat : m = n - 1
    <2>1. n - 1 \in Nat
      BY <1>1
    <2> QED  BY <2>1
  <1>3. \A i \in 1 .. m : stack[t][i] \in Calls
    BY <1>1, <1>2, LenProperties
  <1>4. /\ SubSeq(stack[t], 1, m) \in Seq(Calls)
        /\ Len(SubSeq(stack[t], 1, m)) = IF 1 <= m THEN m - 1 + 1 ELSE 0
        /\ \A i \in 1 .. m - 1 + 1 : SubSeq(stack[t], 1, m)[i] = stack[t][1 + i - 1]
    BY <1>3, SubSeqProperties
  <1>5. /\ Len(SubSeq(stack[t], 1, m)) = m
        /\ \A i \in 1 .. m : SubSeq(stack[t], 1, m)[i] = stack[t][i]
    BY <1>4
  <1> QED  BY <1>1, <1>2, <1>4, <1>5 DEF Popped

\* The innermost call returns.
LEMMA ReturnsCalls ==
    ASSUME stack \in [Tasks -> Seq(Calls)], NEW t \in Tasks, stack[t] # <<>>, Returns(t)
    PROVE  /\ stack' \in [Tasks -> Seq(Calls)]
           /\ Depth(t)' = Depth(t) \ {Len(stack[t])} /\ Len(stack[t]) \in Depth(t)
           /\ Top(t) \in Calls
           /\ \A u \in Tasks \ {t} : Depth(u)' = Depth(u)
           /\ \A u \in Tasks : \A i \in Depth(u)' : i \in Depth(u) /\ stack'[u][i] = stack[u][i]
  <1> DEFINE n == Len(stack[t])
  <1>1. stack[t] \in Seq(Calls) /\ n \in Nat /\ n \in Depth(t) /\ stack[t][n] \in Calls
    BY LenProperties, EmptySeq DEF Depth
  <1>2. /\ Popped(t) \in Seq(Calls) /\ Len(Popped(t)) = n - 1
        /\ \A i \in 1 .. (n - 1) : Popped(t)[i] = stack[t][i]
    BY PoppedCalls
  <1>3. stack'[t] = Popped(t) /\ \A u \in Tasks \ {t} : stack'[u] = stack[u]
    BY DEF Returns
  <1>4. stack' \in [Tasks -> Seq(Calls)]
    BY <1>2 DEF Returns
  <1>5. Depth(t)' = Depth(t) \ {n}
    BY <1>1, <1>2, <1>3 DEF Depth
  <1> QED  BY <1>1, <1>2, <1>3, <1>4, <1>5 DEF Depth, Top

\* A call is made: the one that makes it is only marked.
LEMMA CallingCalls ==
    ASSUME stack \in [Tasks -> Seq(Calls)], NEW t \in Tasks, NEW c \in Calls, Calling(t, c)
    PROVE  /\ stack' \in [Tasks -> Seq(Calls)]
           /\ Depth(t)' = Depth(t) \cup {Len(stack[t]) + 1}
           /\ Len(stack[t]) + 1 \notin Depth(t)
           /\ stack'[t][Len(stack[t]) + 1] = c
           /\ \A u \in Tasks \ {t} : Depth(u)' = Depth(u) /\ stack'[u] = stack[u]
           /\ \A u \in Tasks : \A i \in Depth(u) :
                stack'[u][i] \in {stack[u][i], [stack[u][i] EXCEPT !.asked = TRUE]}
  <1> DEFINE n == Len(stack[t])
  <1>1. stack[t] \in Seq(Calls) /\ n \in Nat
    BY LenProperties
  <1>2. stack'[t] = Pushed(t, c) /\ \A u \in Tasks \ {t} : stack'[u] = stack[u]
    BY DEF Calling
  <1>3. /\ Pushed(t, c) \in Seq(Calls) /\ Len(Pushed(t, c)) = n + 1
        /\ Pushed(t, c)[n + 1] = c
        /\ \A i \in 1 .. n : Pushed(t, c)[i] \in {stack[t][i], [stack[t][i] EXCEPT !.asked = TRUE]}
    <2>1. CASE n = 0
      BY <1>1, <2>1 DEF Pushed
    <2>2. CASE n # 0
      <3> DEFINE d == [stack[t][n] EXCEPT !.asked = TRUE]
                 s == [stack[t] EXCEPT ![n] = d]
      <3>1. n \in 1 .. n /\ stack[t][n] \in Calls
        BY <1>1, <2>2, LenProperties
      <3>2. d \in Calls
        BY <3>1 DEF Calls
      <3> HIDE DEF d
      <3>3. s \in Seq(Calls) /\ Len(s) = n
        BY <1>1, <3>1, <3>2, ExceptSeq
      <3>4. \A i \in 1 .. n : s[i] = IF i = n THEN d ELSE stack[t][i]
        BY <1>1, LenProperties
      <3>5. Pushed(t, c) = Append(s, c)
        BY <2>2 DEF Pushed, d
      <3> HIDE DEF s
      <3>6. /\ Append(s, c) \in Seq(Calls) /\ Len(Append(s, c)) = n + 1
            /\ Append(s, c)[n + 1] = c /\ \A i \in 1 .. n : Append(s, c)[i] = s[i]
        BY <3>3, AppendProperties
      <3> QED  BY <3>4, <3>5, <3>6 DEF d
    <2> QED  BY <2>1, <2>2
  <1>4. stack' \in [Tasks -> Seq(Calls)]
    BY <1>3 DEF Calling
  <1>5. Depth(t)' = Depth(t) \cup {n + 1} /\ n + 1 \notin Depth(t)
    BY <1>1, <1>2, <1>3 DEF Depth
  <1> QED  BY <1>2, <1>3, <1>4, <1>5 DEF Depth

-----------------------------------------------------------------------------
(***************************************************************************)
(* How the flights survive what happens to a stack.                        *)
(***************************************************************************)

\* Nothing happens to it.
LEMMA FlightsStay ==
    ASSUME StacksOK, UNCHANGED <<stack, running, execs, ended>>
    PROVE  StacksOK'
  BY DEF StacksOK, Flights, CallsOK, CallOK, LeadsOnce, EndedBegan, Depth

\* A call goes on: it stays the leader of its flight, or becomes the leader of a
\* flight that has none.
LEMMA FlightsGoOn ==
    ASSUME StoresOK, StacksOK, NEW t \in Tasks, stack[t] # <<>>, NEW c \in Calls, Becomes(t, c),
           c.id = Top(t).id, UNCHANGED ended, CallOK(t, c)',
           \A id \in Ids : execs'[id] >= execs[id] /\ execs'[id] \in Nat,
           \A id \in Ids : running'[id] = running[id] \/ running[id] = None,
           c.at \in Leading => Top(t).at \in Leading \/ running[c.id] = None
    PROVE  StacksOK'
  <1>1. stack \in [Tasks -> Seq(Calls)] /\ CallsOK /\ LeadsOnce /\ EndedBegan
    BY DEF StacksOK, Flights
  <1>2. /\ stack' \in [Tasks -> Seq(Calls)]
        /\ \A u \in Tasks : Depth(u)' = Depth(u)
        /\ Len(stack[t]) \in Depth(t) /\ Top(t) \in Calls
        /\ \A u \in Tasks : \A i \in Depth(u) :
             stack'[u][i] = IF u = t /\ i = Len(stack[t]) THEN c ELSE stack[u][i]
    BY <1>1, BecomesCalls
  <1>3. \A u \in Tasks : \A i \in Depth(u) : stack[u][i] \in Calls
    BY <1>1, ElementOfSeq DEF Depth
  <1>4. \A u \in Tasks : \A i \in Depth(u) : CallOK(u, stack[u][i]) => CallOK(u, stack[u][i])'
                                             \/ (u = t /\ i = Len(stack[t]))
    <2> SUFFICES ASSUME NEW u \in Tasks, NEW i \in Depth(u), CallOK(u, stack[u][i]),
                        ~(u = t /\ i = Len(stack[t]))
                 PROVE  CallOK(u, stack[u][i])'
      OBVIOUS
    <2> DEFINE f == stack[u][i]
    <2>1. stack'[u][i] = f /\ f \in Calls
      BY <1>2, <1>3
    <2>2. f.id \in Ids
      BY <2>1, CallFields
    <2>3. f.at \in Leading => running'[f.id] = u
      BY <2>2, NoneIsNothing DEF CallOK
    <2> QED  BY <2>1, <2>2, <2>3 DEF CallOK
  <1>5. CallsOK'
    BY <1>1, <1>2, <1>4 DEF CallsOK
  <1>6. LeadsOnce'
    <2> SUFFICES ASSUME NEW u \in Tasks, NEW i \in Depth(u)', NEW j \in Depth(u)',
                        stack'[u][i].at \in Leading, stack'[u][j].at \in Leading,
                        stack'[u][i].id = stack'[u][j].id
                 PROVE  i = j
      BY DEF LeadsOnce
    <2> DEFINE n == Len(stack[t])
    <2>1. i \in Depth(u) /\ j \in Depth(u)
      BY <1>2
    <2>2. CASE u # t \/ (i # n /\ j # n)
      BY <1>1, <1>2, <2>1, <2>2 DEF LeadsOnce
    <2>3. ASSUME NEW k \in Depth(t), k # n, stack[t][k].at \in Leading,
                 c.at \in Leading, stack[t][k].id = c.id
          PROVE  FALSE
      <3>1. running[c.id] = t
        BY <1>1, <2>3 DEF CallsOK, CallOK
      <3>2. Top(t).at \in Leading /\ stack[t][n].id = c.id
        BY <2>3, <3>1, NoneIsNothing DEF Top
      <3> QED  BY <1>1, <1>2, <2>3, <3>2 DEF LeadsOnce, Top
    <2>4. CASE u = t /\ (i = n \/ j = n)
      BY <1>2, <2>1, <2>3, <2>4
    <2> QED  BY <2>2, <2>4
  <1>7. EndedBegan'
    BY <1>1 DEF EndedBegan, StoresOK
  <1> QED  BY <1>2, <1>5, <1>6, <1>7 DEF StacksOK, Flights

\* A call returns without having been a leader.
LEMMA FlightsReturn ==
    ASSUME StacksOK, NEW t \in Tasks, stack[t] # <<>>, Returns(t),
           UNCHANGED <<running, execs, ended>>
    PROVE  StacksOK'
  <1>1. stack \in [Tasks -> Seq(Calls)] /\ CallsOK /\ LeadsOnce /\ EndedBegan
    BY DEF StacksOK, Flights
  <1>2. /\ stack' \in [Tasks -> Seq(Calls)]
        /\ \A u \in Tasks : \A i \in Depth(u)' : i \in Depth(u) /\ stack'[u][i] = stack[u][i]
    BY <1>1, ReturnsCalls
  <1>3. CallsOK'
    BY <1>1, <1>2 DEF CallsOK, CallOK
  <1>4. LeadsOnce'
    BY <1>1, <1>2 DEF LeadsOnce
  <1>5. EndedBegan'
    BY <1>1 DEF EndedBegan
  <1> QED  BY <1>2, <1>3, <1>4, <1>5 DEF StacksOK, Flights

\* A new call: it does not lead yet, and what is over now is all it knows of.
LEMMA FlightsCall ==
    ASSUME StoresOK, StacksOK, NEW t \in Tasks, NEW c \in Calls, Calling(t, c),
           c.at \in {"lookup", "trigger", "begin"}, c.value = 0, c.since = ended[c.id],
           UNCHANGED <<running, execs, ended>>
    PROVE  StacksOK'
  <1> DEFINE n == Len(stack[t])
  <1>1. stack \in [Tasks -> Seq(Calls)] /\ CallsOK /\ LeadsOnce /\ EndedBegan
    BY DEF StacksOK, Flights
  <1>2. /\ stack' \in [Tasks -> Seq(Calls)]
        /\ Depth(t)' = Depth(t) \cup {n + 1} /\ stack'[t][n + 1] = c
        /\ \A u \in Tasks \ {t} : Depth(u)' = Depth(u)
        /\ \A u \in Tasks : \A i \in Depth(u) :
             stack'[u][i] \in {stack[u][i], [stack[u][i] EXCEPT !.asked = TRUE]}
    BY <1>1, CallingCalls
  <1>3. ASSUME NEW u \in Tasks, NEW i \in Depth(u)
        PROVE  /\ stack'[u][i].at = stack[u][i].at /\ stack'[u][i].id = stack[u][i].id
               /\ CallOK(u, stack[u][i])'
    <2>1. PICK f \in Calls : f = stack[u][i]
      BY <1>1, ElementOfSeq DEF Depth
    <2>2. PICK g : g = stack'[u][i]
      OBVIOUS
    <2>3. /\ g.at = f.at /\ g.id = f.id /\ g.sch = f.sch /\ g.value = f.value
          /\ g.since = f.since
      <3>1. CASE g = f
        BY <3>1
      <3>2. CASE g = [f EXCEPT !.asked = TRUE]
        BY <3>2 DEF Calls
      <3> QED  BY <1>2, <2>1, <2>2, <3>1, <3>2
    <2>4. CallOK(u, f)
      BY <1>1, <2>1 DEF CallsOK
    <2>5. CallOK(u, g)'
      BY <2>3, <2>4 DEF CallOK
    <2> QED  BY <2>1, <2>2, <2>3, <2>5
  <1>4. c.at \notin Leading /\ CallOK(t, c)'
    <2>1. c.id \in Ids /\ ended[c.id] \in Nat
      BY CallFields DEF StoresOK
    <2> QED  BY <2>1 DEF CallOK, Leading
  <1>5. CallsOK'
    <2> SUFFICES ASSUME NEW u \in Tasks, NEW i \in Depth(u)' PROVE CallOK(u, stack[u][i])'
      BY DEF CallsOK
    <2>1. CASE i \in Depth(u)
      BY <1>3, <2>1
    <2>2. CASE i \notin Depth(u)
      <3>1. u = t /\ stack'[u][i] = c
        BY <1>2, <2>2
      <3> QED  BY <1>4, <3>1 DEF CallOK
    <2> QED  BY <2>1, <2>2
  <1>6. LeadsOnce'
    <2> SUFFICES ASSUME NEW u \in Tasks, NEW i \in Depth(u)', NEW j \in Depth(u)',
                        stack'[u][i].at \in Leading, stack'[u][j].at \in Leading,
                        stack'[u][i].id = stack'[u][j].id
                 PROVE  i = j
      BY DEF LeadsOnce
    <2>1. i \in Depth(u) /\ j \in Depth(u)
      BY <1>2, <1>4
    <2> QED  BY <1>1, <1>3, <2>1 DEF LeadsOnce
  <1>7. EndedBegan'
    BY <1>1 DEF EndedBegan
  <1> QED  BY <1>2, <1>5, <1>6, <1>7 DEF StacksOK, Flights

\* A function on 1..n is a sequence of length n.
LEMMA FunctionIsSeq ==
    ASSUME NEW n \in Nat, NEW S, NEW f \in [1 .. n -> S]
    PROVE  f \in Seq(S) /\ Len(f) = n
  <1>1. f \in Seq(S)
    BY SeqDef
  <1>2. Len(f) \in Nat /\ 1 .. Len(f) = 1 .. n
    BY <1>1, LenProperties
  <1>3. \A m \in Nat : 1 .. m = 1 .. n => m = n
    <2> SUFFICES ASSUME NEW m \in Nat, 1 .. m = 1 .. n PROVE m = n
      OBVIOUS
    <2>1. m >= 1 => m \in 1 .. n
      OBVIOUS
    <2>2. n >= 1 => n \in 1 .. m
      OBVIOUS
    <2> QED  BY <2>1, <2>2
  <1> QED  BY <1>1, <1>2, <1>3

\* The end of a flight: its followers have the answer, and nobody else leads it.
LEMMA FlightsEnd ==
    ASSUME StoresOK, StacksOK, NEW t \in Tasks, EndRun(t)
    PROVE  /\ StacksOK' /\ running' \in [Ids -> Tasks \cup {None}]
           /\ ended' \in [Ids -> Nat] /\ Top(t).id \in Ids /\ Top(t) \in Calls
           /\ \A u \in Tasks : \A i \in Depth(u)' :
                /\ i \in Depth(u) /\ ~(u = t /\ i = Len(stack[t]))
                /\ stack'[u][i].id = stack[u][i].id
                /\ stack'[u][i] = stack[u][i] \/ stack'[u][i].at = "woken"
           /\ \A u \in Tasks : \A i \in Depth(u) :
                /\ ~(u = t /\ i = Len(stack[t])) => i \in Depth(u)'
                /\ ~(u = t /\ i = Len(stack[t])) /\ stack[u][i].at # "follow"
                     => stack'[u][i] = stack[u][i]
  <1>1. stack \in [Tasks -> Seq(Calls)] /\ CallsOK /\ LeadsOnce /\ EndedBegan
    BY DEF StacksOK, Flights
  <1>2. stack[t] \in Seq(Calls) /\ stack[t] # <<>> /\ Top(t).at = "end"
    BY <1>1 DEF EndRun, At
  <1>3. PICK n \in Nat : n = Len(stack[t]) /\ n \in Depth(t) /\ Top(t) = stack[t][n]
                         /\ Top(t) \in Calls
    BY <1>2, LenProperties, EmptySeq DEF Depth, Top
  <1>4. PICK c \in Calls : c = Top(t)
    BY <1>3
  <1> DEFINE follows(d) == d.at = "follow" /\ d.id = c.id /\ d.lead = t
             woken(d) == IF follows(d) THEN [d EXCEPT !.at = "woken", !.value = c.value] ELSE d
             s(u) == IF u = t THEN Popped(t) ELSE stack[u]
             w(u) == [i \in 1 .. Len(s(u)) |-> woken(s(u)[i])]
  <1>5. c.id \in Ids /\ c.value \in Nat /\ c.at = "end" /\ c.at \in Leading
    BY <1>2, <1>4, CallFields DEF Leading
  <1>6. /\ running' = IF running[c.id] = t THEN [running EXCEPT ![c.id] = None] ELSE running
        /\ stack' = [u \in Tasks |-> w(u)]
        /\ ended' = [ended EXCEPT ![c.id] = execs[c.id]]
        /\ execs' = execs
    BY <1>4 DEF EndRun
  <1>7. /\ Popped(t) \in Seq(Calls) /\ Len(Popped(t)) = n - 1
        /\ \A i \in 1 .. (n - 1) : Popped(t)[i] = stack[t][i]
    BY <1>1, <1>2, <1>3, PoppedCalls
  <1>8. ASSUME NEW u \in Tasks
        PROVE  /\ s(u) \in Seq(Calls)
               /\ 1 .. Len(s(u)) = Depth(u) \ (IF u = t THEN {n} ELSE {})
               /\ \A i \in 1 .. Len(s(u)) : i \in Depth(u) /\ s(u)[i] = stack[u][i]
                                            /\ stack[u][i] \in Calls
    <2>1. stack[u] \in Seq(Calls) /\ \A i \in Depth(u) : stack[u][i] \in Calls
      BY <1>1, ElementOfSeq DEF Depth
    <2>2. CASE u = t
      <3>1. Depth(t) = 1 .. n /\ 1 .. (n - 1) = (1 .. n) \ {n}
        BY <1>3 DEF Depth
      <3> QED  BY <1>7, <2>1, <2>2, <3>1
    <2>3. CASE u # t
      BY <2>1, <2>3 DEF Depth
    <2> QED  BY <2>2, <2>3
  <1> HIDE DEF s
  <1>9. ASSUME NEW d \in Calls PROVE woken(d) \in Calls
    <2>1. "woken" \in CallAt
      BY DEF CallAt
    <2> QED  BY <1>5, <2>1 DEF Calls
  <1>10. ASSUME NEW u \in Tasks PROVE w(u) \in Seq(Calls) /\ Len(w(u)) = Len(s(u))
    <2>1. Len(s(u)) \in Nat /\ w(u) \in [1 .. Len(s(u)) -> Calls]
      BY <1>8, <1>9, LenProperties
    <2> HIDE DEF w
    <2> QED  BY <2>1, FunctionIsSeq
  <1>11. /\ stack' \in [Tasks -> Seq(Calls)]
         /\ \A u \in Tasks : Depth(u)' = Depth(u) \ (IF u = t THEN {n} ELSE {})
         /\ \A u \in Tasks : \A i \in Depth(u)' : stack'[u][i] = woken(stack[u][i])
    <2>1. \A u \in Tasks : stack'[u] = w(u) /\ Len(stack'[u]) = Len(s(u))
      BY <1>6, <1>10
    <2>2. stack' \in [Tasks -> Seq(Calls)]
      <3> HIDE DEF w
      <3> QED  BY <1>6, <1>10
    <2>3. \A u \in Tasks : Depth(u)' = 1 .. Len(s(u))
      BY <2>1 DEF Depth
    <2>4. \A u \in Tasks : \A i \in 1 .. Len(s(u)) : w(u)[i] = woken(stack[u][i])
      BY <1>8
    <2> HIDE DEF w, woken
    <2> QED  BY <1>8, <2>1, <2>2, <2>3, <2>4
  <1>12. ended[c.id] <= execs[c.id] /\ ended'[c.id] = execs[c.id] /\ execs[c.id] \in Nat
         /\ ended[c.id] \in Nat /\ \A id \in Ids : id # c.id => ended'[id] = ended[id]
    BY <1>1, <1>5, <1>6 DEF StoresOK, EndedBegan
  <1>13. CallOK(t, c) /\ running[c.id] = t
    BY <1>1, <1>3, <1>4, <1>5 DEF CallsOK, CallOK
  <1>14. ASSUME NEW u \in Tasks, NEW i \in Depth(u)' PROVE CallOK(u, stack[u][i])'
    <2>1. PICK f \in Calls : f = stack[u][i] /\ i \in Depth(u) /\ (u # t \/ i # n) /\ CallOK(u, f)
                             /\ stack'[u][i] = woken(f)
      <3> HIDE DEF woken
      <3> QED  BY <1>1, <1>11, ElementOfSeq DEF Depth, CallsOK
    <2>2. f.id \in Ids /\ f.since \in Nat
      BY CallFields
    <2>3. f.since <= ended'[f.id]
      BY <1>12, <2>1, <2>2 DEF CallOK, StoresOK
    <2>4. CASE follows(f)
      <3>1. PICK g : g = [f EXCEPT !.at = "woken", !.value = c.value]
        OBVIOUS
      <3>2. /\ g.at = "woken" /\ g.value = c.value /\ g.since = f.since /\ g.id = f.id
        BY <3>1 DEF Calls
      <3>3. c.value # 0 => c.value > f.since
        BY <1>5, <1>12, <1>13, <2>1, <2>2, <2>4 DEF CallOK
      <3>4. CallOK(u, g)'
        BY <2>3, <3>2, <3>3 DEF CallOK, Leading
      <3> QED  BY <2>1, <2>4, <3>1, <3>4
    <2>5. CASE ~follows(f)
      <3>1. f.at \in Leading => f.id # c.id
        BY <1>1, <1>3, <1>4, <1>5, <1>13, <2>1 DEF LeadsOnce, CallOK
      <3>2. f.at \in Leading => running'[f.id] = u /\ ended'[f.id] = ended[f.id]
        BY <1>6, <1>12, <2>1, <2>2, <3>1 DEF CallOK, StoresOK
      <3>3. CallOK(u, f)'
        BY <2>1, <2>3, <3>2 DEF CallOK
      <3> QED  BY <2>1, <2>5, <3>3
    <2> QED  BY <2>4, <2>5
  <1>15. ASSUME NEW u \in Tasks, NEW i \in Depth(u)'
         PROVE  /\ i \in Depth(u) /\ ~(u = t /\ i = Len(stack[t]))
                /\ stack'[u][i].id = stack[u][i].id
                /\ stack'[u][i] = stack[u][i] \/ stack'[u][i].at = "woken"
    <2>1. PICK f \in Calls : f = stack[u][i] /\ i \in Depth(u) /\ stack'[u][i] = woken(f)
      <3> HIDE DEF woken
      <3> QED  BY <1>1, <1>11, ElementOfSeq DEF Depth
    <2>2. woken(f).id = f.id /\ (woken(f) = f \/ woken(f).at = "woken")
      BY DEF Calls
    <2> HIDE DEF woken
    <2> QED  BY <1>3, <1>11, <2>1, <2>2
  <1>16. LeadsOnce'
    <2> SUFFICES ASSUME NEW u \in Tasks, NEW i \in Depth(u)', NEW j \in Depth(u)',
                        stack'[u][i].at \in Leading, stack'[u][j].at \in Leading,
                        stack'[u][i].id = stack'[u][j].id
                 PROVE  i = j
      BY DEF LeadsOnce
    <2>1. stack'[u][i] = stack[u][i] /\ stack'[u][j] = stack[u][j]
      BY <1>15 DEF Leading
    <2> QED  BY <1>1, <1>15, <2>1 DEF LeadsOnce
  <1>17. EndedBegan' /\ running' \in [Ids -> Tasks \cup {None}] /\ ended' \in [Ids -> Nat]
    <2>1. running' \in [Ids -> Tasks \cup {None}]
      BY <1>5, <1>6 DEF StoresOK
    <2>2. ended' \in [Ids -> Nat]
      BY <1>5, <1>6, <1>12 DEF StoresOK
    <2>3. EndedBegan'
      <3>1. \A id \in Ids : ended'[id] <= execs[id]
        BY <1>1, <1>12 DEF EndedBegan
      <3> QED  BY <1>6, <3>1 DEF EndedBegan
    <2> QED  BY <2>1, <2>2, <2>3
  <1>18. ASSUME NEW u \in Tasks, NEW i \in Depth(u), ~(u = t /\ i = Len(stack[t]))
         PROVE  /\ i \in Depth(u)'
                /\ stack[u][i].at # "follow" => stack'[u][i] = stack[u][i]
    BY <1>3, <1>11, <1>18
  <1>19. CallsOK'
    BY <1>14 DEF CallsOK
  <1> HIDE DEF follows, woken, w
  <1> QED  BY <1>4, <1>5, <1>11, <1>15, <1>16, <1>17, <1>18, <1>19 DEF StacksOK, Flights

-----------------------------------------------------------------------------
(***************************************************************************)
(* Timers and requests of administrators.                                  *)
(***************************************************************************)

\* Unschedule clears both registers of a schedule and keeps the loops in order.
LEMMA UnscheduleTimers ==
    ASSUME TimersOK, NEW id \in Ids, Unschedule(id)
    PROVE  TimersOK'
  <1>1. loop \in [Loops -> LoopType] /\ LoopsKnown
    BY DEF TimersOK
  <1>2. ASSUME NEW l \in Loops
        PROVE  loop'[l] \in LoopType /\ (loop'[l].at # "free" => loop'[l].id \in Ids)
    <2>1. loop'[l] \in {NoLoop, [loop[l] EXCEPT !.cancelled = TRUE], loop[l]}
      BY DEF Unschedule
    <2>2. PICK x \in LoopType : x = loop[l] /\ (x.at # "free" => x.id \in Ids)
      BY <1>1 DEF LoopsKnown
    <2>3. PICK y : y = loop'[l] /\ y \in {NoLoop, [x EXCEPT !.cancelled = TRUE], x}
      BY <2>1, <2>2
    <2>4. y \in LoopType /\ (y.at # "free" => y.id \in Ids)
      <3>1. CASE y = [x EXCEPT !.cancelled = TRUE]
        BY <2>2, <3>1 DEF LoopType
      <3> QED  BY <2>2, <2>3, <3>1, SmallTypes
    <2> QED  BY <2>3, <2>4
  <1>3. loop' \in [Loops -> LoopType]
    BY <1>2 DEF Unschedule
  <1>4. cronJobs' \in [Ids -> Loops \cup {None}] /\ intervals' \in [Ids -> Loops \cup {None}]
    BY DEF Unschedule, TimersOK
  <1> QED  BY <1>2, <1>3, <1>4 DEF TimersOK, LoopsKnown

\* The store keeps its type, and its entries, when one is saved.
LEMMA SaveStore ==
    ASSUME store \in [Ids -> Config \cup {None}], NEW id \in Ids, NEW c \in Config, Save(id, c)
    PROVE  /\ store' \in [Ids -> Config \cup {None}]
           /\ store'[id] = c /\ \A j \in Ids \ {id} : store'[j] = store[j]
           /\ \A j \in Ids : store[j] # None => store'[j] # None
  BY NoneIsNothing DEF Save

\* A loop that is started belongs to its schedule.
LEMMA NewLoop ==
    ASSUME TimersOK, NEW id \in Ids, NEW l \in Loops, NEW at \in {"check", "entry"},
           loop' = [loop EXCEPT ![l] = Loop(id, at)],
           cronJobs' \in [Ids -> Loops \cup {None}], intervals' \in [Ids -> Loops \cup {None}]
    PROVE  TimersOK'
  <1>1. loop \in [Loops -> LoopType] /\ LoopsKnown
    BY DEF TimersOK
  <1>2. Loop(id, at) \in LoopType /\ Loop(id, at).id \in Ids
    BY SmallTypes
  <1>3. loop' \in [Loops -> LoopType] /\ LoopsKnown'
    BY <1>1, <1>2 DEF LoopsKnown
  <1> QED  BY <1>3 DEF TimersOK

\* The interval branch of Schedule.
LEMMA ScheduleIntervalOK ==
    ASSUME StoresOK, TimersOK, NEW id \in Ids, NEW c \in Config, NEW l \in Loops,
           ScheduleInterval(id, c, l)
    PROVE  /\ TimersOK' /\ store' \in [Ids -> Config \cup {None}]
           /\ \A j \in Ids : store[j] # None => store'[j] # None
  <1>1. TimersOK'
    <2>1. intervals' \in [Ids -> Loops \cup {None}] /\ cronJobs' \in [Ids -> Loops \cup {None}]
      BY DEF ScheduleInterval, TimersOK
    <2>2. loop' = [loop EXCEPT ![l] = Loop(id, "check")]
      BY DEF ScheduleInterval
    <2> QED  BY <2>1, <2>2, NewLoop
  <1>2. CASE UNCHANGED store
    BY <1>1, <1>2 DEF StoresOK
  <1>3. CASE Save(id, [c EXCEPT !.next = TRUE])
    BY <1>1, <1>3, SaveStore, ConfigType DEF StoresOK
  <1> QED  BY <1>2, <1>3 DEF ScheduleInterval

\* The cron branch: what is recorded is a loop, what is saved is a schedule.
LEMMA ScheduleCronOK ==
    ASSUME StoresOK, TimersOK, NEW id \in Ids, NEW c \in Config, NEW l \in Loops,
           ScheduleCron(id, c, l)
    PROVE  /\ cronJobs' \in [Ids -> Loops \cup {None}]
           /\ store' \in [Ids -> Config \cup {None}]
           /\ \A j \in Ids : store[j] # None => store'[j] # None
  <1>1. cronJobs' \in [Ids -> Loops \cup {None}]
    BY DEF ScheduleCron, TimersOK
  <1> QED  BY <1>1, SaveStore, ConfigType DEF ScheduleCron, StoresOK

\* Start registers a schedule, or leaves a completed one.
LEMMA StartStep ==
    ASSUME IndInv, NEW id \in Ids, Start(id)
    PROVE  IndInv'
  <1>1. StoresOK /\ TimersOK /\ AdminsOK /\ StacksOK
    BY DEF IndInv
  <1>2. id \in boot /\ store[id] \in Config
    BY <1>1 DEF Start, StoresOK, AdminsOK, RequestsKnown
  <1>3. /\ TimersOK' /\ store' \in [Ids -> Config \cup {None}]
        /\ \A j \in Ids : store[j] # None => store'[j] # None
    <2>1. CASE UNCHANGED <<store, timers>>
      BY <1>1, <2>1 DEF timers, TimersOK, LoopsKnown, StoresOK
    <2>2. ASSUME NEW l \in Unused, ScheduleInterval(id, store[id], l) PROVE <1>3!:
      BY <1>1, <1>2, <2>2, ScheduleIntervalOK DEF Unused
    <2>3. ASSUME NEW l \in Unused, ScheduleCron(id, store[id], l),
                 loop' = [loop EXCEPT ![l] = Loop(id, "entry")], UNCHANGED intervals
          PROVE  <1>3!:
      <3>1. l \in Loops
        BY DEF Unused
      <3>2. /\ cronJobs' \in [Ids -> Loops \cup {None}]
            /\ store' \in [Ids -> Config \cup {None}]
            /\ \A j \in Ids : store[j] # None => store'[j] # None
        BY <1>1, <1>2, <2>3, <3>1, ScheduleCronOK
      <3>3. intervals' \in [Ids -> Loops \cup {None}]
        BY <1>1, <2>3 DEF TimersOK
      <3> QED  BY <1>1, <2>3, <3>1, <3>2, <3>3, NewLoop
    <2> QED  BY <2>1, <2>2, <2>3 DEF Start
  <1>4. boot' = boot \ {id} /\ UNCHANGED <<running, results, stack, admin, execs, ended, lost>>
    BY DEF Start
  <1>5. StoresOK'
    BY <1>1, <1>3, <1>4 DEF StoresOK
  <1>6. AdminsOK'
    BY <1>1, <1>2, <1>3, <1>4 DEF AdminsOK, RequestsKnown, StoresOK
  <1>7. StacksOK'
    BY <1>1, <1>4, FlightsStay
  <1> QED  BY <1>3, <1>5, <1>6, <1>7 DEF IndInv

\* Clear empties the result cache of a schedule.
LEMMA ClearStep ==
    ASSUME IndInv, NEW id \in Ids, Clear(id)
    PROVE  IndInv'
  <1>1. StoresOK /\ TimersOK /\ AdminsOK /\ StacksOK
    BY DEF IndInv
  <1>2. StoresOK'
    BY <1>1 DEF Clear, StoresOK
  <1>3. TimersOK'
    BY <1>1 DEF Clear, TimersOK, LoopsKnown, timers
  <1>4. AdminsOK'
    BY <1>1 DEF Clear, AdminsOK, RequestsKnown
  <1>5. StacksOK'
    BY <1>1, FlightsStay DEF Clear
  <1> QED  BY <1>2, <1>3, <1>4, <1>5 DEF IndInv

(***************************************************************************)
(* An administrator goes on: the calls are left alone, and the new request *)
(* in hand is in order.                                                    *)
(***************************************************************************)
LEMMA AdminGoesOn ==
    ASSUME IndInv, NEW a \in Admins, NEW r \in AdminType, Now(a, r), UNCHANGED calling,
           store' \in [Ids -> Config \cup {None}], TimersOK',
           boot = {},
           r.at # "idle" => r.id \in Ids,
           r.at \in {"reload", "schedule", "register", "record"} => r.sch # None,
           r.at = "record" => r.job \in Loops
    PROVE  IndInv'
  <1>1. StoresOK /\ AdminsOK /\ StacksOK
    BY DEF IndInv
  <1>2. UNCHANGED <<running, results, stack, boot, execs, ended, lost>>
    BY DEF calling
  <1>3. StoresOK'
    BY <1>1, <1>2 DEF StoresOK
  <1>4. admin' \in [Admins -> AdminType]
    BY <1>1 DEF AdminsOK, Now
  <1>5. admin'[a] = r /\ \A b \in Admins \ {a} : admin'[b] = admin[b]
    BY <1>1 DEF AdminsOK, Now
  <1>6. AdminsOK'
    BY <1>1, <1>2, <1>4, <1>5 DEF AdminsOK, RequestsKnown
  <1>7. StacksOK'
    BY <1>1, <1>2, FlightsStay
  <1> QED  BY <1>3, <1>6, <1>7 DEF IndInv

\* An administrator at work has what its step needs in hand.
LEMMA AdminInHand ==
    ASSUME IndInv, NEW a \in Admins, admin[a].at # "idle"
    PROVE  /\ boot = {} /\ admin[a] \in AdminType /\ admin[a].id \in Ids
           /\ admin[a].at \in {"reload", "schedule", "register", "record"} => admin[a].sch \in Config
           /\ admin[a].at = "record" => admin[a].job \in Loops
  <1>1. admin[a] \in AdminType /\ RequestsKnown
    BY DEF IndInv, AdminsOK
  <1>2. admin[a].sch \in Config \cup {None}
    BY <1>1 DEF AdminType
  <1> QED  BY <1>1, <1>2 DEF RequestsKnown

\* A request of an administrator has its type.
LEMMA AdminTypes ==
    /\ \A at \in {"reload", "record"}, id \in Ids, c \in Config, j \in Loops \cup {None} :
         /\ Handling(at, id, c, j) \in AdminType /\ Handling(at, id, c, j).id = id
         /\ Handling(at, id, c, j).at = at /\ Handling(at, id, c, j).sch = c
         /\ Handling(at, id, c, j).job = j
    /\ \A id \in Ids : /\ Handling("delete", id, None, None) \in AdminType
                       /\ Handling("delete", id, None, None).at = "delete"
                       /\ Handling("delete", id, None, None).id = id
  <1>1. \A at \in {"reload", "record"}, id \in Ids, c \in Config, j \in Loops \cup {None} :
         /\ Handling(at, id, c, j) \in AdminType /\ Handling(at, id, c, j).id = id
         /\ Handling(at, id, c, j).at = at /\ Handling(at, id, c, j).sch = c
         /\ Handling(at, id, c, j).job = j
    BY DEF Handling, AdminType
  <1>2. \A id \in Ids : /\ Handling("delete", id, None, None) \in AdminType
                        /\ Handling("delete", id, None, None).at = "delete"
                        /\ Handling("delete", id, None, None).id = id
    BY DEF Handling, AdminType
  <1> QED  BY <1>1, <1>2

\* Saving and deleting schedules, step by step.
LEMMA AdminSteps ==
    ASSUME IndInv, NEW a \in Admins,
           \/ Administer(a)
           \/ \E id \in Ids : DeleteSchedule(a, id)
           \/ \E id \in Ids : \E body \in Bodies : SaveSchedule(a, id, body)
    PROVE  IndInv'
  <1>1. StoresOK /\ TimersOK /\ AdminsOK /\ StacksOK
    BY DEF IndInv
  <1>2. store \in [Ids -> Config \cup {None}]
    BY <1>1 DEF StoresOK
  <1>3. UNCHANGED timers => TimersOK'
    BY <1>1 DEF timers, TimersOK, LoopsKnown
  <1>4. NoRequest \in AdminType /\ NoRequest.at = "idle"
    BY SmallTypes
  <1>5. Bodies \subseteq Config /\ None \notin Config
    BY SchedulerAssumption, NoneIsNothing
  <1>a. ASSUME NEW id \in Ids, NEW body \in Bodies, SaveSchedule(a, id, body) PROVE IndInv'
    <2>1. store' \in [Ids -> Config \cup {None}]
      BY <1>2, <1>5, <1>a, SaveStore DEF SaveSchedule
    <2>2. PICK r \in AdminType : r = Handling("reload", id, body, None) /\ r.at = "reload"
                                 /\ r.id = id /\ r.sch = body
      BY <1>5, AdminTypes
    <2>3. Now(a, r) /\ UNCHANGED calling /\ UNCHANGED timers /\ boot = {}
      BY <1>a, <2>2 DEF SaveSchedule
    <2> QED  BY <1>3, <1>5, <2>1, <2>2, <2>3, AdminGoesOn
  <1>b. ASSUME Reload(a) PROVE IndInv'
    <2>1. PICK at \in {"schedule", "register"} :
              /\ admin[a].at \in {"reload", "schedule"}
              /\ Unschedule(admin[a].id) /\ Now(a, [admin[a] EXCEPT !.at = at])
              /\ UNCHANGED <<calling, store>>
      BY <1>b DEF Reload, Handles
    <2>2. boot = {} /\ admin[a] \in AdminType /\ admin[a].id \in Ids /\ admin[a].sch \in Config
      BY <2>1, AdminInHand
    <2> DEFINE r == [admin[a] EXCEPT !.at = at]
    <2>3. r \in AdminType /\ r.at = at /\ r.id = admin[a].id /\ r.sch = admin[a].sch
      BY <2>2 DEF AdminType
    <2> HIDE DEF r
    <2>5. Now(a, r)
      BY <2>1 DEF r
    <2>4. TimersOK'
      BY <1>1, <2>1, <2>2, UnscheduleTimers
    <2> QED  BY <1>2, <1>5, <2>1, <2>2, <2>3, <2>4, <2>5, AdminGoesOn
  <1>c. ASSUME Schedule(a) PROVE IndInv'
    <2>1. PICK id \in Ids, c \in Config : id = admin[a].id /\ c = admin[a].sch /\ boot = {}
      BY <1>c, AdminInHand DEF Schedule, Handles
    <2>2. UNCHANGED calling
      BY <1>c DEF Schedule
    <2>3. CASE Now(a, NoRequest) /\ UNCHANGED <<store, timers>>
      BY <1>2, <1>3, <1>4, <2>1, <2>2, <2>3, AdminGoesOn
    <2>4. ASSUME NEW l \in Unused, ScheduleInterval(id, c, l), Now(a, NoRequest) PROVE IndInv'
      <3>1. TimersOK' /\ store' \in [Ids -> Config \cup {None}]
        BY <1>1, <2>4, ScheduleIntervalOK DEF Unused
      <3> QED  BY <1>4, <2>1, <2>2, <2>4, <3>1, AdminGoesOn
    <2>5. ASSUME NEW l \in Unused, loop' = [loop EXCEPT ![l] = Loop(id, "entry")],
                 Now(a, Handling("record", id, c, l)), UNCHANGED <<store, cronJobs, intervals>>
          PROVE  IndInv'
      <3>1. l \in Loops
        BY DEF Unused
      <3>2. TimersOK'
        BY <1>1, <2>5, <3>1, NewLoop DEF TimersOK
      <3>3. PICK r \in AdminType : r = Handling("record", id, c, l) /\ r.at = "record"
                                   /\ r.id = id /\ r.sch = c /\ r.job = l
        BY <3>1, AdminTypes
      <3> QED  BY <1>2, <1>5, <2>1, <2>2, <2>5, <3>1, <3>2, <3>3, AdminGoesOn
    <2> QED  BY <1>c, <2>1, <2>3, <2>4, <2>5 DEF Schedule
  <1>d. ASSUME RecordCron(a) PROVE IndInv'
    <2>1. PICK id \in Ids, c \in Config, l \in Loops :
              id = admin[a].id /\ c = admin[a].sch /\ l = admin[a].job /\ boot = {}
      BY <1>d, AdminInHand DEF RecordCron, Handles
    <2>2. ScheduleCron(id, c, l) /\ Now(a, NoRequest) /\ UNCHANGED <<calling, intervals, loop>>
      BY <1>d, <2>1 DEF RecordCron
    <2>3. cronJobs' \in [Ids -> Loops \cup {None}] /\ store' \in [Ids -> Config \cup {None}]
      BY <1>1, <2>2, ScheduleCronOK
    <2>4. TimersOK'
      BY <1>1, <2>2, <2>3 DEF TimersOK, LoopsKnown
    <2> QED  BY <1>4, <2>1, <2>2, <2>3, <2>4, AdminGoesOn
  <1>e. ASSUME NEW id \in Ids, DeleteSchedule(a, id) PROVE IndInv'
    <2>1. TimersOK' /\ UNCHANGED <<calling, store>> /\ boot = {}
      BY <1>1, <1>e, UnscheduleTimers DEF DeleteSchedule
    <2>2. PICK r \in AdminType : r = Handling("delete", id, None, None) /\ r.at = "delete"
                                 /\ r.id = id
      BY AdminTypes
    <2>3. Now(a, r)
      BY <1>e, <2>2 DEF DeleteSchedule
    <2> QED  BY <1>2, <2>1, <2>2, <2>3, AdminGoesOn
  <1>f. ASSUME Delete(a) PROVE IndInv'
    <2>1. boot = {} /\ admin[a].id \in Ids
      BY <1>f, AdminInHand DEF Delete, Handles
    <2>2. store' \in [Ids -> Config \cup {None}]
      BY <1>2, <1>f, <2>1 DEF Delete, Save
    <2>3. Now(a, NoRequest) /\ UNCHANGED calling /\ UNCHANGED timers
      BY <1>f DEF Delete
    <2> QED  BY <1>3, <1>4, <2>1, <2>2, <2>3, AdminGoesOn
  <1> QED  BY <1>a, <1>b, <1>c, <1>d, <1>e, <1>f DEF Administer

-----------------------------------------------------------------------------
(***************************************************************************)
(* Steps of the tasks.                                                     *)
(***************************************************************************)

\* The innermost call of a task, when there is one.
LEMMA TopCall ==
    ASSUME IndInv, NEW t \in Tasks, stack[t] # <<>>
    PROVE  Top(t) \in Calls /\ CallOK(t, Top(t)) /\ Top(t).id \in Ids /\ Len(stack[t]) \in Depth(t)
  <1>1. stack \in [Tasks -> Seq(Calls)] /\ CallsOK
    BY DEF IndInv, StacksOK, Flights
  <1>2. Len(stack[t]) \in Depth(t)
    BY <1>1, EmptySeq DEF Depth
  <1>3. Top(t) \in Calls
    BY <1>1, <1>2, ElementOfSeq DEF Depth, Top
  <1> QED  BY <1>1, <1>2, <1>3, CallFields DEF CallsOK, Top

\* A task makes a call.
LEMMA CallStep ==
    ASSUME IndInv, NEW t \in Tasks, NEW c \in Calls, Calling(t, c), TimersOK',
           c.at \in {"lookup", "trigger", "begin"}, c.value = 0, c.since = ended[c.id],
           UNCHANGED <<store, running, results, admin, boot, execs, ended, lost>>
    PROVE  IndInv'
  <1>1. StoresOK /\ AdminsOK /\ StacksOK
    BY DEF IndInv
  <1>2. StoresOK' /\ AdminsOK'
    BY <1>1 DEF StoresOK, AdminsOK, RequestsKnown
  <1>3. StacksOK'
    BY <1>1, FlightsCall
  <1> QED  BY <1>2, <1>3 DEF IndInv

\* A call returns.
LEMMA ReturnStep ==
    ASSUME IndInv, NEW t \in Tasks, stack[t] # <<>>, Returns(t), UNCHANGED shared
    PROVE  IndInv'
  <1>1. StoresOK /\ TimersOK /\ AdminsOK /\ StacksOK
    BY DEF IndInv
  <1>2. StoresOK' /\ AdminsOK'
    BY <1>1 DEF StoresOK, AdminsOK, RequestsKnown, shared
  <1>3. TimersOK'
    BY <1>1 DEF TimersOK, LoopsKnown, shared, timers
  <1>4. StacksOK'
    BY <1>1, FlightsReturn DEF shared
  <1> QED  BY <1>2, <1>3, <1>4 DEF IndInv

\* A call goes on, with what it may change meanwhile.
LEMMA RunStep ==
    ASSUME IndInv, NEW t \in Tasks, stack[t] # <<>>, NEW c \in Calls, Becomes(t, c),
           c.id = Top(t).id, c.since = Top(t).since,
           c.at \in {"mark", "target", "save"} => c.sch # None,
           c.at \in Leading => running'[c.id] = t,
           c.at \in Leading /\ c.value # 0 => c.value > ended[c.id],
           c.at \in {"lookup", "stale", "trigger", "begin"} => c.value = 0,
           c.at # "woken",
           c.at \in Leading => Top(t).at \in Leading \/ running[c.id] = None,
           running' \in [Ids -> Tasks \cup {None}], results' \in [Ids -> Nat],
           execs' \in [Ids -> Nat], lost' \in [Ids -> Nat],
           store' \in [Ids -> Config \cup {None}],
           \A id \in Ids : store[id] # None => store'[id] # None,
           \A id \in Ids : execs'[id] >= execs[id],
           \A id \in Ids : running'[id] = running[id] \/ running[id] = None,
           TimersOK', UNCHANGED <<admin, boot, ended>>
    PROVE  IndInv'
  <1>1. StoresOK /\ AdminsOK /\ StacksOK
    BY DEF IndInv
  <1>2. StoresOK'
    BY <1>1 DEF StoresOK
  <1>3. AdminsOK'
    BY <1>1 DEF AdminsOK, RequestsKnown, StoresOK
  <1>4. CallOK(t, c)'
    BY TopCall DEF CallOK
  <1>5. \A id \in Ids : execs'[id] >= execs[id] /\ execs'[id] \in Nat
    OBVIOUS
  <1>6. StacksOK'
    BY <1>1, <1>4, <1>5, FlightsGoOn
  <1> QED  BY <1>2, <1>3, <1>6 DEF IndInv

\* The same when the call alone changes.
LEMMA QuietStep ==
    ASSUME IndInv, NEW t \in Tasks, stack[t] # <<>>, NEW c \in Calls, Becomes(t, c),
           UNCHANGED shared,
           c.id = Top(t).id, c.since = Top(t).since, c.value = Top(t).value,
           c.at \in {"mark", "target", "save"} => c.sch # None,
           c.at \in Leading => Top(t).at \in Leading,
           c.at \in {"lookup", "stale", "trigger", "begin"} => c.value = 0,
           c.at # "woken"
    PROVE  IndInv'
  <1>1. StoresOK /\ TimersOK
    BY DEF IndInv
  <1>2. UNCHANGED <<store, running, results, admin, boot, execs, ended, lost, timers>>
    BY DEF shared
  <1>3. TimersOK'
    BY <1>1, <1>2 DEF TimersOK, LoopsKnown, timers
  <1>4. \A id \in Ids : execs'[id] >= execs[id]
    BY <1>1, <1>2 DEF StoresOK
  <1>5. CallOK(t, Top(t))
    BY TopCall
  <1>6. c.at \in Leading => running'[c.id] = t
    BY <1>2, <1>5 DEF CallOK
  <1>7. c.at \in Leading /\ c.value # 0 => c.value > ended[c.id]
    BY <1>5 DEF CallOK
  <1>8. /\ running' \in [Ids -> Tasks \cup {None}] /\ results' \in [Ids -> Nat]
        /\ execs' \in [Ids -> Nat] /\ lost' \in [Ids -> Nat]
        /\ store' \in [Ids -> Config \cup {None}]
    BY <1>1, <1>2 DEF StoresOK
  <1> QED  BY <1>2, <1>3, <1>4, <1>6, <1>7, <1>8, RunStep

\* A call of an operation has its type.
LEMMA CallType ==
    ASSUME IndInv, NEW op \in {"run", "refresh", "get"}, NEW id \in Ids,
           NEW at \in {"lookup", "trigger", "begin"}, NEW cancel \in BOOLEAN
    PROVE  LET c == Call(op, id, at, cancel)
           IN  c \in Calls /\ c.at = at /\ c.value = 0 /\ c.since = ended[c.id] /\ c.id = id
  <1>1. ended[id] \in Nat /\ at \in CallAt
    BY DEF IndInv, StoresOK, CallAt
  <1> QED  BY <1>1 DEF Call, Calls

\* Whether a call may be cancelled is a truth value.
LEMMA CancellableType ==
    ASSUME IndInv, NEW t \in Tasks
    PROVE  Cancellable(t) \in BOOLEAN
  BY DEF Cancellable

\* Intervals and cron entries.
LEMMA TickSteps ==
    ASSUME IndInv, NEW l \in Loops, Tick(l)
    PROVE  IndInv'
  <1>1. StoresOK /\ TimersOK /\ AdminsOK /\ StacksOK
    BY DEF IndInv
  <1>2. PICK x \in LoopType : x = loop[l] /\ (x.at # "free" => x.id \in Ids)
    BY <1>1 DEF TimersOK, LoopsKnown
  <1>3. UNCHANGED registry => StoresOK' /\ AdminsOK'
    BY <1>1 DEF registry, StoresOK, AdminsOK, RequestsKnown
  <1>4. ASSUME UNCHANGED registry, NEW y \in LoopType, loop' = [loop EXCEPT ![l] = y],
               y.at # "free" => y.id \in Ids
        PROVE  TimersOK'
    <2>1. loop' \in [Loops -> LoopType] /\ LoopsKnown'
      BY <1>1, <1>4 DEF TimersOK, LoopsKnown
    <2> QED  BY <1>1, <1>4, <2>1 DEF TimersOK, registry
  <1>5. UNCHANGED <<registry, stack>> => StacksOK'
    BY <1>1, FlightsStay DEF registry
  <1>a. CASE CheckInterval(l)
    <2>1. PICK y : /\ loop' = [loop EXCEPT ![l] = y]
                   /\ y = NoLoop \/ (x.at = "check" /\ y = [x EXCEPT !.at = "sleep"])
      BY <1>2, <1>a DEF CheckInterval
    <2>2. y \in LoopType /\ (y.at # "free" => y.id \in Ids)
      <3>1. CASE x.at = "check" /\ y = [x EXCEPT !.at = "sleep"]
        BY <1>2, <3>1 DEF LoopType
      <3> QED  BY <2>1, <3>1, SmallTypes
    <2>3. UNCHANGED <<registry, stack>>
      BY <1>a DEF CheckInterval
    <2> QED  BY <1>3, <1>4, <1>5, <2>1, <2>2, <2>3 DEF IndInv
  <1>b. CASE StopInterval(l)
    <2>1. loop' = [loop EXCEPT ![l] = NoLoop] /\ UNCHANGED <<registry, stack>>
      BY <1>b DEF StopInterval
    <2> QED  BY <1>3, <1>4, <1>5, <2>1, SmallTypes DEF IndInv
  <1>c. CASE FireInterval(l)
    <2> DEFINE y == [x EXCEPT !.at = "check"]
    <2>1. y \in LoopType /\ y.id = x.id
      BY <1>2 DEF LoopType
    <2>2. loop' = [loop EXCEPT ![l] = y] /\ UNCHANGED registry /\ x.id \in Ids
      BY <1>2, <1>c DEF FireInterval
    <2> HIDE DEF y
    <2>3. PICK c \in Calls : /\ c = Call("run", x.id, "begin", FALSE)
                             /\ c.at = "begin" /\ c.value = 0 /\ c.since = ended[c.id]
      BY <2>2, CallType
    <2>4. Calling(l, c) /\ l \in Tasks
      BY <1>2, <1>c, <2>3 DEF FireInterval, Tasks
    <2>5. TimersOK'
      BY <1>4, <2>1, <2>2
    <2> QED  BY <2>2, <2>3, <2>4, <2>5, CallStep DEF registry
  <1>d. ASSUME NEW t \in Tasks, FireCron(l, t) PROVE IndInv'
    <2>1. x.id \in Ids /\ UNCHANGED <<registry, loop>>
      BY <1>2, <1>d DEF FireCron
    <2>2. PICK c \in Calls : /\ c = Call("run", x.id, "begin", FALSE)
                             /\ c.at = "begin" /\ c.value = 0 /\ c.since = ended[c.id]
      BY <2>1, CallType
    <2>3. Calling(t, c)
      BY <1>2, <1>d, <2>2 DEF FireCron
    <2>4. TimersOK'
      BY <1>1, <2>1 DEF TimersOK, LoopsKnown, registry
    <2> QED  BY <2>1, <2>2, <2>3, <2>4, CallStep DEF registry
  <1> QED  BY <1>a, <1>b, <1>c, <1>d DEF Tick

\* Refresh, Get and Trigger are called.
LEMMA AskSteps ==
    ASSUME IndInv, NEW t \in Tasks, NEW id \in Ids, Ask(t, id)
    PROVE  IndInv'
  <1>1. UNCHANGED shared
    BY DEF Ask, Refresh, Get, Trigger
  <1>2. TimersOK' /\ UNCHANGED <<store, running, results, admin, boot, execs, ended, lost>>
    BY <1>1 DEF IndInv, TimersOK, LoopsKnown, shared, timers
  <1>3. PICK c \in Calls : /\ Calling(t, c) /\ c.at \in {"lookup", "trigger", "begin"}
                           /\ c.value = 0 /\ c.since = ended[c.id]
    <2>1. CASE Refresh(t, id)
      BY <2>1, CallType, CancellableType DEF Refresh
    <2>2. CASE Get(t, id)
      <3> DEFINE d == Call("get", id, "lookup", Cancellable(t))
                 c == [d EXCEPT !.sch = store[id]]
      <3>1. d \in Calls /\ d.at = "lookup" /\ d.value = 0 /\ d.since = ended[d.id]
        BY CallType, CancellableType
      <3>2. store[id] \in Config \cup {None}
        BY DEF IndInv, StoresOK
      <3>3. Calling(t, c)
        BY <2>2 DEF Get
      <3> HIDE DEF d
      <3>4. c \in Calls /\ c.at = d.at /\ c.value = d.value /\ c.since = d.since /\ c.id = d.id
        BY <3>1, <3>2 DEF Calls
      <3> HIDE DEF c
      <3> QED  BY <3>1, <3>3, <3>4
    <2>3. CASE \E wait \in BOOLEAN : Trigger(t, id, wait)
      BY <2>3, CallType DEF Trigger
    <2> QED  BY <2>1, <2>2, <2>3 DEF Ask
  <1> QED  BY <1>2, <1>3, CallStep

\* The steps of a call before the schedule is run.
LEMMA BeforeRunSteps ==
    ASSUME IndInv, NEW t \in Tasks,
           \/ Hit(t) \/ Miss(t) \/ FallBack(t) \/ TriggerRefresh(t) \/ Wake(t) \/ Cancel(t)
    PROVE  IndInv'
  <1>1. UNCHANGED shared /\ stack[t] # <<>>
    BY DEF Hit, Miss, FallBack, TriggerRefresh, Wake, Cancel, At
  <1>2. CASE Returns(t)
    BY <1>1, <1>2, ReturnStep
  <1>3. PICK d \in Calls : d = Top(t) /\ CallOK(t, d)
    BY <1>1, TopCall
  <1>4. CASE Miss(t) \/ (TriggerRefresh(t) /\ ~Returns(t))
    <2>1. PICK at \in {"stale", "begin"} : Goto(t, at) /\ d.at \in {"lookup", "trigger"}
      BY <1>3, <1>4 DEF Miss, TriggerRefresh, At
    <2> DEFINE c == [d EXCEPT !.at = at]
    <2>2. at \in CallAt
      BY DEF CallAt
    <2>3. /\ c \in Calls /\ c.id = d.id /\ c.since = d.since /\ c.value = d.value /\ c.at = at
      BY <2>2 DEF Calls
    <2>4. Becomes(t, c)
      BY <1>3, <2>1 DEF Goto
    <2> HIDE DEF c
    <2>5. d.value = 0
      BY <1>3, <2>1 DEF CallOK
    <2>6. c.at \notin Leading /\ c.at # "woken" /\ c.at \notin {"mark", "target", "save"}
      BY <2>3 DEF Leading
    <2> QED  BY <1>1, <1>3, <2>3, <2>4, <2>5, <2>6, QuietStep
  <1>5. CASE FallBack(t) /\ ~Returns(t)
    <2> DEFINE c == [d EXCEPT !.at = "trigger", !.sch = None]
    <2>1. Becomes(t, c) /\ d.at = "stale"
      BY <1>3, <1>5 DEF FallBack, At
    <2>2. "trigger" \in CallAt
      BY DEF CallAt
    <2>3. /\ c \in Calls /\ c.id = d.id /\ c.since = d.since /\ c.value = d.value
          /\ c.at = "trigger"
      BY <2>2 DEF Calls
    <2> HIDE DEF c
    <2>4. d.value = 0
      BY <1>3, <2>1 DEF CallOK
    <2>5. c.at \notin Leading /\ c.at # "woken" /\ c.at \notin {"mark", "target", "save"}
      BY <2>3 DEF Leading
    <2> QED  BY <1>1, <1>3, <2>1, <2>3, <2>4, <2>5, QuietStep
  <1> QED  BY <1>2, <1>4, <1>5 DEF Hit, Wake, Cancel

\* beginRun: leader or follower.
LEMMA BeginRunStep ==
    ASSUME IndInv, NEW t \in Tasks, BeginRun(t)
    PROVE  IndInv'
  <1>1. stack[t] # <<>>
    BY DEF BeginRun, At
  <1>2. PICK d \in Calls : d = Top(t) /\ CallOK(t, d) /\ d.id \in Ids /\ d.at = "begin"
    BY <1>1, TopCall DEF BeginRun, At
  <1>3. StoresOK /\ TimersOK
    BY DEF IndInv
  <1>4. UNCHANGED <<store, results, timers, admin, boot, execs, ended, lost>>
    BY DEF BeginRun
  <1>5. TimersOK'
    BY <1>3, <1>4 DEF TimersOK, LoopsKnown, timers
  <1>6. /\ results' \in [Ids -> Nat] /\ execs' \in [Ids -> Nat] /\ lost' \in [Ids -> Nat]
        /\ store' \in [Ids -> Config \cup {None}] /\ \A id \in Ids : execs'[id] >= execs[id]
    BY <1>3, <1>4 DEF StoresOK
  <1>7. d.value = 0
    BY <1>2 DEF CallOK
  <1>8. CASE running[d.id] = None
    <2> DEFINE c == [d EXCEPT !.at = "load"]
    <2>1. "load" \in CallAt
      BY DEF CallAt, Leading
    <2>2. /\ c \in Calls /\ c.id = d.id /\ c.since = d.since /\ c.value = d.value
          /\ c.at = "load"
      BY <2>1 DEF Calls
    <2>3. Becomes(t, c)
      BY <1>2, <1>8 DEF BeginRun, Goto
    <2> HIDE DEF c
    <2>4. running' = [running EXCEPT ![d.id] = t]
      BY <1>2, <1>8 DEF BeginRun
    <2>5. /\ running' \in [Ids -> Tasks \cup {None}] /\ running'[d.id] = t
          /\ \A id \in Ids : running'[id] = running[id] \/ running[id] = None
      BY <1>2, <1>3, <1>8, <2>4 DEF StoresOK
    <2> QED  BY <1>1, <1>2, <1>4, <1>5, <1>6, <1>7, <1>8, <2>2, <2>3, <2>5, RunStep
  <1>9. CASE running[d.id] # None
    <2> DEFINE c == [d EXCEPT !.at = "follow", !.lead = running[d.id]]
    <2>1. "follow" \in CallAt /\ running[d.id] \in Tasks \cup {None}
      BY <1>2, <1>3 DEF CallAt, StoresOK
    <2>2. /\ c \in Calls /\ c.id = d.id /\ c.since = d.since /\ c.value = d.value
          /\ c.at = "follow"
      BY <2>1 DEF Calls
    <2>3. Becomes(t, c) /\ UNCHANGED running
      BY <1>2, <1>9 DEF BeginRun
    <2> HIDE DEF c
    <2>4. c.at \notin Leading
      BY <2>2 DEF Leading
    <2>5. UNCHANGED shared
      BY <1>4, <2>3 DEF shared
    <2> QED  BY <1>1, <1>2, <2>2, <2>3, <2>4, <2>5, QuietStep
  <1> QED  BY <1>8, <1>9

(***************************************************************************)
(* What the steps of a run make of the call d that takes them.             *)
(***************************************************************************)
Same(c, d) == c.id = d.id /\ c.since = d.since

\* runOnce loads: a schedule that is gone or completed ends the run at once.
LEMMA LoadEffect ==
    ASSUME IndInv, NEW t \in Tasks, Load(t)
    PROVE  \E c, d \in Calls :
             /\ d = Top(t) /\ d.at = "load" /\ stack[t] # <<>> /\ CallOK(t, d) /\ d.id \in Ids
             /\ Becomes(t, c) /\ Same(c, d) /\ c.value = d.value
             /\ IF store[d.id] = None \/ Completed(store[d.id]) THEN c.at = "end"
                ELSE c.at = "mark" /\ c.sch = store[d.id]
             /\ UNCHANGED shared
  <1>1. stack[t] # <<>>
    BY DEF Load, At
  <1>2. PICK d \in Calls : d = Top(t) /\ CallOK(t, d) /\ d.id \in Ids /\ d.at = "load"
    BY <1>1, TopCall DEF Load, At
  <1> DEFINE over == store[d.id] = None \/ Completed(store[d.id])
             sch == IF over THEN None ELSE store[d.id]
             at == IF over THEN "end" ELSE "mark"
             c == [d EXCEPT !.sch = sch, !.at = at]
  <1>3. sch \in Config \cup {None} /\ at \in CallAt
    BY <1>2 DEF IndInv, StoresOK, CallAt, Leading
  <1>4. Becomes(t, c) /\ UNCHANGED shared
    BY <1>2 DEF Load
  <1> HIDE DEF sch, at, over
  <1>5. c \in Calls /\ Same(c, d) /\ c.value = d.value /\ c.at = at /\ c.sch = sch
    BY <1>3 DEF Calls, Same
  <1> HIDE DEF c
  <1> QED  BY <1>1, <1>2, <1>4, <1>5 DEF sch, at, over

\* The copy is marked as running, saved if that works, and the target starts.
LEMMA MarkEffect ==
    ASSUME IndInv, NEW t \in Tasks, Mark(t)
    PROVE  \E c, d \in Calls :
             /\ d = Top(t) /\ d.at = "mark" /\ stack[t] # <<>> /\ CallOK(t, d) /\ d.id \in Ids
             /\ d.sch \in Config
             /\ Becomes(t, c) /\ Same(c, d) /\ c.value = execs[d.id] + 1 /\ c.at = "target"
             /\ c.sch \in Config /\ c.sch.count = d.sch.count /\ c.sch.max = d.sch.max
             /\ c.sch.active = d.sch.active
             /\ Save(d.id, c.sch) \/ UNCHANGED store
             /\ execs' = [execs EXCEPT ![d.id] = @ + 1]
             /\ UNCHANGED <<running, results, timers, admin, boot, ended, lost>>
  <1>1. stack[t] # <<>>
    BY DEF Mark, At
  <1>2. PICK d \in Calls : d = Top(t) /\ CallOK(t, d) /\ d.id \in Ids /\ d.at = "mark"
    BY <1>1, TopCall DEF Mark, At
  <1>3. PICK e \in Config : e = d.sch
    BY <1>2, CallFields DEF CallOK
  <1> DEFINE sch == [e EXCEPT !.running = TRUE]
             v == execs[d.id] + 1
             c == [d EXCEPT !.at = "target", !.sch = sch, !.value = v]
  <1>4. sch \in Config /\ sch.count = e.count /\ sch.max = e.max /\ sch.active = e.active
    BY DEF Config
  <1>5. v \in Nat /\ "target" \in CallAt
    BY <1>2 DEF IndInv, StoresOK, CallAt, Leading
  <1>6. /\ Becomes(t, c) /\ (Save(d.id, sch) \/ UNCHANGED store)
        /\ execs' = [execs EXCEPT ![d.id] = @ + 1]
        /\ UNCHANGED <<running, results, timers, admin, boot, ended, lost>>
    BY <1>2, <1>3 DEF Mark
  <1> HIDE DEF sch, v
  <1>7. c \in Calls /\ Same(c, d) /\ c.value = v /\ c.at = "target" /\ c.sch = sch
    BY <1>4, <1>5 DEF Calls, Same
  <1> HIDE DEF c
  <1> QED  BY <1>1, <1>2, <1>3, <1>4, <1>6, <1>7 DEF v

\* The target is done, and the copy has one run more.
LEMMA FinishEffect ==
    ASSUME IndInv, NEW t \in Tasks, NEW published \in BOOLEAN, Finish(t, published)
    PROVE  \E c, d \in Calls :
             /\ d = Top(t) /\ d.at = "target" /\ stack[t] # <<>> /\ CallOK(t, d) /\ d.id \in Ids
             /\ d.sch \in Config
             /\ Becomes(t, c) /\ Same(c, d) /\ c.value \in {d.value, 0} /\ c.at = "save"
             /\ c.sch = AfterRun(d.sch)
             /\ results' = [results EXCEPT ![d.id] = d.value] \/ UNCHANGED results
             /\ UNCHANGED <<store, running, timers, admin, boot, execs, ended, lost>>
  <1>1. stack[t] # <<>>
    BY DEF Finish, At
  <1>2. PICK d \in Calls : d = Top(t) /\ CallOK(t, d) /\ d.id \in Ids /\ d.at = "target"
    BY <1>1, TopCall DEF Finish, At
  <1>3. PICK e \in Config : e = d.sch
    BY <1>2, CallFields DEF CallOK
  <1> DEFINE sch == AfterRun(e)
             v == IF published THEN d.value ELSE 0
             c == [d EXCEPT !.at = "save", !.sch = sch, !.value = v]
  <1>4. sch \in Config
    BY ConfigType
  <1>5. v \in Nat /\ v \in {d.value, 0} /\ "save" \in CallAt
    BY CallFields DEF CallAt, Leading
  <1>6. /\ Becomes(t, c)
        /\ results' = [results EXCEPT ![d.id] = d.value] \/ UNCHANGED results
        /\ UNCHANGED <<store, running, timers, admin, boot, execs, ended, lost>>
    BY <1>2, <1>3 DEF Finish
  <1> HIDE DEF sch, v
  <1>7. c \in Calls /\ Same(c, d) /\ c.value = v /\ c.at = "save" /\ c.sch = sch
    BY <1>4, <1>5 DEF Calls, Same
  <1> HIDE DEF c
  <1> QED  BY <1>1, <1>2, <1>3, <1>5, <1>6, <1>7 DEF sch

\* A panic ends the run, and its count is lost.
LEMMA PanicEffect ==
    ASSUME IndInv, NEW t \in Tasks, Panic(t)
    PROVE  \E c, d \in Calls :
             /\ d = Top(t) /\ d.at = "target" /\ stack[t] # <<>> /\ CallOK(t, d) /\ d.id \in Ids
             /\ Becomes(t, c) /\ Same(c, d) /\ c.value = 0 /\ c.at = "end"
             /\ lost' = [lost EXCEPT ![d.id] = @ + 1]
             /\ UNCHANGED <<store, running, results, timers, admin, boot, execs, ended>>
  <1>1. stack[t] # <<>>
    BY DEF Panic, At
  <1>2. PICK d \in Calls : d = Top(t) /\ CallOK(t, d) /\ d.id \in Ids /\ d.at = "target"
    BY <1>1, TopCall DEF Panic, At
  <1> DEFINE c == [d EXCEPT !.at = "end", !.sch = None, !.value = 0]
  <1>3. Becomes(t, c) /\ lost' = [lost EXCEPT ![d.id] = @ + 1]
        /\ UNCHANGED <<store, running, results, timers, admin, boot, execs, ended>>
    BY <1>2 DEF Panic
  <1>4. "end" \in CallAt
    BY DEF CallAt, Leading
  <1>5. c \in Calls /\ Same(c, d) /\ c.value = 0 /\ c.at = "end"
    BY <1>4 DEF Calls, Same
  <1> HIDE DEF c
  <1> QED  BY <1>1, <1>2, <1>3, <1>5

\* The copy is saved, or its count is lost.
LEMMA SaveRunEffect ==
    ASSUME IndInv, NEW t \in Tasks, SaveRun(t)
    PROVE  \E c, d \in Calls :
             /\ d = Top(t) /\ d.at = "save" /\ stack[t] # <<>> /\ CallOK(t, d) /\ d.id \in Ids
             /\ d.sch \in Config
             /\ Becomes(t, c) /\ Same(c, d) /\ c.value \in {d.value, 0}
             /\ c.at = IF d.sch.active THEN "end" ELSE "unschedule"
             /\ \/ Save(d.id, d.sch) /\ UNCHANGED lost
                \/ lost' = [lost EXCEPT ![d.id] = @ + 1] /\ UNCHANGED store
             /\ UNCHANGED <<running, results, timers, admin, boot, execs, ended>>
  <1>1. stack[t] # <<>>
    BY DEF SaveRun, At
  <1>2. PICK d \in Calls : d = Top(t) /\ CallOK(t, d) /\ d.id \in Ids /\ d.at = "save"
    BY <1>1, TopCall DEF SaveRun, At
  <1>3. d.sch \in Config
    BY <1>2, CallFields DEF CallOK
  <1> DEFINE at == IF d.sch.active THEN "end" ELSE "unschedule"
             c0 == [d EXCEPT !.at = at, !.sch = None]
             c1 == [d EXCEPT !.at = at, !.sch = None, !.value = 0]
  <1>4. UNCHANGED <<running, results, timers, admin, boot, execs, ended>>
    BY DEF SaveRun
  <1>5. \/ Save(d.id, d.sch) /\ UNCHANGED lost /\ Becomes(t, c0)
        \/ lost' = [lost EXCEPT ![d.id] = @ + 1] /\ UNCHANGED store /\ Becomes(t, c1)
    BY <1>2 DEF SaveRun
  <1>6. at \in CallAt
    BY DEF CallAt, Leading
  <1> HIDE DEF at
  <1>7. c0 \in Calls /\ Same(c0, d) /\ c0.value = d.value /\ c0.at = at
    BY <1>6 DEF Calls, Same
  <1>8. c1 \in Calls /\ Same(c1, d) /\ c1.value = 0 /\ c1.at = at
    BY <1>6 DEF Calls, Same
  <1> HIDE DEF c0, c1
  <1> QED  BY <1>1, <1>2, <1>3, <1>4, <1>5, <1>7, <1>8 DEF at

\* A schedule that became inactive loses its timers.
LEMMA UnscheduleRunEffect ==
    ASSUME IndInv, NEW t \in Tasks, UnscheduleRun(t)
    PROVE  \E c, d \in Calls :
             /\ d = Top(t) /\ d.at = "unschedule" /\ stack[t] # <<>> /\ CallOK(t, d) /\ d.id \in Ids
             /\ Becomes(t, c) /\ Same(c, d) /\ c.value = d.value /\ c.at = "end"
             /\ Unschedule(d.id)
             /\ UNCHANGED <<store, running, results, admin, boot, execs, ended, lost>>
  <1>1. stack[t] # <<>>
    BY DEF UnscheduleRun, At
  <1>2. PICK d \in Calls : d = Top(t) /\ CallOK(t, d) /\ d.id \in Ids /\ d.at = "unschedule"
    BY <1>1, TopCall DEF UnscheduleRun, At
  <1> DEFINE c == [d EXCEPT !.at = "end"]
  <1>3. /\ Becomes(t, c) /\ Unschedule(d.id)
        /\ UNCHANGED <<store, running, results, admin, boot, execs, ended, lost>>
    BY <1>2 DEF UnscheduleRun, Goto
  <1>4. "end" \in CallAt
    BY DEF CallAt, Leading
  <1>5. c \in Calls /\ Same(c, d) /\ c.value = d.value /\ c.at = "end"
    BY <1>4 DEF Calls, Same
  <1> HIDE DEF c
  <1> QED  BY <1>1, <1>2, <1>3, <1>5

(***************************************************************************)
(* The same steps keep the invariant.                                      *)
(***************************************************************************)

\* Load, Mark, Finish, Panic, SaveRun and UnscheduleRun.
LEMMA RunSteps ==
    ASSUME IndInv, NEW t \in Tasks,
           \/ Load(t) \/ Mark(t) \/ (\E b \in TargetOutcomes : Finish(t, b)) \/ Panic(t)
           \/ SaveRun(t) \/ UnscheduleRun(t)
    PROVE  IndInv'
  <1>1. StoresOK /\ TimersOK
    BY DEF IndInv
  <1>2. UNCHANGED timers => TimersOK'
    BY <1>1 DEF TimersOK, LoopsKnown, timers
  <1>3. \A at \in {"load", "mark", "target", "save", "unschedule", "end"} : at \in Leading
    BY DEF Leading
  <1>4. \A id \in Ids : /\ execs[id] >= execs[id] /\ execs[id] \in Nat /\ lost[id] \in Nat
                        /\ ended[id] \in Nat
    BY <1>1 DEF StoresOK
  <1>5. /\ running \in [Ids -> Tasks \cup {None}] /\ results \in [Ids -> Nat]
        /\ execs \in [Ids -> Nat] /\ lost \in [Ids -> Nat]
        /\ store \in [Ids -> Config \cup {None}]
    BY <1>1 DEF StoresOK
  <1>a. CASE Load(t)
    <2>1. PICK c \in Calls, d \in Calls :
             /\ d = Top(t) /\ d.at = "load" /\ stack[t] # <<>> /\ CallOK(t, d) /\ d.id \in Ids
             /\ Becomes(t, c) /\ Same(c, d) /\ c.value = d.value
             /\ IF store[d.id] = None \/ Completed(store[d.id]) THEN c.at = "end"
                ELSE c.at = "mark" /\ c.sch = store[d.id]
             /\ UNCHANGED shared
      BY <1>a, LoadEffect
    <2>2. c.at = "end" \/ (c.at = "mark" /\ c.sch # None)
      BY <2>1
    <2> QED  BY <1>3, <2>1, <2>2, QuietStep DEF Same
  <1>b. CASE Mark(t)
    <2>1. PICK c \in Calls, d \in Calls :
             /\ d = Top(t) /\ d.at = "mark" /\ stack[t] # <<>> /\ CallOK(t, d) /\ d.id \in Ids
             /\ Becomes(t, c) /\ Same(c, d) /\ c.value = execs[d.id] + 1 /\ c.at = "target"
             /\ c.sch \in Config
             /\ Save(d.id, c.sch) \/ UNCHANGED store
             /\ execs' = [execs EXCEPT ![d.id] = @ + 1]
             /\ UNCHANGED <<running, results, timers, admin, boot, ended, lost>>
      BY <1>b, MarkEffect
    <2>2. /\ store' \in [Ids -> Config \cup {None}]
          /\ \A id \in Ids : store[id] # None => store'[id] # None
      BY <1>5, <2>1, SaveStore
    <2>3. execs' \in [Ids -> Nat] /\ \A id \in Ids : execs'[id] >= execs[id]
      BY <1>4, <1>5, <2>1
    <2>4. c.value > ended[c.id]
      BY <1>4, <2>1 DEF Same, IndInv, StacksOK, Flights, EndedBegan
    <2>5. c.sch # None /\ running'[c.id] = t /\ d.at \in Leading
      BY <1>3, <2>1, NoneIsNothing DEF Same, CallOK
    <2> QED  BY <1>2, <1>5, <2>1, <2>2, <2>3, <2>4, <2>5, RunStep DEF Same
  <1>c. ASSUME NEW b \in TargetOutcomes, Finish(t, b) PROVE IndInv'
    <2>1. PICK c \in Calls, d \in Calls :
             /\ d = Top(t) /\ d.at = "target" /\ stack[t] # <<>> /\ CallOK(t, d) /\ d.id \in Ids
             /\ d.sch \in Config
             /\ Becomes(t, c) /\ Same(c, d) /\ c.value \in {d.value, 0} /\ c.at = "save"
             /\ c.sch = AfterRun(d.sch)
             /\ results' = [results EXCEPT ![d.id] = d.value] \/ UNCHANGED results
             /\ UNCHANGED <<store, running, timers, admin, boot, execs, ended, lost>>
      BY <1>c, FinishEffect DEF TargetOutcomes
    <2>2. results' \in [Ids -> Nat]
      BY <1>5, <2>1, CallFields
    <2>3. c.sch # None /\ running'[c.id] = t /\ d.at \in Leading
          /\ (c.value # 0 => c.value > ended[c.id])
      BY <1>3, <2>1, NoneIsNothing, ConfigType DEF Same, CallOK
    <2> QED  BY <1>2, <1>4, <1>5, <2>1, <2>2, <2>3, RunStep DEF Same
  <1>d. CASE Panic(t)
    <2>1. PICK c \in Calls, d \in Calls :
             /\ d = Top(t) /\ d.at = "target" /\ stack[t] # <<>> /\ CallOK(t, d) /\ d.id \in Ids
             /\ Becomes(t, c) /\ Same(c, d) /\ c.value = 0 /\ c.at = "end"
             /\ lost' = [lost EXCEPT ![d.id] = @ + 1]
             /\ UNCHANGED <<store, running, results, timers, admin, boot, execs, ended>>
      BY <1>d, PanicEffect
    <2>2. lost' \in [Ids -> Nat]
      BY <1>4, <1>5, <2>1
    <2>3. running'[c.id] = t /\ d.at \in Leading
      BY <1>3, <2>1 DEF Same, CallOK
    <2> QED  BY <1>2, <1>4, <1>5, <2>1, <2>2, <2>3, RunStep DEF Same
  <1>e. CASE SaveRun(t)
    <2>1. PICK c \in Calls, d \in Calls :
             /\ d = Top(t) /\ d.at = "save" /\ stack[t] # <<>> /\ CallOK(t, d) /\ d.id \in Ids
             /\ d.sch \in Config
             /\ Becomes(t, c) /\ Same(c, d) /\ c.value \in {d.value, 0}
             /\ c.at = IF d.sch.active THEN "end" ELSE "unschedule"
             /\ \/ Save(d.id, d.sch) /\ UNCHANGED lost
                \/ lost' = [lost EXCEPT ![d.id] = @ + 1] /\ UNCHANGED store
             /\ UNCHANGED <<running, results, timers, admin, boot, execs, ended>>
      BY <1>e, SaveRunEffect
    <2>2. lost' \in [Ids -> Nat]
      BY <1>4, <1>5, <2>1
    <2>3. /\ store' \in [Ids -> Config \cup {None}]
          /\ \A id \in Ids : store[id] # None => store'[id] # None
      BY <1>5, <2>1, SaveStore
    <2>4. running'[c.id] = t /\ d.at \in Leading /\ (c.value # 0 => c.value > ended[c.id])
      BY <1>3, <2>1 DEF Same, CallOK
    <2>5. c.at \in {"end", "unschedule"}
      BY <2>1
    <2> QED  BY <1>2, <1>4, <1>5, <2>1, <2>2, <2>3, <2>4, <2>5, RunStep DEF Same
  <1>f. CASE UnscheduleRun(t)
    <2>1. PICK c \in Calls, d \in Calls :
             /\ d = Top(t) /\ d.at = "unschedule" /\ stack[t] # <<>> /\ CallOK(t, d) /\ d.id \in Ids
             /\ Becomes(t, c) /\ Same(c, d) /\ c.value = d.value /\ c.at = "end"
             /\ Unschedule(d.id)
             /\ UNCHANGED <<store, running, results, admin, boot, execs, ended, lost>>
      BY <1>f, UnscheduleRunEffect
    <2>2. TimersOK'
      BY <1>1, <2>1, UnscheduleTimers
    <2>3. running'[c.id] = t /\ d.at \in Leading /\ (c.value # 0 => c.value > ended[c.id])
      BY <1>3, <2>1 DEF Same, CallOK
    <2> QED  BY <1>4, <1>5, <2>1, <2>2, <2>3, RunStep DEF Same
  <1> QED  BY <1>a, <1>b, <1>c, <1>d, <1>e, <1>f

\* The flight ends.
LEMMA EndRunStep ==
    ASSUME IndInv, NEW t \in Tasks, EndRun(t)
    PROVE  IndInv'
  <1>1. StoresOK /\ TimersOK /\ AdminsOK /\ StacksOK
    BY DEF IndInv
  <1>2. StacksOK' /\ running' \in [Ids -> Tasks \cup {None}] /\ ended' \in [Ids -> Nat]
    BY <1>1, FlightsEnd
  <1>3. UNCHANGED <<store, results, timers, admin, boot, execs, lost>>
    BY DEF EndRun
  <1>4. StoresOK'
    BY <1>1, <1>2, <1>3 DEF StoresOK
  <1>5. TimersOK'
    BY <1>1, <1>3 DEF TimersOK, LoopsKnown, timers
  <1>6. AdminsOK'
    BY <1>1, <1>3 DEF AdminsOK, RequestsKnown
  <1> QED  BY <1>2, <1>4, <1>5, <1>6 DEF IndInv

\* Empty stacks are in order.
LEMMA NoCalls ==
    ASSUME NEW s, s = [t \in Tasks |-> <<>>]
    PROVE  s \in [Tasks -> Seq(Calls)] /\ \A t \in Tasks : 1 .. Len(s[t]) = {}
  <1>1. <<>> \in Seq(Calls) /\ Len(<<>>) = 0 /\ 1 .. 0 = {}
    BY EmptySeq
  <1> QED  BY <1>1

\* A restart leaves the store and forgets the rest.
LEMMA RestartStep ==
    ASSUME IndInv, Restart
    PROVE  IndInv'
  <1>1. StoresOK
    BY DEF IndInv
  <1>2. StoresOK'
    <2>1. lost' \in [Ids -> Nat]
      BY <1>1 DEF StoresOK, Restart
    <2>2. running' \in [Ids -> Tasks \cup {None}] /\ results' \in [Ids -> Nat]
      BY DEF Restart
    <2>3. boot' \subseteq Ids
      BY DEF Restart, ToStart
    <2> QED  BY <1>1, <2>1, <2>2, <2>3 DEF StoresOK, Restart
  <1>3. TimersOK'
    <2>1. loop' \in [Loops -> LoopType] /\ \A l \in Loops : loop'[l].at = "free"
      BY SmallTypes DEF Restart
    <2> QED  BY <2>1 DEF TimersOK, LoopsKnown, Restart
  <1>4. AdminsOK'
    <2>1. admin' \in [Admins -> AdminType] /\ \A a \in Admins : admin'[a].at = "idle"
      BY SmallTypes DEF Restart
    <2>2. \A id \in boot' : store'[id] # None
      BY DEF Restart, ToStart
    <2> QED  BY <2>1, <2>2 DEF AdminsOK, RequestsKnown
  <1>5. StacksOK'
    <2>1. stack' \in [Tasks -> Seq(Calls)] /\ \A t \in Tasks : Depth(t)' = {}
      BY NoCalls DEF Restart, Depth
    <2>2. EndedBegan'
      BY <1>1 DEF Restart, EndedBegan, StoresOK
    <2> QED  BY <2>1, <2>2 DEF StacksOK, Flights, CallsOK, LeadsOnce
  <1> QED  BY <1>2, <1>3, <1>4, <1>5 DEF IndInv

-----------------------------------------------------------------------------
(***************************************************************************)
(* The theorems on flights.                                                *)
(***************************************************************************)

\* The first state satisfies the invariant.
LEMMA InvInit == Init => IndInv
  <1> SUFFICES ASSUME Init PROVE IndInv  OBVIOUS
  <1>1. StoresOK
    BY SchedulerAssumption DEF Init, StoresOK, ToStart
  <1>2. TimersOK
    <2>1. loop \in [Loops -> LoopType] /\ \A l \in Loops : loop[l].at = "free"
      BY SmallTypes DEF Init
    <2> QED  BY <2>1 DEF TimersOK, LoopsKnown, Init
  <1>3. AdminsOK
    <2>1. admin \in [Admins -> AdminType] /\ \A a \in Admins : admin[a].at = "idle"
      BY SmallTypes DEF Init
    <2> QED  BY <2>1 DEF AdminsOK, RequestsKnown, Init, ToStart
  <1>4. StacksOK
    <2>1. stack \in [Tasks -> Seq(Calls)] /\ \A t \in Tasks : Depth(t) = {}
      BY NoCalls DEF Init, Depth
    <2>2. EndedBegan
      BY DEF Init, EndedBegan
    <2> QED  BY <2>1, <2>2 DEF StacksOK, Flights, CallsOK, LeadsOnce
  <1> QED  BY <1>1, <1>2, <1>3, <1>4 DEF IndInv

\* Every step keeps the invariant.
LEMMA InvStep == IndInv /\ [Next]_vars => IndInv'
  <1> SUFFICES ASSUME IndInv, [Next]_vars PROVE IndInv'  OBVIOUS
  <1>1. CASE UNCHANGED vars
    <2>1. StoresOK' /\ AdminsOK'
      BY <1>1 DEF vars, IndInv, StoresOK, AdminsOK, RequestsKnown
    <2>2. TimersOK'
      BY <1>1 DEF vars, timers, IndInv, TimersOK, LoopsKnown
    <2>3. StacksOK'
      BY <1>1, FlightsStay DEF vars, IndInv
    <2> QED  BY <2>1, <2>2, <2>3 DEF IndInv
  <1>2. ASSUME NEW id \in Ids, Start(id) \/ Clear(id) PROVE IndInv'
    BY <1>2, StartStep, ClearStep
  <1>3. ASSUME NEW l \in Loops, Tick(l) PROVE IndInv'
    BY <1>3, TickSteps
  <1>4. ASSUME NEW a \in Admins,
               \/ Administer(a)
               \/ \E id \in Ids : \/ DeleteSchedule(a, id)
                                  \/ \E body \in Bodies : SaveSchedule(a, id, body)
        PROVE  IndInv'
    BY <1>4, AdminSteps
  <1>5. ASSUME NEW t \in Tasks, Step(t) \/ Cancel(t) \/ Panic(t) PROVE IndInv'
    BY <1>5, BeforeRunSteps, BeginRunStep, RunSteps, EndRunStep DEF Step
  <1>6. ASSUME NEW t \in Tasks, NEW id \in Ids, Ask(t, id) PROVE IndInv'
    BY <1>6, AskSteps
  <1> QED  BY <1>1, <1>2, <1>3, <1>4, <1>5, <1>6, RestartStep DEF Next

\* The invariant is stronger than what the runs check of the types and the flights.
LEMMA InvImplies == IndInv => TypeOK /\ SingleFlight /\ AnswersAreFresh
  <1> SUFFICES ASSUME IndInv PROVE TypeOK /\ SingleFlight /\ AnswersAreFresh  OBVIOUS
  <1>1. TypeOK
    BY DEF IndInv, TypeOK, StoresOK, TimersOK, AdminsOK, StacksOK, LoopType, AdminType
  <1>2. SingleFlight
    <2> SUFFICES ASSUME NEW t \in Tasks, NEW u \in Tasks, NEW i \in Depth(t), NEW j \in Depth(u),
                        stack[t][i].id = stack[u][j].id,
                        stack[t][i].at \in Leading, stack[u][j].at \in Leading
                 PROVE  t = u /\ i = j
      BY DEF SingleFlight, Depth
    <2>1. t = u
      BY DEF IndInv, StacksOK, Flights, CallsOK, CallOK
    <2> QED  BY <2>1 DEF IndInv, StacksOK, Flights, LeadsOnce
  <1>3. AnswersAreFresh
    BY DEF AnswersAreFresh, IndInv, StacksOK, Flights, CallsOK, CallOK, Depth
  <1> QED  BY <1>1, <1>2, <1>3

\* The scheduler stays within its types.
THEOREM SchedulerTypeCorrect == Spec => []TypeOK
  BY InvInit, InvStep, InvImplies, PTL DEF Spec

\* beginRun and endRun: whoever starts them, and whatever administrators, failures and
\* restarts do meanwhile, two runs of one schedule never overlap.
THEOREM FlightsAreSingle == Spec => []SingleFlight
  BY InvInit, InvStep, InvImplies, PTL DEF Spec

\* A follower never gets the value of a run that was over when it called.
THEOREM FollowersGetFreshAnswers == Spec => []AnswersAreFresh
  BY InvInit, InvStep, InvImplies, PTL DEF Spec

-----------------------------------------------------------------------------
(***************************************************************************)
(* While nobody edits the schedules: max_runs is respected up to the runs  *)
(* whose count was lost, and the store tells the truth about timers and    *)
(* runs.  This rests on the single flight of a schedule: only the leader   *)
(* changes what is stored of a run.                                        *)
(***************************************************************************)

\* No stored schedule was left marked as running.
CleanStore == \A id \in Ids : Stored[id] # None => ~Stored[id].running

(***************************************************************************)
(* The calls that matter for what is stored, and how the copy they have in *)
(* hand relates to it: until the run is saved nothing but the marks differ *)
(* from the store, then the copy is one run ahead.                         *)
(***************************************************************************)
Saving == {"mark", "target", "save", "unschedule"}

CopyOK(f) ==
    /\ f.at \in {"mark", "target"} =>
         /\ store[f.id] # None /\ f.sch.count = store[f.id].count
         /\ f.sch.max = store[f.id].max /\ f.sch.active = store[f.id].active
    /\ f.at = "mark" => ~Completed(f.sch)
    /\ f.at = "save" =>
         /\ store[f.id] # None /\ f.sch.count = store[f.id].count + 1
         /\ f.sch.max = store[f.id].max /\ ~f.sch.running
         /\ f.sch.active => store[f.id].active
    /\ f.at = "unschedule" =>
         store[f.id] # None /\ (~store[f.id].active \/ lost[f.id] > 0)

Copies == \A t \in Tasks : \A i \in Depth(t) : CopyOK(stack[t][i])

\* The stored count is behind the executions by what was lost and the run in progress.
CountIsClose ==
    \A id \in Ids : store[id] # None =>
        execs[id] <= store[id].count + lost[id] + (IF Unsaved(id) THEN 1 ELSE 0)

\* The mark of a run is in the store while the run is in progress, or its end was lost.
MarkIsTrue ==
    \A id \in Ids : store[id] # None /\ store[id].running => Unsaved(id) \/ lost[id] > 0

Counts == Copies /\ CountIsClose /\ MaxRunsRespected /\ (CleanStore => MarkIsTrue)

\* Every schedule that should have a timer has it, or Start is still to set it.
Needs(id) == store[id] # None /\ store[id].active /\ ~Completed(store[id])
TimersSet == \A id \in Ids : Needs(id) => id \in boot \/ lost[id] > 0 \/ Scheduled(id)

\* No two schedules share a loop or an entry, and a registered loop is its schedule's.
Owned ==
    /\ \A id, jd \in Ids : \A l \in Loops :
          l \in {cronJobs[id], intervals[id]} /\ l \in {cronJobs[jd], intervals[jd]} => id = jd
    /\ \A id \in Ids : intervals[id] # None /\ loop[intervals[id]].at # "free"
                          => loop[intervals[id]].id = id

Clock == TimersSet /\ Owned
LimInv == Counts /\ Clock

-----------------------------------------------------------------------------
(***************************************************************************)
(* Steps that leave the calls that matter alone.                           *)
(***************************************************************************)
SameCall(f, g) == f.at = g.at /\ f.id = g.id /\ f.sch = g.sch

QuietCalls ==
    \A u \in Tasks :
        /\ \A i \in Depth(u)' : stack'[u][i].at \in Saving
               => i \in Depth(u) /\ SameCall(stack'[u][i], stack[u][i])
        /\ \A i \in Depth(u) : stack[u][i].at \in Saving
               => i \in Depth(u)' /\ SameCall(stack'[u][i], stack[u][i])

\* What is stored stays as it is, apart from the time of the next run.
StoreKept ==
    \A id \in Ids :
        /\ store'[id] = None <=> store[id] = None
        /\ store[id] # None =>
             /\ store'[id].count = store[id].count /\ store'[id].max = store[id].max
             /\ store'[id].active = store[id].active /\ store'[id].running = store[id].running

\* A store that is not touched is kept.
LEMMA StoreUntouched == UNCHANGED store => StoreKept
  BY DEF StoreKept

\* The counts stay right.
LEMMA QuietCounts ==
    ASSUME IndInv, Counts, QuietCalls, StoreKept, UNCHANGED <<execs, lost>>
    PROVE  Counts'
  <1>1. stack \in [Tasks -> Seq(Calls)]
    BY DEF IndInv, StacksOK
  <1>2. \A u \in Tasks : \A i \in Depth(u) : stack[u][i].id \in Ids
    BY <1>1, CallFields, ElementOfSeq DEF Depth
  <1>3. Copies'
    <2> SUFFICES ASSUME NEW u \in Tasks, NEW i \in Depth(u)' PROVE CopyOK(stack[u][i])'
      BY DEF Copies
    <2>1. CASE stack'[u][i].at \notin Saving
      BY <2>1 DEF CopyOK, Saving
    <2>2. CASE stack'[u][i].at \in Saving
      <3>1. i \in Depth(u) /\ SameCall(stack'[u][i], stack[u][i])
        BY <2>2 DEF QuietCalls
      <3>2. CopyOK(stack[u][i]) /\ stack[u][i].id \in Ids
        BY <1>2, <3>1 DEF Counts, Copies
      <3> QED  BY <3>1, <3>2 DEF CopyOK, SameCall, StoreKept
    <2> QED  BY <2>1, <2>2
  <1>4. \A id : Unsaved(id)' <=> Unsaved(id)
    <2>1. ASSUME NEW id, NEW t \in Tasks, NEW i \in Depth(t),
                 stack[t][i].id = id, stack[t][i].at \in {"target", "save"}
          PROVE  /\ i \in Depth(t)' /\ stack'[t][i].id = id
                 /\ stack'[t][i].at \in {"target", "save"}
      BY <2>1 DEF QuietCalls, SameCall, Saving
    <2>2. ASSUME NEW id, NEW t \in Tasks, NEW i \in Depth(t)',
                 stack'[t][i].id = id, stack'[t][i].at \in {"target", "save"}
          PROVE  /\ i \in Depth(t) /\ stack[t][i].id = id
                 /\ stack[t][i].at \in {"target", "save"}
      BY <2>2 DEF QuietCalls, SameCall, Saving
    <2>3. ASSUME NEW id PROVE Unsaved(id) => Unsaved(id)'
      BY <2>1 DEF Unsaved, Depth
    <2>4. ASSUME NEW id PROVE Unsaved(id)' => Unsaved(id)
      BY <2>2 DEF Unsaved, Depth
    <2> QED  BY <2>3, <2>4
  <1>5. CountIsClose'
    BY <1>4 DEF CountIsClose, Counts, StoreKept
  <1>6. MaxRunsRespected'
    BY DEF MaxRunsRespected, Counts, StoreKept
  <1>7. CleanStore => MarkIsTrue'
    BY <1>4 DEF MarkIsTrue, Counts, StoreKept
  <1> QED  BY <1>3, <1>5, <1>6, <1>7 DEF Counts

\* The timers stay right when no more are needed.
LEMMA QuietClock ==
    ASSUME Clock, UNCHANGED <<boot, timers>>,
           \A id \in Ids : lost[id] > 0 => lost'[id] > 0,
           \A id \in Ids : Needs(id)' => Needs(id)
    PROVE  Clock'
  <1>1. \A id \in Ids : Scheduled(id)' <=> Scheduled(id)
    BY DEF Scheduled, timers
  <1>2. TimersSet'
    BY <1>1 DEF Clock, TimersSet
  <1>3. Owned'
    BY DEF Clock, Owned, timers
  <1> QED  BY <1>2, <1>3 DEF Clock

\* No more timers are needed when the store is kept.
LEMMA KeptNeeds ==
    ASSUME StoreKept
    PROVE  \A id \in Ids : Needs(id)' => Needs(id)
  BY DEF StoreKept, Needs, Completed

\* Calls come and go without touching the runs in progress.
LEMMA QuietStack ==
    ASSUME IndInv, NEW t \in Tasks,
           \/ UNCHANGED stack
           \/ \E c \in Calls : Calling(t, c) /\ c.at \notin Saving
           \/ stack[t] # <<>> /\ Returns(t) /\ Top(t).at \notin Saving
           \/ stack[t] # <<>> /\ Top(t).at \notin Saving
                /\ \E c \in Calls : Becomes(t, c) /\ c.at \notin Saving
    PROVE  QuietCalls
  <1>1. stack \in [Tasks -> Seq(Calls)]
    BY DEF IndInv, StacksOK
  <1>2. CASE UNCHANGED stack
    BY <1>2 DEF QuietCalls, SameCall, Depth
  <1>3. ASSUME NEW c \in Calls, Calling(t, c), c.at \notin Saving PROVE QuietCalls
    <2> DEFINE n == Len(stack[t])
    <2>1. /\ Depth(t)' = Depth(t) \cup {n + 1} /\ n + 1 \notin Depth(t)
          /\ stack'[t][n + 1] = c
          /\ \A u \in Tasks \ {t} : Depth(u)' = Depth(u)
          /\ \A u \in Tasks : \A i \in Depth(u) :
               stack'[u][i] \in {stack[u][i], [stack[u][i] EXCEPT !.asked = TRUE]}
      BY <1>1, <1>3, CallingCalls
    <2>2. ASSUME NEW u \in Tasks, NEW i \in Depth(u) PROVE SameCall(stack'[u][i], stack[u][i])
      <3>1. PICK f \in Calls : f = stack[u][i]
        BY <1>1, ElementOfSeq DEF Depth
      <3>2. CASE stack'[u][i] = [f EXCEPT !.asked = TRUE]
        BY <3>1, <3>2 DEF SameCall, Calls
      <3> QED  BY <2>1, <3>1, <3>2 DEF SameCall
    <2>3. \A u \in Tasks : \A i \in Depth(u)' : i \in Depth(u) \/ stack'[u][i] = c
      BY <2>1
    <2>4. \A u \in Tasks : \A i \in Depth(u) : i \in Depth(u)'
      BY <2>1
    <2> QED  BY <1>3, <2>2, <2>3, <2>4 DEF QuietCalls
  <1>4. CASE stack[t] # <<>> /\ Returns(t) /\ Top(t).at \notin Saving
    <2>1. /\ Depth(t)' = Depth(t) \ {Len(stack[t])}
          /\ \A u \in Tasks \ {t} : Depth(u)' = Depth(u)
          /\ \A u \in Tasks : \A i \in Depth(u)' : i \in Depth(u) /\ stack'[u][i] = stack[u][i]
      BY <1>1, <1>4, ReturnsCalls
    <2>2. \A u \in Tasks : \A i \in Depth(u) : i \in Depth(u)' \/ stack[u][i] = Top(t)
      BY <2>1 DEF Top
    <2> QED  BY <1>4, <2>1, <2>2 DEF QuietCalls, SameCall
  <1>5. ASSUME NEW c \in Calls, Becomes(t, c), c.at \notin Saving, stack[t] # <<>>,
               Top(t).at \notin Saving
        PROVE  QuietCalls
    <2>1. /\ \A u \in Tasks : Depth(u)' = Depth(u)
          /\ \A u \in Tasks : \A i \in Depth(u) :
               stack'[u][i] = IF u = t /\ i = Len(stack[t]) THEN c ELSE stack[u][i]
      BY <1>1, <1>5, BecomesCalls
    <2> QED  BY <1>5, <2>1 DEF QuietCalls, SameCall, Top
  <1> QED  BY <1>2, <1>3, <1>4, <1>5

-----------------------------------------------------------------------------
(***************************************************************************)
(* A step of a run.                                                        *)
(***************************************************************************)

\* The leader d of a flight goes on as c: what it stores is its own schedule's.
LEMMA LeaderCounts ==
    ASSUME IndInv, Counts, NEW t \in Tasks, stack[t] # <<>>, NEW c \in Calls, NEW d \in Calls,
           d = Top(t), d.at \in Leading, Becomes(t, c), c.id = d.id,
           \A id \in Ids \ {d.id} : /\ store'[id] = store[id] /\ lost'[id] = lost[id]
                                    /\ execs'[id] = execs[id],
           CopyOK(c)',
           store'[d.id] # None =>
               /\ execs'[d.id] <= store'[d.id].count + lost'[d.id]
                                  + (IF c.at \in {"target", "save"} THEN 1 ELSE 0)
               /\ store'[d.id].max > 0 => execs'[d.id] <= store'[d.id].max + lost'[d.id]
               /\ CleanStore /\ store'[d.id].running => c.at \in {"target", "save"} \/ lost'[d.id] > 0
    PROVE  Counts'
  <1>1. stack \in [Tasks -> Seq(Calls)]
    BY DEF IndInv, StacksOK
  <1>2. /\ \A u \in Tasks : Depth(u)' = Depth(u)
        /\ Len(stack[t]) \in Depth(t)
        /\ \A u \in Tasks : \A i \in Depth(u) :
             stack'[u][i] = IF u = t /\ i = Len(stack[t]) THEN c ELSE stack[u][i]
    BY <1>1, BecomesCalls
  <1>3. ASSUME NEW u \in Tasks, NEW i \in Depth(u), ~(u = t /\ i = Len(stack[t])),
               stack[u][i].at \in Leading
        PROVE  stack[u][i].id \in Ids \ {d.id}
    <2>1. stack[u][i].id \in Ids
      BY <1>1, CallFields, ElementOfSeq DEF Depth
    <2>2. SingleFlight
      BY InvImplies
    <2> QED  BY <1>2, <1>3, <2>1, <2>2 DEF SingleFlight, Top, Depth
  <1>4. Copies'
    <2> SUFFICES ASSUME NEW u \in Tasks, NEW i \in Depth(u)' PROVE CopyOK(stack[u][i])'
      BY DEF Copies
    <2>1. CASE u = t /\ i = Len(stack[t])
      <3>1. stack'[u][i] = c
        BY <1>2, <2>1
      <3> QED  BY <3>1 DEF CopyOK
    <2>2. CASE ~(u = t /\ i = Len(stack[t]))
      <3>1. i \in Depth(u) /\ stack'[u][i] = stack[u][i] /\ CopyOK(stack[u][i])
        BY <1>2, <2>2 DEF Counts, Copies
      <3>2. CASE stack[u][i].at \in Leading
        BY <1>3, <2>2, <3>1, <3>2 DEF CopyOK
      <3>3. CASE stack[u][i].at \notin Leading
        BY <3>1, <3>3 DEF CopyOK, Leading
      <3> QED  BY <3>2, <3>3
    <2> QED  BY <2>1, <2>2
  <1>5. \A id \in Ids \ {d.id} : Unsaved(id)' <=> Unsaved(id)
    <2> TAKE id \in Ids \ {d.id}
    <2>1. \A u \in Tasks : \A i \in Depth(u) :
             /\ stack[u][i].id = id => stack'[u][i] = stack[u][i]
             /\ stack'[u][i].id = id => stack'[u][i] = stack[u][i]
      BY <1>2 DEF Top
    <2>2. Unsaved(id) => Unsaved(id)'
      BY <1>2, <2>1 DEF Unsaved, Depth
    <2>3. Unsaved(id)' => Unsaved(id)
      BY <1>2, <2>1 DEF Unsaved, Depth
    <2> QED  BY <2>2, <2>3
  <1>6. Unsaved(d.id)' <=> c.at \in {"target", "save"}
    <2>1. c.at \in {"target", "save"} => Unsaved(d.id)'
      BY <1>2 DEF Unsaved, Depth
    <2>2. ASSUME NEW u \in Tasks, NEW i \in Depth(u), stack'[u][i].id = d.id,
                 stack'[u][i].at \in {"target", "save"}
          PROVE  stack'[u][i] = c
      BY <1>2, <1>3, <2>2 DEF Leading
    <2>3. Unsaved(d.id)' => c.at \in {"target", "save"}
      BY <1>2, <2>2 DEF Unsaved, Depth
    <2> QED  BY <2>1, <2>3
  <1>7. CountIsClose'
    <2> SUFFICES ASSUME NEW id \in Ids, store'[id] # None
                 PROVE  execs'[id] <= store'[id].count + lost'[id]
                                      + (IF Unsaved(id)' THEN 1 ELSE 0)
      BY DEF CountIsClose
    <2>1. CASE id = d.id
      BY <1>6, <2>1
    <2>2. CASE id # d.id
      BY <1>5, <2>2 DEF Counts, CountIsClose
    <2> QED  BY <2>1, <2>2
  <1>8. MaxRunsRespected'
    BY DEF Counts, MaxRunsRespected
  <1>9. CleanStore => MarkIsTrue'
    BY <1>5, <1>6 DEF Counts, MarkIsTrue
  <1> QED  BY <1>4, <1>7, <1>8, <1>9 DEF Counts

\* What the invariants say of the leader.
LEMMA LeaderCopy ==
    ASSUME IndInv, Counts, NEW t \in Tasks, stack[t] # <<>>, NEW d \in Calls, d = Top(t),
           d.at \in Leading
    PROVE  /\ CopyOK(d) /\ d.id \in Ids
           /\ Unsaved(d.id) <=> d.at \in {"target", "save"}
           /\ store[d.id] # None => store[d.id] \in Config /\ store[d.id].count \in Nat
                                    /\ store[d.id].max \in Nat
           /\ execs[d.id] \in Nat /\ lost[d.id] \in Nat
  <1>1. stack \in [Tasks -> Seq(Calls)] /\ d.id \in Ids /\ SingleFlight
    BY CallFields, InvImplies DEF IndInv, StacksOK
  <1>2. Len(stack[t]) \in Depth(t) /\ stack[t][Len(stack[t])] = d
    BY TopCall DEF Top
  <1>3. CopyOK(d)
    BY <1>2 DEF Counts, Copies
  <1>4. d.at \in {"target", "save"} => Unsaved(d.id)
    BY <1>2 DEF Unsaved, Depth
  <1>5. Unsaved(d.id) => d.at \in {"target", "save"}
    <2>1. SUFFICES ASSUME NEW u \in Tasks, NEW i \in Depth(u), stack[u][i].id = d.id,
                          stack[u][i].at \in {"target", "save"}
                   PROVE  stack[u][i] = d
      BY DEF Unsaved, Depth
    <2>2. stack[u][i].at \in Leading
      BY <2>1 DEF Leading
    <2> QED  BY <1>1, <1>2, <2>1, <2>2 DEF SingleFlight, Depth
  <1>6. store[d.id] # None => store[d.id] \in Config /\ store[d.id].count \in Nat
                              /\ store[d.id].max \in Nat
    <2>1. store[d.id] \in Config \cup {None}
      BY <1>1 DEF IndInv, StoresOK
    <2> QED  BY <2>1 DEF Config
  <1>7. execs[d.id] \in Nat /\ lost[d.id] \in Nat
    BY <1>1 DEF IndInv, StoresOK
  <1> QED  BY <1>1, <1>3, <1>4, <1>5, <1>6, <1>7

\* Load: nothing is stored; the copy in hand is what is stored.
LEMMA LoadCounts ==
    ASSUME IndInv, Counts, NEW t \in Tasks, Load(t)
    PROVE  Counts' /\ UNCHANGED shared
  <1>1. PICK c \in Calls, d \in Calls :
           /\ d = Top(t) /\ d.at = "load" /\ stack[t] # <<>> /\ d.id \in Ids
           /\ Becomes(t, c) /\ Same(c, d)
           /\ IF store[d.id] = None \/ Completed(store[d.id]) THEN c.at = "end"
              ELSE c.at = "mark" /\ c.sch = store[d.id]
           /\ UNCHANGED shared
    BY LoadEffect
  <1>2. UNCHANGED <<store, lost, execs>> /\ d.at \in Leading /\ c.id = d.id
    BY <1>1 DEF shared, Leading, Same
  <1>3. CopyOK(c)'
    BY <1>1, <1>2 DEF CopyOK, Completed
  <1>4. ~Unsaved(d.id)
    BY <1>1, <1>2, LeaderCopy
  <1>5. store'[d.id] # None =>
          /\ execs'[d.id] <= store'[d.id].count + lost'[d.id]
                             + (IF c.at \in {"target", "save"} THEN 1 ELSE 0)
          /\ store'[d.id].max > 0 => execs'[d.id] <= store'[d.id].max + lost'[d.id]
          /\ CleanStore /\ store'[d.id].running => c.at \in {"target", "save"} \/ lost'[d.id] > 0
    BY <1>1, <1>2, <1>4 DEF Counts, CountIsClose, MaxRunsRespected, MarkIsTrue
  <1> QED  BY <1>1, <1>2, <1>3, <1>5, LeaderCounts

\* The run that begins was not the last.
LEMMA MarkCounts ==
    ASSUME IndInv, Counts, NEW t \in Tasks, Mark(t)
    PROVE  /\ Counts' /\ UNCHANGED <<timers, boot, lost>>
           /\ \A id \in Ids : /\ store'[id] = None <=> store[id] = None
                              /\ store[id] # None =>
                                   /\ store'[id].count = store[id].count
                                   /\ store'[id].max = store[id].max
                                   /\ store'[id].active = store[id].active
  <1>1. PICK c \in Calls, d \in Calls :
           /\ d = Top(t) /\ d.at = "mark" /\ stack[t] # <<>> /\ CallOK(t, d) /\ d.id \in Ids
           /\ d.sch \in Config
           /\ Becomes(t, c) /\ Same(c, d) /\ c.value = execs[d.id] + 1 /\ c.at = "target"
           /\ c.sch \in Config /\ c.sch.count = d.sch.count /\ c.sch.max = d.sch.max
           /\ c.sch.active = d.sch.active
           /\ Save(d.id, c.sch) \/ UNCHANGED store
           /\ execs' = [execs EXCEPT ![d.id] = @ + 1]
           /\ UNCHANGED <<running, results, timers, admin, boot, ended, lost>>
    BY MarkEffect
  <1>2. d.at \in Leading /\ c.id = d.id
    BY <1>1 DEF Leading, Same
  <1>3. /\ CopyOK(d) /\ ~Unsaved(d.id) /\ store[d.id] # None /\ store[d.id].count \in Nat
        /\ store[d.id].max \in Nat /\ execs[d.id] \in Nat /\ lost[d.id] \in Nat
    BY <1>1, <1>2, LeaderCopy DEF CopyOK
  <1>4. /\ d.sch.count = store[d.id].count /\ d.sch.max = store[d.id].max
        /\ d.sch.active = store[d.id].active /\ ~Completed(d.sch)
    BY <1>1, <1>3 DEF CopyOK
  <1>5. store[d.id].max > 0 => store[d.id].count < store[d.id].max
    BY <1>1, <1>3, <1>4, NoneIsNothing DEF Completed
  <1>6. store \in [Ids -> Config \cup {None}] /\ execs \in [Ids -> Nat]
    BY DEF IndInv, StoresOK
  <1>7. /\ \A id \in Ids \ {d.id} : store'[id] = store[id]
        /\ store'[d.id] = c.sch \/ store'[d.id] = store[d.id]
    BY <1>1, <1>6 DEF Save
  <1>8. /\ store'[d.id] # None /\ store'[d.id].count = store[d.id].count
        /\ store'[d.id].max = store[d.id].max /\ store'[d.id].active = store[d.id].active
    BY <1>1, <1>3, <1>4, <1>7, NoneIsNothing
  <1>9. CopyOK(c)'
    BY <1>1, <1>2, <1>4, <1>8 DEF CopyOK
  <1>10. /\ execs'[d.id] = execs[d.id] + 1 /\ \A id \in Ids \ {d.id} : execs'[id] = execs[id]
    BY <1>1, <1>6
  <1>11. execs[d.id] <= store[d.id].count + lost[d.id]
    BY <1>1, <1>3 DEF Counts, CountIsClose
  <1>12. /\ execs'[d.id] <= store'[d.id].count + lost'[d.id] + 1
         /\ store'[d.id].max > 0 => execs'[d.id] <= store'[d.id].max + lost'[d.id]
    BY <1>1, <1>3, <1>5, <1>8, <1>10, <1>11
  <1>13. Counts'
    BY <1>1, <1>2, <1>7, <1>9, <1>10, <1>12, LeaderCounts
  <1> QED  BY <1>1, <1>3, <1>7, <1>8, <1>13

\* The target is done: the copy in hand is one run ahead of the store.
LEMMA FinishCounts ==
    ASSUME IndInv, Counts, NEW t \in Tasks, NEW b \in TargetOutcomes, Finish(t, b)
    PROVE  Counts' /\ UNCHANGED <<store, timers, boot, lost>>
  <1>1. PICK c \in Calls, d \in Calls :
           /\ d = Top(t) /\ d.at = "target" /\ stack[t] # <<>> /\ CallOK(t, d) /\ d.id \in Ids
           /\ d.sch \in Config
           /\ Becomes(t, c) /\ Same(c, d) /\ c.value \in {d.value, 0} /\ c.at = "save"
           /\ c.sch = AfterRun(d.sch)
           /\ UNCHANGED <<store, running, timers, admin, boot, execs, ended, lost>>
    BY FinishEffect DEF TargetOutcomes
  <1>2. d.at \in Leading /\ c.id = d.id
    BY <1>1 DEF Leading, Same
  <1>3. CopyOK(d) /\ Unsaved(d.id)
    BY <1>1, <1>2, LeaderCopy
  <1>4. /\ c.sch.count = d.sch.count + 1 /\ c.sch.max = d.sch.max
        /\ ~c.sch.running /\ (c.sch.active => d.sch.active)
    BY <1>1, ConfigType
  <1>5. CopyOK(c)'
    BY <1>1, <1>2, <1>3, <1>4 DEF CopyOK
  <1>6. store'[d.id] # None =>
          /\ execs'[d.id] <= store'[d.id].count + lost'[d.id] + 1
          /\ store'[d.id].max > 0 => execs'[d.id] <= store'[d.id].max + lost'[d.id]
    BY <1>1, <1>3 DEF Counts, CountIsClose, MaxRunsRespected
  <1> QED  BY <1>1, <1>2, <1>5, <1>6, LeaderCounts

\* A panic: the run counts as lost.
LEMMA PanicCounts ==
    ASSUME IndInv, Counts, NEW t \in Tasks, Panic(t)
    PROVE  /\ Counts' /\ UNCHANGED <<store, timers, boot>>
           /\ \A id \in Ids : lost[id] > 0 => lost'[id] > 0
  <1>1. PICK c \in Calls, d \in Calls :
           /\ d = Top(t) /\ d.at = "target" /\ stack[t] # <<>> /\ CallOK(t, d) /\ d.id \in Ids
           /\ Becomes(t, c) /\ Same(c, d) /\ c.value = 0 /\ c.at = "end"
           /\ lost' = [lost EXCEPT ![d.id] = @ + 1]
           /\ UNCHANGED <<store, running, results, timers, admin, boot, execs, ended>>
    BY PanicEffect
  <1>2. d.at \in Leading /\ c.id = d.id
    BY <1>1 DEF Leading, Same
  <1>3. /\ CopyOK(d) /\ Unsaved(d.id) /\ execs[d.id] \in Nat /\ lost[d.id] \in Nat
        /\ store[d.id] # None => store[d.id].count \in Nat /\ store[d.id].max \in Nat
    BY <1>1, <1>2, LeaderCopy
  <1>4. CopyOK(c)'
    BY <1>1 DEF CopyOK
  <1>5. lost'[d.id] = lost[d.id] + 1 /\ \A id \in Ids \ {d.id} : lost'[id] = lost[id]
    BY <1>1 DEF IndInv, StoresOK
  <1>6. store'[d.id] # None =>
          /\ execs'[d.id] <= store'[d.id].count + lost'[d.id]
                             + (IF c.at \in {"target", "save"} THEN 1 ELSE 0)
          /\ store'[d.id].max > 0 => execs'[d.id] <= store'[d.id].max + lost'[d.id]
    <2>1. store[d.id] # None =>
            /\ execs[d.id] <= store[d.id].count + lost[d.id] + 1
            /\ store[d.id].max > 0 => execs[d.id] <= store[d.id].max + lost[d.id]
      BY <1>1, <1>3 DEF Counts, CountIsClose, MaxRunsRespected
    <2> QED  BY <1>1, <1>3, <1>5, <2>1
  <1>7. lost'[d.id] > 0
    BY <1>3, <1>5
  <1>8. Counts'
    BY <1>1, <1>2, <1>4, <1>5, <1>6, <1>7, LeaderCounts
  <1> QED  BY <1>1, <1>5, <1>7, <1>8

\* The count is saved, or lost.
LEMMA SaveRunCounts ==
    ASSUME IndInv, Counts, NEW t \in Tasks, SaveRun(t)
    PROVE  /\ Counts' /\ UNCHANGED <<timers, boot>>
           /\ \A id \in Ids : lost[id] > 0 => lost'[id] > 0
           /\ \A id \in Ids :
                \/ store'[id] = store[id]
                \/ /\ store'[id] \in Config /\ store[id] \in Config
                   /\ store'[id].count = store[id].count + 1 /\ store'[id].max = store[id].max
                   /\ store'[id].active => store[id].active
  <1>1. PICK c \in Calls, d \in Calls :
           /\ d = Top(t) /\ d.at = "save" /\ stack[t] # <<>> /\ CallOK(t, d) /\ d.id \in Ids
           /\ d.sch \in Config
           /\ Becomes(t, c) /\ Same(c, d) /\ c.value \in {d.value, 0}
           /\ c.at = IF d.sch.active THEN "end" ELSE "unschedule"
           /\ \/ Save(d.id, d.sch) /\ UNCHANGED lost
              \/ lost' = [lost EXCEPT ![d.id] = @ + 1] /\ UNCHANGED store
           /\ UNCHANGED <<running, results, timers, admin, boot, execs, ended>>
    BY SaveRunEffect
  <1>2. d.at \in Leading /\ c.id = d.id
    BY <1>1 DEF Leading, Same
  <1>3. /\ CopyOK(d) /\ Unsaved(d.id) /\ execs[d.id] \in Nat /\ lost[d.id] \in Nat
        /\ store[d.id] \in Config /\ store[d.id].count \in Nat /\ store[d.id].max \in Nat
        /\ store[d.id] # None
    BY <1>1, <1>2, LeaderCopy DEF CopyOK
  <1>4. /\ d.sch.count = store[d.id].count + 1 /\ d.sch.max = store[d.id].max
        /\ ~d.sch.running /\ (d.sch.active => store[d.id].active)
    BY <1>1, <1>3 DEF CopyOK
  <1>5. /\ execs[d.id] <= store[d.id].count + lost[d.id] + 1
        /\ store[d.id].max > 0 => execs[d.id] <= store[d.id].max + lost[d.id]
    BY <1>1, <1>3 DEF Counts, CountIsClose, MaxRunsRespected
  <1>6. store \in [Ids -> Config \cup {None}] /\ lost \in [Ids -> Nat]
    BY DEF IndInv, StoresOK
  <1>7. c.at \in {"end", "unschedule"} /\ (c.at = "unschedule" => ~d.sch.active)
    BY <1>1
  <1>8. CASE Save(d.id, d.sch) /\ UNCHANGED lost
    <2>1. store'[d.id] = d.sch /\ \A id \in Ids \ {d.id} : store'[id] = store[id]
      BY <1>1, <1>6, <1>8 DEF Save
    <2>2. CopyOK(c)'
      BY <1>1, <1>2, <1>7, <2>1, NoneIsNothing DEF CopyOK
    <2>3. /\ execs'[d.id] <= store'[d.id].count + lost'[d.id]
                             + (IF c.at \in {"target", "save"} THEN 1 ELSE 0)
          /\ store'[d.id].max > 0 => execs'[d.id] <= store'[d.id].max + lost'[d.id]
          /\ ~store'[d.id].running
      BY <1>1, <1>3, <1>4, <1>5, <1>7, <1>8, <2>1
    <2>4. Counts'
      BY <1>1, <1>2, <1>7, <1>8, <2>1, <2>2, <2>3, LeaderCounts
    <2> QED  BY <1>1, <1>3, <1>4, <1>8, <2>1, <2>4
  <1>9. CASE lost' = [lost EXCEPT ![d.id] = @ + 1] /\ UNCHANGED store
    <2>1. lost'[d.id] = lost[d.id] + 1 /\ \A id \in Ids \ {d.id} : lost'[id] = lost[id]
      BY <1>1, <1>6, <1>9
    <2>2. CopyOK(c)'
      BY <1>1, <1>2, <1>3, <1>7, <1>9, <2>1 DEF CopyOK
    <2>3. /\ execs'[d.id] <= store'[d.id].count + lost'[d.id]
                             + (IF c.at \in {"target", "save"} THEN 1 ELSE 0)
          /\ store'[d.id].max > 0 => execs'[d.id] <= store'[d.id].max + lost'[d.id]
          /\ lost'[d.id] > 0
      BY <1>1, <1>3, <1>5, <1>7, <1>9, <2>1
    <2>4. Counts'
      BY <1>1, <1>2, <1>7, <1>9, <2>1, <2>2, <2>3, LeaderCounts
    <2> QED  BY <1>1, <1>9, <2>1, <2>3, <2>4
  <1> QED  BY <1>1, <1>8, <1>9

\* UnscheduleRun: the schedule is stored as inactive, or that could not be saved.
LEMMA UnscheduleRunCounts ==
    ASSUME IndInv, Counts, NEW t \in Tasks, UnscheduleRun(t)
    PROVE  /\ Counts' /\ UNCHANGED <<store, boot, lost>>
           /\ \E id \in Ids : /\ Unschedule(id) /\ store[id] # None
                              /\ ~store[id].active \/ lost[id] > 0
  <1>1. PICK c \in Calls, d \in Calls :
           /\ d = Top(t) /\ d.at = "unschedule" /\ stack[t] # <<>> /\ d.id \in Ids
           /\ Becomes(t, c) /\ Same(c, d) /\ c.at = "end"
           /\ Unschedule(d.id)
           /\ UNCHANGED <<store, running, results, admin, boot, execs, ended, lost>>
    BY UnscheduleRunEffect
  <1>2. d.at \in Leading /\ c.id = d.id
    BY <1>1 DEF Leading, Same
  <1>3. CopyOK(d) /\ ~Unsaved(d.id)
    BY <1>1, <1>2, LeaderCopy
  <1>4. CopyOK(c)'
    BY <1>1 DEF CopyOK
  <1>5. store'[d.id] # None =>
          /\ execs'[d.id] <= store'[d.id].count + lost'[d.id]
                             + (IF c.at \in {"target", "save"} THEN 1 ELSE 0)
          /\ store'[d.id].max > 0 => execs'[d.id] <= store'[d.id].max + lost'[d.id]
          /\ CleanStore /\ store'[d.id].running => c.at \in {"target", "save"} \/ lost'[d.id] > 0
    BY <1>1, <1>3 DEF Counts, CountIsClose, MaxRunsRespected, MarkIsTrue
  <1>6. Counts'
    BY <1>1, <1>2, <1>4, <1>5, LeaderCounts
  <1> QED  BY <1>1, <1>3, <1>6 DEF CopyOK

-----------------------------------------------------------------------------
(***************************************************************************)
(* Timers.                                                                 *)
(***************************************************************************)

\* A loop that nobody refers to is given to a schedule.
LEMMA RegisterClock ==
    ASSUME IndInv, Clock, NEW id \in Ids, NEW l \in Unused, id \in boot, boot' = boot \ {id},
           StoreKept, UNCHANGED lost,
           \/ /\ intervals' = [intervals EXCEPT ![id] = l]
              /\ loop' = [loop EXCEPT ![l] = Loop(id, "check")] /\ UNCHANGED cronJobs
           \/ /\ cronJobs' = [cronJobs EXCEPT ![id] = l]
              /\ loop' = [loop EXCEPT ![l] = Loop(id, "entry")] /\ UNCHANGED intervals
    PROVE  Clock'
  <1>1. l \in Loops /\ \A j \in Ids : l # cronJobs[j] /\ l # intervals[j]
    BY DEF Unused
  <1>2. /\ cronJobs \in [Ids -> Loops \cup {None}] /\ intervals \in [Ids -> Loops \cup {None}]
        /\ loop \in [Loops -> LoopType]
    BY DEF IndInv, TimersOK
  <1>3. l # None
    BY <1>1, NoneIsNothing DEF Tasks
  <1>4. loop'[l].id = id /\ loop'[l].at # "free" /\ ~loop'[l].cancelled
    BY <1>1, <1>2, SmallTypes
  <1>5. \A k \in Loops \ {l} : loop'[k] = loop[k]
    BY <1>2
  <1>6. \A j \in Ids \ {id} : cronJobs'[j] = cronJobs[j] /\ intervals'[j] = intervals[j]
    BY <1>2
  <1>7. Scheduled(id)'
    BY <1>2, <1>3, <1>4 DEF Scheduled
  <1>8. ASSUME NEW j \in Ids \ {id}, Scheduled(j) PROVE Scheduled(j)'
    <2>1. intervals[j] # None => loop'[intervals[j]] = loop[intervals[j]]
      BY <1>1, <1>2, <1>5
    <2> QED  BY <1>6, <1>8, <2>1 DEF Scheduled
  <1>9. TimersSet'
    BY <1>7, <1>8, KeptNeeds DEF Clock, TimersSet
  <1>10. /\ cronJobs'[id] \in {cronJobs[id], l} /\ intervals'[id] \in {intervals[id], l}
    BY <1>2
  <1>11. ASSUME NEW j \in Ids, NEW k \in Ids, NEW m \in Loops,
                m \in {cronJobs'[j], intervals'[j]}, m \in {cronJobs'[k], intervals'[k]}
         PROVE  j = k
    <2>1. \A h \in Ids, x \in Loops : x \in {cronJobs'[h], intervals'[h]} =>
             x \in {cronJobs[h], intervals[h]} \/ (x = l /\ h = id)
      BY <1>6, <1>10
    <2>2. \A h \in Ids : l \notin {cronJobs[h], intervals[h]}
      BY <1>1
    <2> QED  BY <1>11, <2>1, <2>2 DEF Clock, Owned
  <1>12. ASSUME NEW j \in Ids, intervals'[j] # None, loop'[intervals'[j]].at # "free"
         PROVE  loop'[intervals'[j]].id = j
    <2>1. CASE intervals'[j] = l
      <3>1. j = id
        BY <1>1, <1>6, <2>1
      <3> QED  BY <1>4, <2>1, <3>1
    <2>2. CASE intervals'[j] # l
      <3>1. intervals'[j] = intervals[j] /\ intervals[j] \in Loops
        BY <1>2, <1>6, <1>10, <1>12, <2>2
      <3>2. loop'[intervals[j]] = loop[intervals[j]]
        BY <1>5, <2>2, <3>1
      <3> QED  BY <1>12, <3>1, <3>2 DEF Clock, Owned
    <2> QED  BY <2>1, <2>2
  <1>13. Owned'
    BY <1>11, <1>12 DEF Owned
  <1> QED  BY <1>9, <1>13 DEF Clock

\* Start, for the counts and the timers.
LEMMA StartLimits ==
    ASSUME IndInv, LimInv, NEW id \in Ids, Start(id)
    PROVE  LimInv'
  <1>1. Counts /\ Clock
    BY DEF LimInv
  <1>2. id \in boot /\ store[id] \in Config /\ store \in [Ids -> Config \cup {None}]
    BY DEF IndInv, StoresOK, AdminsOK, RequestsKnown, Start
  <1>3. boot' = boot \ {id} /\ UNCHANGED <<stack, execs, lost>>
    BY DEF Start
  <1>4. ASSUME Save(id, [store[id] EXCEPT !.next = TRUE]) PROVE StoreKept
    <2>1. PICK e \in Config : e = store[id]
      BY <1>2
    <2> DEFINE f == [e EXCEPT !.next = TRUE]
    <2>2. /\ f \in Config /\ f.count = e.count /\ f.max = e.max /\ f.active = e.active
          /\ f.running = e.running
      BY DEF Config
    <2>3. Save(id, f)
      BY <1>4, <2>1
    <2> HIDE DEF f
    <2>4. store'[id] = f /\ \A j \in Ids \ {id} : store'[j] = store[j]
      BY <1>2, <2>3 DEF Save
    <2> QED  BY <2>1, <2>2, <2>4, NoneIsNothing DEF StoreKept
  <1>5. /\ StoreKept
        /\ \/ Completed(store[id]) /\ UNCHANGED <<store, timers>>
           \/ \E l \in Unused :
                \/ /\ intervals' = [intervals EXCEPT ![id] = l]
                   /\ loop' = [loop EXCEPT ![l] = Loop(id, "check")] /\ UNCHANGED cronJobs
                \/ /\ cronJobs' = [cronJobs EXCEPT ![id] = l]
                   /\ loop' = [loop EXCEPT ![l] = Loop(id, "entry")] /\ UNCHANGED intervals
    <2>1. CASE Completed(store[id])
      BY <2>1, StoreUntouched DEF Start
    <2>2. CASE ~Completed(store[id])
      BY <1>4, <2>2, StoreUntouched DEF Start, ScheduleInterval, ScheduleCron
    <2> QED  BY <2>1, <2>2
  <1>6. QuietCalls
    BY <1>3 DEF QuietCalls, SameCall, Depth
  <1>7. Counts'
    BY <1>1, <1>3, <1>5, <1>6, QuietCounts
  <1>8. CASE Completed(store[id]) /\ UNCHANGED <<store, timers>>
    <2>1. \A j \in Ids : Scheduled(j)' <=> Scheduled(j)
      BY <1>8 DEF Scheduled, timers
    <2>2. ~Needs(id)' /\ \A j \in Ids : Needs(j)' <=> Needs(j)
      BY <1>8 DEF Needs, Completed
    <2>3. TimersSet'
      BY <1>1, <1>3, <2>1, <2>2 DEF Clock, TimersSet
    <2>4. Owned'
      BY <1>1, <1>8 DEF Clock, Owned, timers
    <2> QED  BY <1>7, <2>3, <2>4 DEF LimInv, Clock
  <1>9. CASE ~(Completed(store[id]) /\ UNCHANGED <<store, timers>>)
    <2>1. Clock'
      BY <1>1, <1>2, <1>3, <1>5, <1>9, RegisterClock
    <2> QED  BY <1>7, <2>1 DEF LimInv
  <1> QED  BY <1>8, <1>9

\* A loop goes on, or stops when its schedule needs it no more.
LEMMA LoopClock ==
    ASSUME IndInv, Clock, UNCHANGED <<store, boot, lost, cronJobs, intervals>>,
           NEW l \in Loops, NEW y \in LoopType, loop' = [loop EXCEPT ![l] = y],
           y.at # "free" => y.id = loop[l].id /\ loop[l].at # "free",
           \A id \in Ids : /\ Needs(id) /\ intervals[id] = l
                           /\ loop[l].at # "free" /\ ~loop[l].cancelled
                           => y.at # "free" /\ ~y.cancelled
    PROVE  Clock'
  <1>1. intervals \in [Ids -> Loops \cup {None}] /\ loop \in [Loops -> LoopType]
    BY DEF IndInv, TimersOK
  <1>2. loop'[l] = y /\ \A k \in Loops \ {l} : loop'[k] = loop[k]
    BY <1>1
  <1>3. ASSUME NEW id \in Ids, Needs(id), Scheduled(id) PROVE Scheduled(id)'
    <2>1. CASE cronJobs[id] # None
      BY <2>1 DEF Scheduled
    <2>2. CASE cronJobs[id] = None
      <3>1. /\ intervals[id] \in Loops /\ intervals[id] # None
            /\ loop[intervals[id]].at # "free" /\ ~loop[intervals[id]].cancelled
        BY <1>1, <1>3, <2>2 DEF Scheduled
      <3>2. loop'[intervals[id]].at # "free" /\ ~loop'[intervals[id]].cancelled
        BY <1>2, <1>3, <3>1
      <3> QED  BY <3>1, <3>2 DEF Scheduled
    <2> QED  BY <2>1, <2>2
  <1>4. TimersSet'
    BY <1>3 DEF Clock, TimersSet, Needs, Completed
  <1>5. ASSUME NEW id \in Ids, intervals'[id] # None, loop'[intervals'[id]].at # "free"
        PROVE  loop'[intervals'[id]].id = id
    <2>1. intervals'[id] = intervals[id] /\ intervals[id] \in Loops
      BY <1>1, <1>5
    <2> QED  BY <1>2, <1>5, <2>1 DEF Clock, Owned
  <1>6. Owned'
    BY <1>5 DEF Clock, Owned
  <1> QED  BY <1>4, <1>6 DEF Clock

\* The timers go off, check and stop.
LEMMA TickLimits ==
    ASSUME IndInv, LimInv, NEW l \in Loops, Tick(l)
    PROVE  LimInv'
  <1>1. Counts /\ Clock
    BY DEF LimInv
  <1>2. PICK x \in LoopType : x = loop[l] /\ (x.at # "free" => x.id \in Ids)
    BY DEF IndInv, TimersOK, LoopsKnown
  <1>3. l \in Tasks
    BY DEF Tasks
  <1>4. UNCHANGED registry => /\ StoreKept /\ UNCHANGED <<execs, lost>>
                              /\ UNCHANGED <<store, boot, lost, cronJobs, intervals>>
    BY StoreUntouched DEF registry
  <1>a. CASE CheckInterval(l)
    <2>1. PICK y : /\ loop' = [loop EXCEPT ![l] = y] /\ x.at = "check"
                   /\ IF ~Needs(x.id) THEN y = NoLoop ELSE y = [x EXCEPT !.at = "sleep"]
      BY <1>2, <1>a DEF CheckInterval, Needs
    <2>2. UNCHANGED <<registry, stack>>
      BY <1>a DEF CheckInterval
    <2>3. /\ y \in LoopType /\ (y.at # "free" => y.id = x.id)
          /\ Needs(x.id) => y.at # "free" /\ y.cancelled = x.cancelled
      <3>1. CASE y = [x EXCEPT !.at = "sleep"]
        BY <1>2, <2>1, <3>1 DEF LoopType
      <3> QED  BY <2>1, <3>1, SmallTypes
    <2>4. \A id \in Ids : intervals[id] = l => x.id = id
      BY <1>1, <1>2, <2>1, NoneIsNothing, <1>3 DEF Clock, Owned
    <2>5. \A id \in Ids : Needs(id) /\ intervals[id] = l /\ ~loop[l].cancelled
                              => y.at # "free" /\ ~y.cancelled
      BY <1>2, <2>3, <2>4
    <2>6. y.at # "free" => y.id = loop[l].id /\ loop[l].at # "free"
      BY <1>2, <2>1, <2>3
    <2>7. y \in LoopType /\ loop' = [loop EXCEPT ![l] = y]
          /\ UNCHANGED <<store, boot, lost, cronJobs, intervals>>
      BY <1>4, <2>1, <2>2, <2>3
    <2>8. Clock'
      BY <1>1, <2>5, <2>6, <2>7, LoopClock
    <2>9. QuietCalls
      BY <1>3, <2>2, QuietStack
    <2> QED  BY <1>1, <1>4, <2>2, <2>8, <2>9, QuietCounts DEF LimInv
  <1>b. CASE StopInterval(l)
    <2>1. /\ loop' = [loop EXCEPT ![l] = NoLoop] /\ UNCHANGED <<registry, stack>>
          /\ x.cancelled
      BY <1>2, <1>b DEF StopInterval
    <2>2. Clock'
      BY <1>1, <1>2, <1>4, <2>1, SmallTypes, LoopClock
    <2>3. QuietCalls
      BY <1>3, <2>1, QuietStack
    <2> QED  BY <1>1, <1>4, <2>1, <2>2, <2>3, QuietCounts DEF LimInv
  <1>c. CASE FireInterval(l)
    <2> DEFINE y == [x EXCEPT !.at = "check"]
    <2>1. y \in LoopType /\ y.id = x.id /\ y.at = "check" /\ y.cancelled = x.cancelled
      BY <1>2 DEF LoopType
    <2>2. loop' = [loop EXCEPT ![l] = y] /\ UNCHANGED registry /\ x.id \in Ids /\ x.at # "free"
      BY <1>2, <1>c DEF FireInterval
    <2> HIDE DEF y
    <2>3. PICK c \in Calls : c = Call("run", x.id, "begin", FALSE) /\ c.at = "begin"
                             /\ c.value = 0 /\ c.since = ended[c.id]
      <3>1. x.id \in Ids
        BY <2>2
      <3> QED  BY <3>1, CallType
    <2>4. Calling(l, c) /\ c.at \notin Saving
      BY <1>2, <1>c, <2>3 DEF FireInterval, Saving
    <2>5. QuietCalls
      BY <1>3, <2>4, QuietStack
    <2>6. Clock'
      BY <1>1, <1>2, <1>4, <2>1, <2>2, LoopClock
    <2> QED  BY <1>1, <1>4, <2>2, <2>5, <2>6, QuietCounts DEF LimInv
  <1>d. ASSUME NEW t \in Tasks, FireCron(l, t) PROVE LimInv'
    <2>1. x.id \in Ids /\ UNCHANGED <<registry, loop>>
      BY <1>2, <1>d DEF FireCron
    <2>2. PICK c \in Calls : c = Call("run", x.id, "begin", FALSE) /\ c.at = "begin"
                             /\ c.value = 0 /\ c.since = ended[c.id]
      BY <2>1, CallType
    <2>3. Calling(t, c) /\ c.at \notin Saving
      BY <1>2, <1>d, <2>2 DEF FireCron, Saving
    <2>4. QuietCalls
      BY <2>3, QuietStack
    <2>5. Clock'
      BY <1>1, <1>4, <2>1, KeptNeeds, QuietClock DEF timers
    <2> QED  BY <1>1, <1>4, <2>1, <2>4, <2>5, QuietCounts DEF LimInv
  <1> QED  BY <1>a, <1>b, <1>c, <1>d DEF Tick

\* A schedule that needs no timer loses it; those of the others stay.
LEMMA UnscheduleClock ==
    ASSUME IndInv, Clock, NEW id \in Ids, Unschedule(id), UNCHANGED <<store, boot, lost>>,
           ~Needs(id) \/ lost[id] > 0
    PROVE  Clock'
  <1>1. /\ cronJobs \in [Ids -> Loops \cup {None}] /\ intervals \in [Ids -> Loops \cup {None}]
        /\ loop \in [Loops -> LoopType]
    BY DEF IndInv, TimersOK
  <1>2. /\ cronJobs'[id] = None /\ intervals'[id] = None
        /\ \A j \in Ids \ {id} : cronJobs'[j] = cronJobs[j] /\ intervals'[j] = intervals[j]
    BY <1>1 DEF Unschedule
  <1>3. \A l \in Loops : l # cronJobs[id] /\ l # intervals[id] => loop'[l] = loop[l]
    BY DEF Unschedule
  <1>4. ASSUME NEW j \in Ids \ {id}, intervals[j] # None
        PROVE  intervals[j] \in Loops /\ loop'[intervals[j]] = loop[intervals[j]]
    <2>1. intervals[j] \in Loops
      BY <1>1, <1>4
    <2>2. intervals[j] # cronJobs[id] /\ intervals[j] # intervals[id]
      BY <2>1 DEF Clock, Owned
    <2> QED  BY <1>3, <2>1, <2>2
  <1>5. TimersSet'
    <2>1. \A j \in Ids \ {id} : Scheduled(j) => Scheduled(j)'
      BY <1>2, <1>4 DEF Scheduled
    <2>2. \A j \in Ids : Needs(j)' <=> Needs(j)
      BY DEF Needs, Completed
    <2> QED  BY <2>1, <2>2 DEF Clock, TimersSet
  <1>6. \A j, k \in Ids : \A l \in Loops :
           l \in {cronJobs'[j], intervals'[j]} /\ l \in {cronJobs'[k], intervals'[k]} => j = k
    <2>1. None \notin Loops
      BY NoneIsNothing DEF Tasks
    <2>2. \A j \in Ids, l \in Loops : l \in {cronJobs'[j], intervals'[j]}
                                       => l \in {cronJobs[j], intervals[j]}
      BY <1>2, <2>1
    <2> QED  BY <2>2 DEF Clock, Owned
  <1>7. \A j \in Ids : intervals'[j] # None /\ loop'[intervals'[j]].at # "free"
                          => loop'[intervals'[j]].id = j
    BY <1>2, <1>4 DEF Clock, Owned
  <1>8. Owned'
    BY <1>6, <1>7 DEF Owned
  <1> QED  BY <1>5, <1>8 DEF Clock

-----------------------------------------------------------------------------
(***************************************************************************)
(* The other steps of a call.                                              *)
(***************************************************************************)

\* Nothing that is counted or timed changes but the calls.
LEMMA QuietLimits ==
    ASSUME IndInv, LimInv, QuietCalls, UNCHANGED <<store, timers, boot, execs, lost>>
    PROVE  LimInv'
  <1>1. StoreKept /\ Counts /\ Clock
    BY StoreUntouched DEF LimInv
  <1>2. Counts'
    BY <1>1, QuietCounts
  <1>3. Clock'
    BY <1>1, KeptNeeds, QuietClock
  <1> QED  BY <1>2, <1>3 DEF LimInv

\* The steps of a run.
LEMMA RunLimits ==
    ASSUME IndInv, LimInv, NEW t \in Tasks,
           \/ Load(t) \/ Mark(t) \/ (\E b \in TargetOutcomes : Finish(t, b)) \/ Panic(t)
           \/ SaveRun(t) \/ UnscheduleRun(t)
    PROVE  LimInv'
  <1>1. Counts /\ Clock
    BY DEF LimInv
  <1>a. CASE Load(t)
    BY <1>1, <1>a, LoadCounts, StoreUntouched, KeptNeeds, QuietClock DEF shared, LimInv
  <1>b. CASE Mark(t)
    <2>1. /\ Counts' /\ UNCHANGED <<timers, boot, lost>>
          /\ \A id \in Ids : /\ store'[id] = None <=> store[id] = None
                             /\ store[id] # None =>
                                  /\ store'[id].count = store[id].count
                                  /\ store'[id].max = store[id].max
                                  /\ store'[id].active = store[id].active
      BY <1>1, <1>b, MarkCounts
    <2>2. \A j \in Ids : Needs(j)' => Needs(j)
      BY <2>1 DEF Needs, Completed
    <2> QED  BY <1>1, <2>1, <2>2, QuietClock DEF LimInv
  <1>c. ASSUME NEW b \in TargetOutcomes, Finish(t, b) PROVE LimInv'
    BY <1>1, <1>c, FinishCounts, StoreUntouched, KeptNeeds, QuietClock DEF LimInv
  <1>d. CASE Panic(t)
    BY <1>1, <1>d, PanicCounts, StoreUntouched, KeptNeeds, QuietClock DEF LimInv
  <1>e. CASE SaveRun(t)
    <2>1. /\ Counts' /\ UNCHANGED <<timers, boot>>
          /\ \A id \in Ids : lost[id] > 0 => lost'[id] > 0
          /\ \A id \in Ids :
                \/ store'[id] = store[id]
                \/ /\ store'[id] \in Config /\ store[id] \in Config
                   /\ store'[id].count = store[id].count + 1 /\ store'[id].max = store[id].max
                   /\ store'[id].active => store[id].active
      BY <1>1, <1>e, SaveRunCounts
    <2>2. ASSUME NEW id \in Ids, Needs(id)' PROVE Needs(id)
      <3>1. CASE store'[id] = store[id]
        BY <2>2, <3>1 DEF Needs, Completed
      <3>2. CASE store'[id] # store[id]
        <4>1. /\ store[id] \in Config /\ store[id] # None
              /\ store'[id].count = store[id].count + 1 /\ store'[id].max = store[id].max
              /\ store'[id].active => store[id].active
          BY <2>1, <3>2, NoneIsNothing
        <4>2. store[id].count \in Nat /\ store[id].max \in Nat
          BY <4>1 DEF Config
        <4> QED  BY <2>2, <4>1, <4>2 DEF Needs, Completed
      <3> QED  BY <3>1, <3>2
    <2> QED  BY <1>1, <2>1, <2>2, QuietClock DEF LimInv
  <1>f. CASE UnscheduleRun(t)
    <2>1. PICK id \in Ids : /\ Counts' /\ UNCHANGED <<store, boot, lost>>
                            /\ Unschedule(id) /\ (~store[id].active \/ lost[id] > 0)
      BY <1>1, <1>f, UnscheduleRunCounts
    <2>2. ~Needs(id) \/ lost[id] > 0
      BY <2>1 DEF Needs
    <2> QED  BY <1>1, <2>1, <2>2, UnscheduleClock DEF LimInv
  <1> QED  BY <1>a, <1>b, <1>c, <1>d, <1>e, <1>f

\* Refresh, Get, Trigger and what a call does before it runs the schedule or
\* follows its run.
LEMMA CallLimits ==
    ASSUME IndInv, LimInv, NEW t \in Tasks,
           \/ Hit(t) \/ Miss(t) \/ FallBack(t) \/ TriggerRefresh(t) \/ Wake(t) \/ Cancel(t)
           \/ BeginRun(t) \/ \E id \in Ids : Ask(t, id)
    PROVE  LimInv'
  <1>1. UNCHANGED <<store, timers, boot, execs, lost>>
    BY DEF Hit, Miss, FallBack, TriggerRefresh, Wake, Cancel, BeginRun, Ask, Refresh, Get,
           Trigger, shared
  <1>2. \A at \in {"lookup", "stale", "trigger", "begin", "follow", "woken", "load"} : at \notin Saving
    BY DEF Saving
  <1>a. ASSUME NEW id \in Ids, Ask(t, id) PROVE QuietCalls
    <2>1. PICK c \in Calls : Calling(t, c) /\ c.at \in {"lookup", "trigger", "begin"}
      <3>1. CASE Refresh(t, id)
        BY <3>1, CallType, CancellableType DEF Refresh
      <3>2. CASE Get(t, id)
        <4> DEFINE d == Call("get", id, "lookup", Cancellable(t))
                   c == [d EXCEPT !.sch = store[id]]
        <4>1. d \in Calls /\ d.at = "lookup"
          BY CallType, CancellableType
        <4>2. store[id] \in Config \cup {None}
          BY DEF IndInv, StoresOK
        <4>3. Calling(t, c)
          BY <3>2 DEF Get
        <4> HIDE DEF d
        <4>4. c \in Calls /\ c.at = d.at
          BY <4>1, <4>2 DEF Calls
        <4> HIDE DEF c
        <4> QED  BY <4>1, <4>3, <4>4
      <3>3. CASE \E wait \in BOOLEAN : Trigger(t, id, wait)
        BY <3>3, CallType DEF Trigger
      <3> QED  BY <1>a, <3>1, <3>2, <3>3 DEF Ask
    <2> QED  BY <1>2, <2>1, QuietStack
  <1>b. ASSUME ~\E id \in Ids : Ask(t, id) PROVE QuietCalls
    <2>1. stack[t] # <<>>
      BY <1>b DEF Hit, Miss, FallBack, TriggerRefresh, Wake, Cancel, BeginRun, At
    <2>2. PICK d \in Calls : d = Top(t) /\ d.id \in Ids
      BY <2>1, TopCall
    <2>3. d.at \in {"lookup", "stale", "trigger", "begin", "follow", "woken"}
      BY <1>b, <2>2 DEF Hit, Miss, FallBack, TriggerRefresh, Wake, Cancel, BeginRun, At
    <2>4. CASE Returns(t)
      BY <1>2, <2>1, <2>2, <2>3, <2>4, QuietStack
    <2>5. CASE ~Returns(t)
      <3> DEFINE g(at) == [d EXCEPT !.at = at]
                 h == [d EXCEPT !.at = "trigger", !.sch = None]
                 k == [d EXCEPT !.at = "follow", !.lead = running[d.id]]
      <3>1. \/ \E at \in {"stale", "begin", "load"} : Becomes(t, g(at))
            \/ Becomes(t, h) \/ Becomes(t, k)
        BY <1>b, <2>2, <2>5 DEF Hit, Miss, FallBack, TriggerRefresh, Wake, Cancel, BeginRun, Goto
      <3>2. \A at \in {"stale", "begin", "trigger", "follow", "load"} : at \in CallAt
        BY DEF CallAt, Leading
      <3>3. ASSUME NEW at \in {"stale", "begin", "load"} PROVE g(at) \in Calls /\ g(at).at = at
        BY <3>2 DEF Calls
      <3>4. h \in Calls /\ h.at = "trigger"
        BY <3>2 DEF Calls
      <3>5. running[d.id] \in Tasks \cup {None}
        BY <2>2 DEF IndInv, StoresOK
      <3>6. k \in Calls /\ k.at = "follow"
        BY <3>2, <3>5 DEF Calls
      <3> HIDE DEF g, h, k
      <3>7. \E c \in Calls : Becomes(t, c) /\ c.at \notin Saving
        BY <1>2, <3>1, <3>3, <3>4, <3>6
      <3> QED  BY <1>2, <2>1, <2>2, <2>3, <3>7, QuietStack
    <2> QED  BY <2>4, <2>5
  <1> QED  BY <1>1, <1>a, <1>b, QuietLimits

\* The flight ends: only calls that are not part of a run are left or changed.
LEMMA EndRunLimits ==
    ASSUME IndInv, LimInv, NEW t \in Tasks, EndRun(t)
    PROVE  LimInv'
  <1>1. /\ \A u \in Tasks : \A i \in Depth(u)' :
             /\ i \in Depth(u) /\ ~(u = t /\ i = Len(stack[t]))
             /\ stack'[u][i] = stack[u][i] \/ stack'[u][i].at = "woken"
        /\ \A u \in Tasks : \A i \in Depth(u) :
             /\ ~(u = t /\ i = Len(stack[t])) => i \in Depth(u)'
             /\ ~(u = t /\ i = Len(stack[t])) /\ stack[u][i].at # "follow"
                  => stack'[u][i] = stack[u][i]
    BY FlightsEnd DEF IndInv
  <1>2. stack[t][Len(stack[t])].at = "end"
    BY DEF EndRun, At, Top
  <1>3. "end" \notin Saving /\ "woken" \notin Saving /\ "follow" \notin Saving
    BY DEF Saving
  <1>4. QuietCalls
    <2>1. ASSUME NEW u \in Tasks, NEW i \in Depth(u)', stack'[u][i].at \in Saving
          PROVE  i \in Depth(u) /\ SameCall(stack'[u][i], stack[u][i])
      BY <1>1, <1>3, <2>1 DEF SameCall
    <2>2. ASSUME NEW u \in Tasks, NEW i \in Depth(u), stack[u][i].at \in Saving
          PROVE  i \in Depth(u)' /\ SameCall(stack'[u][i], stack[u][i])
      BY <1>1, <1>2, <1>3, <2>2 DEF SameCall
    <2> QED  BY <2>1, <2>2 DEF QuietCalls
  <1>5. UNCHANGED <<store, timers, boot, execs, lost>>
    BY DEF EndRun
  <1> QED  BY <1>4, <1>5, QuietLimits

\* A restart counts the runs in progress as lost and has Start set every timer.
LEMMA RestartLimits ==
    ASSUME IndInv, LimInv, Restart
    PROVE  LimInv'
  <1>1. Counts /\ Clock
    BY DEF LimInv
  <1>2. \A t \in Tasks : Depth(t)' = {}
    BY NoCalls DEF Restart, Depth
  <1>3. \A id : ~Unsaved(id)'
    BY <1>2 DEF Unsaved, Depth
  <1>4. \A id \in Ids : /\ lost'[id] = IF Unsaved(id) THEN lost[id] + 1 ELSE lost[id]
                        /\ lost[id] \in Nat /\ execs[id] \in Nat
    BY DEF Restart, IndInv, StoresOK
  <1>5. \A id \in Ids : store[id] # None => store[id].count \in Nat /\ store[id].max \in Nat
    <2>1. \A id \in Ids : store[id] # None => store[id] \in Config
      BY DEF IndInv, StoresOK
    <2> QED  BY <2>1 DEF Config
  <1>6. UNCHANGED <<store, execs>>
    BY DEF Restart
  <1>7. Copies'
    BY <1>2 DEF Copies
  <1>8. CountIsClose'
    <2> SUFFICES ASSUME NEW id \in Ids, store[id] # None
                 PROVE  execs[id] <= store[id].count + lost'[id] + (IF Unsaved(id)' THEN 1 ELSE 0)
      BY <1>6 DEF CountIsClose
    <2>1. execs[id] <= store[id].count + lost[id] + (IF Unsaved(id) THEN 1 ELSE 0)
      BY <1>1 DEF Counts, CountIsClose
    <2> QED  BY <1>3, <1>4, <1>5, <2>1
  <1>9. MaxRunsRespected'
    <2> SUFFICES ASSUME NEW id \in Ids, store[id] # None, store[id].max > 0
                 PROVE  execs[id] <= store[id].max + lost'[id]
      BY <1>6 DEF MaxRunsRespected
    <2>1. execs[id] <= store[id].max + lost[id]
      BY <1>1 DEF Counts, MaxRunsRespected
    <2> QED  BY <1>4, <1>5, <2>1
  <1>10. CleanStore => MarkIsTrue'
    BY <1>1, <1>4, <1>6 DEF Counts, MarkIsTrue
  <1>11. Clock'
    <2>1. TimersSet'
      BY DEF TimersSet, Needs, Restart, ToStart
    <2>2. \A id \in Ids : cronJobs'[id] = None /\ intervals'[id] = None
      BY DEF Restart
    <2>3. None \notin Loops
      BY NoneIsNothing DEF Tasks
    <2>4. Owned'
      BY <2>2, <2>3 DEF Owned
    <2> QED  BY <2>1, <2>4 DEF Clock
  <1> QED  BY <1>7, <1>8, <1>9, <1>10, <1>11 DEF LimInv, Counts

-----------------------------------------------------------------------------
(***************************************************************************)
(* The theorems on limits and timers.                                      *)
(***************************************************************************)

\* The first state satisfies the invariant.
LEMMA LimInit == Init => LimInv
  <1> SUFFICES ASSUME Init PROVE LimInv  OBVIOUS
  <1>1. \A t \in Tasks : Depth(t) = {}
    BY NoCalls DEF Init, Depth
  <1>2. \A id \in Ids : store[id] # None => store[id].count \in Nat /\ store[id].max \in Nat
    <2>1. \A id \in Ids : store[id] # None => store[id] \in Config
      BY SchedulerAssumption DEF Init
    <2> QED  BY <2>1 DEF Config
  <1>3. Copies
    BY <1>1 DEF Copies
  <1>4. CountIsClose
    BY <1>2 DEF CountIsClose, Init
  <1>5. MaxRunsRespected
    BY <1>2 DEF MaxRunsRespected, Init
  <1>6. CleanStore => MarkIsTrue
    BY DEF CleanStore, MarkIsTrue, Init
  <1>7. TimersSet
    BY DEF TimersSet, Needs, Init, ToStart
  <1>8. Owned
    BY NoneIsNothing DEF Owned, Init, Tasks
  <1> QED  BY <1>3, <1>4, <1>5, <1>6, <1>7, <1>8 DEF LimInv, Counts, Clock

\* Every step keeps it while nobody edits the schedules.
LEMMA LimStep ==
    ASSUME Admins = {}
    PROVE  IndInv /\ LimInv /\ [Next]_vars => LimInv'
  <1> SUFFICES ASSUME IndInv, LimInv, [Next]_vars PROVE LimInv'  OBVIOUS
  <1>1. CASE UNCHANGED <<store, timers, boot, execs, lost, stack>>
    <2>1. QuietCalls
      BY <1>1 DEF QuietCalls, SameCall, Depth
    <2> QED  BY <1>1, <2>1, QuietLimits
  <1>2. UNCHANGED vars => UNCHANGED <<store, timers, boot, execs, lost, stack>>
    BY DEF vars
  <1>3. ASSUME NEW id \in Ids, Start(id) PROVE LimInv'
    BY <1>3, StartLimits
  <1>4. ASSUME NEW id \in Ids, Clear(id) PROVE LimInv'
    BY <1>1, <1>4 DEF Clear
  <1>5. ASSUME NEW l \in Loops, Tick(l) PROVE LimInv'
    BY <1>5, TickLimits
  <1>6. ASSUME NEW t \in Tasks, Step(t) \/ Cancel(t) \/ Panic(t) PROVE LimInv'
    BY <1>6, CallLimits, RunLimits, EndRunLimits DEF Step
  <1>7. ASSUME NEW t \in Tasks, NEW id \in Ids, Ask(t, id) PROVE LimInv'
    BY <1>7, CallLimits
  <1> QED  BY <1>1, <1>2, <1>3, <1>4, <1>5, <1>6, <1>7, RestartLimits DEF Next

\* The invariant is stronger than what the runs check of limits and timers.
LEMMA LimImplies ==
    /\ IndInv /\ LimInv => MaxRunsRespected
    /\ CleanStore /\ IndInv /\ LimInv => StoreIsTruthful
  <1>1. IndInv /\ LimInv => MaxRunsRespected
    BY DEF LimInv, Counts
  <1>2. ASSUME LimInv, IndInv PROVE ActiveIsScheduled
    BY <1>2 DEF LimInv, Clock, TimersSet, Needs, ActiveIsScheduled, Settled
  <1>3. ASSUME CleanStore, LimInv, IndInv PROVE RunningIsTruthful
    <2> SUFFICES ASSUME NEW id \in Ids, store[id] # None, store[id].running, ~(lost[id] > 0)
                 PROVE  running[id] # None
      BY DEF RunningIsTruthful
    <2>1. Unsaved(id)
      BY <1>3 DEF LimInv, Counts, MarkIsTrue
    <2>2. PICK t \in Tasks : \E i \in Depth(t) :
             stack[t][i].id = id /\ stack[t][i].at \in {"target", "save"}
      BY <2>1 DEF Unsaved, Depth
    <2>3. PICK i \in Depth(t) : stack[t][i].id = id /\ stack[t][i].at \in {"target", "save"}
      BY <2>2
    <2>4. CallOK(t, stack[t][i]) /\ stack[t][i].at \in Leading
      BY <1>3, <2>3 DEF IndInv, StacksOK, Flights, CallsOK, Leading
    <2> QED  BY <2>3, <2>4, NoneIsNothing DEF CallOK
  <1> QED  BY <1>1, <1>2, <1>3 DEF StoreIsTruthful

\* scheduleCompleted, runOnce: while nobody edits it, a schedule runs max_runs times at
\* most over all its callers and across restarts, apart from one run for each whose
\* count was lost by a failing save, a panic or a restart.
THEOREM RunsAreLimited ==
    ASSUME Admins = {}
    PROVE  Spec => []MaxRunsRespected
  <1>1. IndInv /\ LimInv /\ [Next]_vars => LimInv'
    BY LimStep
  <1> QED  BY <1>1, InvInit, InvStep, LimInit, LimImplies, PTL DEF Spec

\* runOnce, Start, Unschedule: while nobody edits them, and if none was left marked as
\* running, active schedules have their timers and the Running flag is true.
THEOREM StoreTellsTheTruth ==
    ASSUME Admins = {}, CleanStore
    PROVE  Spec => []StoreIsTruthful
  <1>1. IndInv /\ LimInv /\ [Next]_vars => LimInv'
    BY LimStep
  <1>2. IndInv /\ LimInv => StoreIsTruthful
    BY LimImplies
  <1> QED  BY <1>1, <1>2, InvInit, InvStep, LimInit, PTL DEF Spec
=============================================================================
