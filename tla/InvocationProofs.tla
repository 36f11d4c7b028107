-------------------------- MODULE InvocationProofs --------------------------
(***************************************************************************)
(* Proofs about Invocation, for any number of workers, handles, sessions   *)
(* and any expirations: the types, the single use of a handle, the absence *)
(* of forks, and the refinement of Continuations.                          *)
(***************************************************************************)
EXTENDS Invocation, FiniteSetTheorems, TLAPS

USE DEF PC, Kinds, Forever, JState

(***************************************************************************)
(* The steps of Next, flattened: the case split of every proof below.      *)
(***************************************************************************)
LEMMA NextCases ==
    ASSUME NEW P, Next,
           \A w \in Workers, s \in Sessions : StartNew(w, s) => P,
           \A w \in Workers, m \in Extensions : ExtendExp(w, m) => P,
           \A w \in Workers, h \in Handles, ok \in BOOLEAN :
               TakeByToken(w, h, ok) \/ TakeByResume(w, h, ok) => P,
           \A w \in Workers, h \in Handles : ResumeToken(w, h) => P,
           \A w \in Workers : LoadJourney(w) => P,
           \A w \in Workers : RejectJourney(w) \/ Abandon(w) => P,
           \A w \in Workers : RestoreOnClientError(w) => P,
           \A w \in Workers, id \in Handles : Execute(w, id) => P,
           \A w \in Workers : Finish(w) \/ Fail(w) \/ SignFails(w)
                                \/ StoreFails(w) => P,
           \A w \in Workers : AskInput(w) => P,
           \A w \in Workers, id \in Handles :
               SuspendFlow(w, id) \/ WaitAgain(w, id) => P,
           \A w \in Workers, id \in Handles, d \in Waits : WaitUntil(w, id, d) => P,
           \A w \in Workers : Sign(w) => P,
           \A w \in Workers : StorePaused(w) => P,
           Tick => P, ToggleActive => P, Restart => P
    PROVE  P
  BY DEF Next, Take, Handle, Load, Check, Step, Pause

-----------------------------------------------------------------------------
(***************************************************************************)
(* Types.                                                                  *)
(***************************************************************************)

\* Storing an entry under a handle keeps the type of the table.
LEMMA StoreType ==
    ASSUME NEW t \in [Handles -> Entry \cup {None}], NEW h \in Handles,
           NEW k \in Kinds, NEW s \in Sessions, NEW e \in Nat, NEW d \in Nat,
           NEW n \in Int
    PROVE  Store(t, h, k, s, e, d, n) \in [Handles -> Entry \cup {None}]
  <1>1. CacheTTL(n) \in (Nat \ {0}) \cup {Forever}
    BY TTLAssumption DEF CacheTTL
  <1> QED  BY <1>1 DEF Store, Entry

\* A tick keeps the type of the table: an entry with no time left is gone.
LEMMA AgedType ==
    ASSUME NEW t \in [Handles -> Entry \cup {None}]
    PROVE  Aged(t) \in [Handles -> Entry \cup {None}]
  <1>1. \A e \in Entry : e.left # 1 => Older(e) \in Entry
    BY DEF Entry, Older, Sooner
  <1>2. \A h \in Handles : t[h] # None => t[h] \in Entry
    OBVIOUS
  <1> QED  BY <1>1, <1>2 DEF Aged, Stored

\* A worker that returns keeps the types of what it drops.
LEMMA ReturnType ==
    ASSUME TypeOK, NEW w \in Workers, Return(w)
    PROVE  /\ pc' \in [Workers -> PC]
           /\ req' \in [Workers -> Request]
           /\ state' \in [Workers -> State]
           /\ pause' \in [Workers -> PausePlan]
  BY DEF TypeOK, Return, Goto, NoReq, NoState, NoPause, Request, State, PausePlan

\* So does one that returns with a terminal event.
LEMMA EndType ==
    ASSUME TypeOK, NEW w \in Workers, state[w].sess \in Sessions, End(w)
    PROVE  TypeOK'
  BY ReturnType DEF TypeOK, End

\* The plan of a pause has its type, whatever extension is consumed.
LEMMA PrepareType ==
    ASSUME TypeOK, NEW w \in Workers, NEW id \in Handles, NEW kind \in Kinds,
           NEW exp \in Nat, NEW wait \in Nat,
           PreparePause(w, id, kind, exp, wait)
    PROVE  /\ state' \in [Workers -> State]
           /\ pause' \in [Workers -> PausePlan]
  BY DEF TypeOK, PreparePause, State, PausePlan

(***************************************************************************)
(* What a worker has in hand at each point of the handler, without which   *)
(* the types are not preserved: a session whenever it is not idle, a       *)
(* handle while it may have to give one back, an identifier to store under *)
(* while it executes.                                                      *)
(***************************************************************************)
InHand ==
    \A w \in Workers :
        /\ pc[w] = "idle" => req[w] = NoReq /\ state[w] = NoState
        /\ pc[w] # "idle" => state[w].sess \in begun
        /\ pc[w] = "loading" => req[w].handle \in Handles
        /\ pc[w] = "checking" =>
               req[w].handle \in Handles
                   \/ (req[w].handle = None /\ req[w].via = "new")
        /\ pc[w] \in {"running", "signing", "storing"} => pause[w].id \in used

\* The first state has its types, and no worker has a state in hand.
LEMMA TypeInit == Init => TypeOK /\ InHand
  BY DEF Init, TypeOK, InHand, EmptyTable, NoReq, NoState, NoPause, Request,
         State, PausePlan

\* Taking a state out of the table keeps the types.
LEMMA TypeStepTake ==
    ASSUME TypeOK, NEW w \in Workers, NEW h \in Handles, NEW ok \in BOOLEAN,
           TakeByToken(w, h, ok) \/ TakeByResume(w, h, ok)
    PROVE  TypeOK'
  <1>1. table[h] \in Entry
    BY DEF TypeOK, TakeByToken, TakeByResume, Stored
  <1>2. table' \in [Handles -> Entry \cup {None}]
    BY DEF TypeOK, TakeByToken, TakeByResume, GetAndDelete
  <1>3. req' \in [Workers -> Request]
    BY DEF TypeOK, TakeByToken, TakeByResume, Request
  <1>4. JState(table[h].sess, 0, 0, 0) \in State
    BY <1>1 DEF State, Entry
  <1>5. JState(table[h].sess, table[h].exp, 0, table[h].wait) \in State
    BY <1>1 DEF State, Entry
  <1>6. state' \in [Workers -> State]
    BY <1>4, <1>5 DEF TypeOK, TakeByToken, MergeState, TakeByResume
  <1> QED  BY <1>2, <1>3, <1>6 DEF TypeOK, TakeByToken, TakeByResume, Goto

\* Every step keeps the types.
LEMMA TypeStep == TypeOK /\ InHand /\ [Next]_vars => TypeOK'
  <1> SUFFICES ASSUME TypeOK, InHand, [Next]_vars
               PROVE  TypeOK'
    OBVIOUS
  <1>st. ASSUME NEW w \in Workers, NEW s \in Sessions, StartNew(w, s)
         PROVE  TypeOK'
    BY <1>st, ExpAssumption DEF TypeOK, StartNew, Goto, Request, State
  <1>ex. ASSUME NEW w \in Workers, NEW m \in Extensions, ExtendExp(w, m)
         PROVE  TypeOK'
    BY <1>ex, ExpAssumption DEF TypeOK, ExtendExp, State
  <1>tk. ASSUME NEW w \in Workers, NEW h \in Handles, NEW ok \in BOOLEAN,
                TakeByToken(w, h, ok) \/ TakeByResume(w, h, ok)
         PROVE  TypeOK'
    BY <1>tk, TypeStepTake
  <1>rt. ASSUME NEW w \in Workers, NEW h \in Handles, ResumeToken(w, h)
         PROVE  TypeOK'
    BY <1>rt DEF TypeOK, ResumeToken, GetAndDelete
  <1>ld. ASSUME NEW w \in Workers, LoadJourney(w)
         PROVE  TypeOK'
    BY <1>ld DEF TypeOK, LoadJourney, Goto
  <1>rj. ASSUME NEW w \in Workers, RejectJourney(w) \/ Abandon(w)
         PROVE  TypeOK'
    BY <1>rj, ReturnType DEF TypeOK, RejectJourney, Abandon
  <1>re. ASSUME NEW w \in Workers, RestoreOnClientError(w)
         PROVE  TypeOK'
    <2>1. /\ req[w].handle \in Handles
          /\ state[w].sess \in Sessions
          /\ state[w].exp \in Nat
      BY <1>re DEF RestoreOnClientError, InHand, TypeOK, State
    <2>2. table' \in [Handles -> Entry \cup {None}]
      BY <1>re, <2>1, StoreType DEF TypeOK, RestoreOnClientError
    <2> QED  BY <1>re, <2>2, ReturnType DEF TypeOK, RestoreOnClientError
  <1>go. ASSUME NEW w \in Workers, NEW id \in Handles, Execute(w, id)
         PROVE  TypeOK'
    BY <1>go DEF TypeOK, Execute, Goto, PausePlan
  <1>en. ASSUME NEW w \in Workers,
                Finish(w) \/ Fail(w) \/ SignFails(w) \/ StoreFails(w)
         PROVE  TypeOK'
    <2>1. End(w) /\ state[w].sess \in Sessions
      BY <1>en DEF Finish, Running, Fail, SignFails, StoreFails, InHand, TypeOK
    <2> QED  BY <2>1, EndType
  <1>as. ASSUME NEW w \in Workers, AskInput(w)
         PROVE  TypeOK'
    <2>1. pause[w].id \in Handles /\ state[w].exp \in Nat
      BY <1>as DEF AskInput, Running, InHand, TypeOK, State
    <2>2. state' \in [Workers -> State] /\ pause' \in [Workers -> PausePlan]
      BY <1>as, <2>1, PrepareType DEF AskInput
    <2> QED  BY <1>as, <2>2 DEF TypeOK, AskInput, PreparePause, Goto
  <1>sw. ASSUME NEW w \in Workers, NEW id \in Handles, NEW exp \in Nat,
                NEW wait \in Nat, SuspendWith(w, id, exp, wait)
         PROVE  TypeOK'
    <2>1. state' \in [Workers -> State] /\ pause' \in [Workers -> PausePlan]
      BY <1>sw, PrepareType DEF SuspendWith
    <2> QED  BY <1>sw, <2>1 DEF TypeOK, SuspendWith, PreparePause, Goto
  <1>su. ASSUME NEW w \in Workers, NEW id \in Handles,
                SuspendFlow(w, id) \/ WaitAgain(w, id)
         PROVE  TypeOK'
    <2>1. state[w].exp \in Nat /\ state[w].wait \in Nat
      BY DEF TypeOK, State
    <2> QED  BY <1>su, <1>sw, <2>1, ExpAssumption DEF SuspendFlow, WaitAgain
  <1>wa. ASSUME NEW w \in Workers, NEW id \in Handles, NEW d \in Waits,
                WaitUntil(w, id, d)
         PROVE  TypeOK'
    <2>1. state[w].exp \in Nat /\ d \in Nat
      BY ExpAssumption DEF TypeOK, State
    <2> QED  BY <1>wa, <1>sw, <2>1 DEF WaitUntil
  <1>si. ASSUME NEW w \in Workers, Sign(w)
         PROVE  TypeOK'
    BY <1>si DEF TypeOK, Sign, Goto
  <1>pa. ASSUME NEW w \in Workers, StorePaused(w)
         PROVE  TypeOK'
    <2>1. /\ pause[w].id \in Handles /\ pause[w].kind \in Kinds
          /\ pause[w].ttl \in Int /\ state[w].sess \in Sessions
          /\ state[w].exp \in Nat /\ state[w].wait \in Nat
      BY <1>pa DEF StorePaused, InHand, TypeOK, State, PausePlan
    <2>2. table' \in [Handles -> Entry \cup {None}]
      BY <1>pa, <2>1, StoreType DEF TypeOK, StorePaused
    <2> QED  BY <1>pa, <2>1, <2>2, ReturnType DEF TypeOK, StorePaused
  <1>ti. CASE Tick
    <2>1. table' \in [Handles -> Entry \cup {None}]
      BY <1>ti, AgedType DEF TypeOK, Tick
    <2>2. state' \in [Workers -> State]
      BY <1>ti DEF TypeOK, Tick, State, Sooner
    <2> QED  BY <1>ti, <2>1, <2>2 DEF TypeOK, Tick
  <1>to. CASE ToggleActive
    BY <1>to DEF TypeOK, ToggleActive
  <1>rs. CASE Restart
    BY <1>rs DEF TypeOK, Restart, EmptyTable, NoReq, NoState, NoPause, Request,
             State, PausePlan
  <1>un. CASE UNCHANGED vars
    BY <1>un DEF TypeOK, vars
  <1>nx. CASE Next
    BY <1>nx, <1>st, <1>ex, <1>tk, <1>rt, <1>ld, <1>rj, <1>re, <1>go, <1>en, <1>as,
       <1>su, <1>wa, <1>si, <1>pa, <1>ti, <1>to, <1>rs, NextCases
  <1> QED  BY <1>un, <1>nx

-----------------------------------------------------------------------------
(***************************************************************************)
(* The inductive invariant.  HandleInv: a stored handle was issued, a held *)
(* one is not stored and has one holder, a handle that was run is neither, *)
(* and the identifier a worker will store under is nobody else's.          *)
(* SessionInv: a session is in one place, and nowhere once it has ended.   *)
(***************************************************************************)
Late(w) == pc[w] \in {"running", "signing", "storing"}

HandleInv ==
    /\ issued \subseteq used
    /\ \A h \in Handles :
          /\ Stored(table, h) => h \in issued /\ runs[h] = 0
          /\ runs[h] # 0 => runs[h] = 1 /\ h \in issued
    /\ \A w \in Workers, h \in Handles :
          Holds(w, h) => h \in issued /\ ~Stored(table, h) /\ runs[h] = 0
    /\ \A w, v \in Workers, h \in Handles : Holds(w, h) /\ Holds(v, h) => w = v
    /\ \A w \in Workers : Late(w) => pause[w].id \in used \ issued
    /\ \A w, v \in Workers :
          Late(w) /\ Late(v) /\ pause[w].id = pause[v].id => w = v

SessionInv ==
    /\ \A h \in Handles : Stored(table, h) => table[h].sess \in begun
    /\ \A h, g \in Handles :
          Stored(table, h) /\ Stored(table, g) /\ table[h].sess = table[g].sess
              => h = g
    /\ \A w, v \in Workers :
          state[w].sess # None /\ state[w].sess = state[v].sess => w = v
    /\ \A w \in Workers, h \in Handles :
          Stored(table, h) => state[w].sess # table[h].sess
    /\ \A s \in Sessions : events[s] # 0 =>
          /\ events[s] = 1
          /\ s \in begun
          /\ \A w \in Workers : state[w].sess # s
          /\ \A h \in Handles : Stored(table, h) => table[h].sess # s

IndInv == TypeOK /\ InHand /\ HandleInv /\ SessionInv

\* The inductive invariant holds at the start.
LEMMA IndInit == Init => IndInv
  <1> SUFFICES ASSUME Init PROVE IndInv
    OBVIOUS
  <1>1. HandleInv
    BY DEF Init, HandleInv, EmptyTable, Stored, Holds, Late
  <1>2. SessionInv
    BY DEF Init, SessionInv, EmptyTable, Stored, NoState
  <1> QED  BY <1>1, <1>2, TypeInit DEF IndInv

(***************************************************************************)
(* The shapes of a step: what actions that go the same way have in common, *)
(* with only the changes that matter to the invariants.                    *)
(***************************************************************************)
TakeStep(w, h) ==
    /\ pc[w] = "idle" /\ pc' = [pc EXCEPT ![w] = "loading"]
    /\ h \in issued /\ Stored(table, h)
    /\ table' = [table EXCEPT ![h] = None]
    /\ req' \in [Workers -> Request] /\ req'[w].handle = h
    /\ \A v \in Workers \ {w} : req'[v] = req[v]
    /\ state' \in [Workers -> State] /\ state'[w].sess = table[h].sess
    /\ \A v \in Workers \ {w} : state'[v] = state[v]
    /\ UNCHANGED <<used, issued, begun, events, pause, runs>>

DropStep(w) ==
    /\ pc[w] \in {"loading", "checking"}
    /\ Return(w)
    /\ UNCHANGED <<table, used, issued, begun, events, runs>>

EndStep(w) == Late(w) /\ End(w)

SuspendStep(w, id) ==
    /\ pc[w] = "running" /\ pc' = [pc EXCEPT ![w] = "storing"]
    /\ id \notin used /\ used' = used \cup {id}
    /\ pause' \in [Workers -> PausePlan] /\ pause'[w].id = id
    /\ \A v \in Workers \ {w} : pause'[v] = pause[v]
    /\ state' \in [Workers -> State]
    /\ state'[w].sess = state[w].sess
    /\ \A v \in Workers \ {w} : state'[v] = state[v]
    /\ UNCHANGED <<table, issued, begun, events, req, runs>>

\* Both ways of taking a state have one shape.
LEMMA TakeShape ==
    ASSUME TypeOK, NEW w \in Workers, NEW h \in Handles, NEW ok \in BOOLEAN,
           TakeByToken(w, h, ok) \/ TakeByResume(w, h, ok)
    PROVE  TakeStep(w, h)
  <1>1. TypeOK'
    BY TypeStepTake
  <1>2. CASE TakeByToken(w, h, ok)
    BY <1>1, <1>2 DEF TypeOK, TakeByToken, MergeState, GetAndDelete, Goto, TakeStep
  <1>3. CASE TakeByResume(w, h, ok)
    BY <1>1, <1>3 DEF TypeOK, TakeByResume, GetAndDelete, Goto, TakeStep
  <1> QED  BY <1>2, <1>3

\* So have the steps that suspend.
LEMMA SuspendShape ==
    ASSUME TypeOK, TypeOK', NEW w \in Workers, NEW id \in Handles,
           \/ SuspendFlow(w, id) \/ WaitAgain(w, id)
           \/ \E d \in Waits : WaitUntil(w, id, d)
    PROVE  SuspendStep(w, id)
  <1>1. pc[w] = "running" /\ \E exp, wait : SuspendWith(w, id, exp, wait)
    BY DEF SuspendFlow, WaitAgain, WaitUntil, Running
  <1> QED  BY <1>1 DEF TypeOK, SuspendWith, PreparePause, Goto, SuspendStep

\* What the steps of a worker do to table, handles and sessions, by shape.
LEMMA StepShapes ==
    ASSUME NEW P, TypeOK, InHand, [Next]_vars,
           \A w \in Workers, s \in Sessions : StartNew(w, s) => P,
           \A w \in Workers, m \in Extensions : ExtendExp(w, m) => P,
           \A w \in Workers, h \in Handles : TakeStep(w, h) => P,
           \A w \in Workers, h \in Handles : ResumeToken(w, h) => P,
           \A w \in Workers : LoadJourney(w) => P,
           \A w \in Workers : DropStep(w) => P,
           \A w \in Workers : RestoreOnClientError(w) => P,
           \A w \in Workers, id \in Handles : Execute(w, id) => P,
           \A w \in Workers : EndStep(w) => P,
           \A w \in Workers : AskInput(w) => P,
           \A w \in Workers, id \in Handles : SuspendStep(w, id) => P,
           \A w \in Workers : Sign(w) => P,
           \A w \in Workers : StorePaused(w) => P,
           Tick => P, ToggleActive => P, Restart => P, UNCHANGED vars => P
    PROVE  P
  <1>1. TypeOK'
    BY TypeStep
  <1>2. ASSUME NEW w \in Workers, RejectJourney(w) \/ Abandon(w)
        PROVE  DropStep(w)
    BY <1>2 DEF RejectJourney, Abandon, DropStep
  <1>3. ASSUME NEW w \in Workers,
               Finish(w) \/ Fail(w) \/ SignFails(w) \/ StoreFails(w)
        PROVE  EndStep(w)
    BY <1>3 DEF Finish, Fail, SignFails, StoreFails, Running, Late, EndStep
  <1>4. CASE Next
    BY <1>1, <1>2, <1>3, <1>4, TakeShape, SuspendShape, NextCases
  <1> QED  BY <1>4

\* A worker has a state in hand exactly while it handles a request.
LEMMA InHandStep == IndInv /\ [Next]_vars => InHand'
  <1> SUFFICES ASSUME IndInv, [Next]_vars
               PROVE  InHand'
    OBVIOUS
  <1> USE NoneAssumption DEF IndInv, TypeOK, InHand, SessionInv, Stored, NoReq,
                         NoState, Request, State, Entry
  <1>st. ASSUME NEW w \in Workers, NEW s \in Sessions, StartNew(w, s)
         PROVE  InHand'
    BY <1>st DEF StartNew, Goto
  <1>ex. ASSUME NEW w \in Workers, NEW m \in Extensions, ExtendExp(w, m)
         PROVE  InHand'
    BY <1>ex DEF ExtendExp, Running
  <1>tk. ASSUME NEW w \in Workers, NEW h \in Handles, TakeStep(w, h)
         PROVE  InHand'
    BY <1>tk DEF TakeStep
  <1>rt. ASSUME NEW w \in Workers, NEW h \in Handles, ResumeToken(w, h)
         PROVE  InHand'
    BY <1>rt DEF ResumeToken, GetAndDelete
  <1>ld. ASSUME NEW w \in Workers, LoadJourney(w)
         PROVE  InHand'
    BY <1>ld DEF LoadJourney, Goto
  <1>dr. ASSUME NEW w \in Workers, DropStep(w)
         PROVE  InHand'
    BY <1>dr DEF DropStep, Return, Goto
  <1>re. ASSUME NEW w \in Workers, RestoreOnClientError(w)
         PROVE  InHand'
    BY <1>re DEF RestoreOnClientError, Store, Return, Goto
  <1>go. ASSUME NEW w \in Workers, NEW id \in Handles, Execute(w, id)
         PROVE  InHand'
    BY <1>go DEF Execute, Goto
  <1>en. ASSUME NEW w \in Workers, EndStep(w)
         PROVE  InHand'
    BY <1>en DEF EndStep, Late, End, Return, Goto
  <1>as. ASSUME NEW w \in Workers, AskInput(w)
         PROVE  InHand'
    BY <1>as DEF AskInput, Running, PreparePause, Goto
  <1>su. ASSUME NEW w \in Workers, NEW id \in Handles, SuspendStep(w, id)
         PROVE  InHand'
    BY <1>su DEF SuspendStep
  <1>si. ASSUME NEW w \in Workers, Sign(w)
         PROVE  InHand'
    BY <1>si DEF Sign, Goto
  <1>pa. ASSUME NEW w \in Workers, StorePaused(w)
         PROVE  InHand'
    BY <1>pa DEF StorePaused, Store, Return, Goto
  <1>ti. CASE Tick
    BY <1>ti DEF Tick, Aged, Older, Sooner
  <1>to. CASE ToggleActive
    BY <1>to DEF ToggleActive
  <1>rs. CASE Restart
    BY <1>rs DEF Restart, EmptyTable
  <1>un. CASE UNCHANGED vars
    BY <1>un DEF vars
  <1> HIDE NoneAssumption DEF IndInv, TypeOK, InHand, SessionInv, Stored, NoReq,
                         NoState, Request, State, Entry
  <1> QED
    BY <1>st, <1>ex, <1>tk, <1>rt, <1>ld, <1>dr, <1>re, <1>go, <1>en, <1>as, <1>su,
       <1>si, <1>pa, <1>ti, <1>to, <1>rs, <1>un, StepShapes DEF IndInv

\* The life of the handles: drawn once, stored or held once, run once.
LEMMA HandleStep == IndInv /\ [Next]_vars => HandleInv'
  <1> SUFFICES ASSUME IndInv, [Next]_vars
               PROVE  HandleInv'
    OBVIOUS
  <1> USE NoneAssumption DEF IndInv, TypeOK, InHand, HandleInv, Holds, Late,
                         Stored, NoReq
  <1>st. ASSUME NEW w \in Workers, NEW s \in Sessions, StartNew(w, s)
         PROVE  HandleInv'
    BY <1>st DEF StartNew, Goto
  <1>ex. ASSUME NEW w \in Workers, NEW m \in Extensions, ExtendExp(w, m)
         PROVE  HandleInv'
    BY <1>ex DEF ExtendExp, Running
  <1>tk. ASSUME NEW w \in Workers, NEW h \in Handles, TakeStep(w, h)
         PROVE  HandleInv'
    BY <1>tk DEF TakeStep
  <1>rt. ASSUME NEW w \in Workers, NEW h \in Handles, ResumeToken(w, h)
         PROVE  HandleInv'
    BY <1>rt DEF ResumeToken, GetAndDelete
  <1>ld. ASSUME NEW w \in Workers, LoadJourney(w)
         PROVE  HandleInv'
    BY <1>ld DEF LoadJourney, Goto
  <1>dr. ASSUME NEW w \in Workers, DropStep(w)
         PROVE  HandleInv'
    BY <1>dr DEF DropStep, Return, Goto
  <1>re. ASSUME NEW w \in Workers, RestoreOnClientError(w)
         PROVE  HandleInv'
    BY <1>re DEF RestoreOnClientError, Store, Return, Goto
  <1>go. ASSUME NEW w \in Workers, NEW id \in Handles, Execute(w, id)
         PROVE  HandleInv'
    BY <1>go DEF Execute, Goto
  <1>en. ASSUME NEW w \in Workers, EndStep(w)
         PROVE  HandleInv'
    BY <1>en DEF EndStep, Late, End, Return, Goto
  <1>as. ASSUME NEW w \in Workers, AskInput(w)
         PROVE  HandleInv'
    BY <1>as DEF AskInput, Running, PreparePause, Goto
  <1>su. ASSUME NEW w \in Workers, NEW id \in Handles, SuspendStep(w, id)
         PROVE  HandleInv'
    BY <1>su DEF SuspendStep
  <1>si. ASSUME NEW w \in Workers, Sign(w)
         PROVE  HandleInv'
    BY <1>si DEF Sign, Goto
  <1>pa. ASSUME NEW w \in Workers, StorePaused(w)
         PROVE  HandleInv'
    BY <1>pa DEF StorePaused, Store, Return, Goto
  <1>ti. CASE Tick
    BY <1>ti DEF Tick, Aged, Older, Sooner
  <1>to. CASE ToggleActive
    BY <1>to DEF ToggleActive
  <1>rs. CASE Restart
    BY <1>rs DEF Restart, EmptyTable
  <1>un. CASE UNCHANGED vars
    BY <1>un DEF vars
  <1> HIDE NoneAssumption DEF IndInv, TypeOK, InHand, HandleInv, Holds, Late,
                         Stored, NoReq
  <1> QED
    BY <1>st, <1>ex, <1>tk, <1>rt, <1>ld, <1>dr, <1>re, <1>go, <1>en, <1>as, <1>su,
       <1>si, <1>pa, <1>ti, <1>to, <1>rs, <1>un, StepShapes DEF IndInv

\* The state of a session stays in one place, and nowhere after its event.
LEMMA SessionStep == IndInv /\ [Next]_vars => SessionInv'
  <1> SUFFICES ASSUME IndInv, [Next]_vars
               PROVE  SessionInv'
    OBVIOUS
  <1> USE NoneAssumption DEF IndInv, TypeOK, InHand, SessionInv, Stored, NoState
  <1>st. ASSUME NEW w \in Workers, NEW s \in Sessions, StartNew(w, s)
         PROVE  SessionInv'
    BY <1>st DEF StartNew, Goto
  <1>ex. ASSUME NEW w \in Workers, NEW m \in Extensions, ExtendExp(w, m)
         PROVE  SessionInv'
    BY <1>ex DEF ExtendExp, Running
  <1>tk. ASSUME NEW w \in Workers, NEW h \in Handles, TakeStep(w, h)
         PROVE  SessionInv'
    BY <1>tk DEF TakeStep
  <1>rt. ASSUME NEW w \in Workers, NEW h \in Handles, ResumeToken(w, h)
         PROVE  SessionInv'
    BY <1>rt DEF ResumeToken, GetAndDelete
  <1>ld. ASSUME NEW w \in Workers, LoadJourney(w)
         PROVE  SessionInv'
    BY <1>ld DEF LoadJourney, Goto
  <1>dr. ASSUME NEW w \in Workers, DropStep(w)
         PROVE  SessionInv'
    BY <1>dr DEF DropStep, Return, Goto
  <1>re. ASSUME NEW w \in Workers, RestoreOnClientError(w)
         PROVE  SessionInv'
    BY <1>re DEF RestoreOnClientError, Store, Return, Goto
  <1>go. ASSUME NEW w \in Workers, NEW id \in Handles, Execute(w, id)
         PROVE  SessionInv'
    BY <1>go DEF Execute, Goto
  <1>en. ASSUME NEW w \in Workers, EndStep(w)
         PROVE  SessionInv'
    BY <1>en DEF EndStep, Late, End, Return, Goto
  <1>as. ASSUME NEW w \in Workers, AskInput(w)
         PROVE  SessionInv'
    BY <1>as DEF AskInput, Running, PreparePause, Goto
  <1>su. ASSUME NEW w \in Workers, NEW id \in Handles, SuspendStep(w, id)
         PROVE  SessionInv'
    <2>1. \A v \in Workers : state'[v].sess = state[v].sess
      BY <1>su DEF SuspendStep
    <2> QED  BY <1>su, <2>1 DEF SuspendStep
  <1>si. ASSUME NEW w \in Workers, Sign(w)
         PROVE  SessionInv'
    BY <1>si DEF Sign, Goto
  <1>pa. ASSUME NEW w \in Workers, StorePaused(w)
         PROVE  SessionInv'
    BY <1>pa DEF StorePaused, Store, Return, Goto
  <1>ti. CASE Tick
    BY <1>ti DEF Tick, Aged, Older, Sooner
  <1>to. CASE ToggleActive
    BY <1>to DEF ToggleActive
  <1>rs. CASE Restart
    BY <1>rs DEF Restart, EmptyTable
  <1>un. CASE UNCHANGED vars
    BY <1>un DEF vars
  <1> HIDE NoneAssumption DEF IndInv, TypeOK, InHand, SessionInv, Stored, NoState
  <1> QED
    BY <1>st, <1>ex, <1>tk, <1>rt, <1>ld, <1>dr, <1>re, <1>go, <1>en, <1>as, <1>su,
       <1>si, <1>pa, <1>ti, <1>to, <1>rs, <1>un, StepShapes DEF IndInv

(***************************************************************************)
(* The inductive invariant: types, what a worker has in hand, the life of  *)
(* the handles and the whereabouts of the sessions hold in every reachable *)
(* state of InvokeJourney and the table it shares.                         *)
(***************************************************************************)
THEOREM Invariance == Spec => []IndInv
  <1>1. IndInv /\ [Next]_vars => IndInv'
    BY TypeStep, InHandStep, HandleStep, SessionStep DEF IndInv
  <1> QED  BY IndInit, <1>1, PTL DEF Spec

(***************************************************************************)
(* Every variable keeps its type.                                          *)
(***************************************************************************)
THEOREM TypeCorrect == Spec => []TypeOK
  <1>1. IndInv => TypeOK
    BY DEF IndInv
  <1> QED  BY Invariance, <1>1, PTL

(***************************************************************************)
(* Single use: however requests, ticks, restarts and changes of the        *)
(* journey interleave, a token or resume id starts at most one execution   *)
(* and is good for nothing once it did.                                    *)
(***************************************************************************)
THEOREM SingleUse == Spec => []AtMostOneRun
  <1>1. IndInv => AtMostOneRun
    <2> SUFFICES ASSUME IndInv, NEW h \in Handles
                 PROVE  /\ runs[h] <= 1
                        /\ runs[h] = 1 => ~Stored(table, h)
                        /\ \A w \in Workers : runs[h] = 1 => ~Holds(w, h)
      BY DEF AtMostOneRun
    <2>1. runs[h] \in Nat /\ (runs[h] # 0 => runs[h] = 1)
      BY DEF IndInv, TypeOK, HandleInv
    <2>2. Stored(table, h) => runs[h] = 0
      BY DEF IndInv, HandleInv
    <2>3. \A w \in Workers : Holds(w, h) => runs[h] = 0
      BY DEF IndInv, HandleInv
    <2> QED  BY <2>1, <2>2, <2>3
  <1> QED  BY Invariance, <1>1, PTL

(***************************************************************************)
(* A run of a journey is in one place at most, ends at most once, and      *)
(* leaves nothing behind that could be resumed after its end.              *)
(***************************************************************************)
THEOREM SessionsNeverFork == Spec => []NoFork
  <1>1. ASSUME IndInv, NEW s \in Sessions
        PROVE  \A x, y \in Copies(s) : x = y
    BY <1>1, NoneAssumption DEF IndInv, TypeOK, SessionInv, Copies
  <1>2. ASSUME IndInv, NEW s \in Sessions
        PROVE  Cardinality(Copies(s)) <= 1
    <2>1. CASE Copies(s) = {}
      BY <2>1, FS_EmptySet
    <2>2. CASE Copies(s) # {}
      <3>1. PICK x \in Copies(s) : TRUE
        BY <2>2
      <3>2. Copies(s) = {x}
        BY <1>1, <1>2, <3>1
      <3> QED  BY <3>2, FS_Singleton
    <2> QED  BY <2>1, <2>2
  <1>3. ASSUME IndInv, NEW s \in Sessions
        PROVE  events[s] <= 1 /\ (events[s] = 1 => Copies(s) = {})
    BY <1>3 DEF IndInv, TypeOK, SessionInv, Copies
  <1>4. IndInv => NoFork
    BY <1>2, <1>3 DEF NoFork
  <1> QED  BY Invariance, <1>4, PTL

-----------------------------------------------------------------------------
(***************************************************************************)
(* The refinement of Continuations.  First, what HandleStatus says of one  *)
(* handle, then the abstract step behind each shape of a concrete step.    *)
(***************************************************************************)
Held(h) == \E w \in Workers : Holds(w, h)

\* Where nothing changed for any handle, the abstract step stutters.
LEMMA SameStatus ==
    ASSUME \A h \in Handles :
               /\ Stored(table, h)' <=> Stored(table, h)
               /\ Held(h)' <=> Held(h)
               /\ h \in issued' <=> h \in issued
    PROVE  HandleStatus' = HandleStatus
  BY DEF HandleStatus, Held

\* Where something changed for one handle, one entry of the status changes.
LEMMA OneStatus ==
    ASSUME NEW g \in Handles,
           \A h \in Handles \ {g} :
               /\ Stored(table, h)' <=> Stored(table, h)
               /\ Held(h)' <=> Held(h)
               /\ h \in issued' <=> h \in issued
    PROVE  HandleStatus' = [HandleStatus EXCEPT ![g] = HandleStatus'[g]]
  BY DEF HandleStatus, Held

\* Restarts and ticks: only stored or held handles lose something.
LEMMA ForgetStatus ==
    ASSUME IndInv, UNCHANGED issued, UNCHANGED runs,
           \A h \in Handles : Stored(table, h)' => Stored(table, h),
           \A h \in Handles : Held(h)' => Held(h),
           \A h \in Handles : Held(h) /\ ~Held(h)' => ~Stored(table, h)'
    PROVE  C!Next
  <1> DEFINE S == {h \in Handles : HandleStatus'[h] # HandleStatus[h]}
  <1>1. \A h \in S : HandleStatus[h] \in {"live", "taken"} /\ HandleStatus'[h] = "gone"
    <2> SUFFICES ASSUME NEW h \in Handles, HandleStatus'[h] # HandleStatus[h]
                 PROVE  /\ HandleStatus[h] \in {"live", "taken"}
                        /\ HandleStatus'[h] = "gone"
      OBVIOUS
    <2>1. Stored(table, h) => h \in issued /\ ~Held(h)
      BY DEF IndInv, HandleInv, Held
    <2>2. Held(h) => h \in issued
      BY DEF IndInv, HandleInv, Held
    <2> QED  BY <2>1, <2>2 DEF HandleStatus, Held
  <1>2. HandleStatus' = [h \in Handles |-> IF h \in S THEN "gone" ELSE HandleStatus[h]]
    BY <1>1 DEF HandleStatus
  <1>3. C!Forget(S)
    BY <1>1, <1>2 DEF C!Forget
  <1>4. S \in SUBSET Handles
    OBVIOUS
  <1> QED  BY <1>3, <1>4 DEF C!Next

\* What is stored is an entry, so the handle is stored.
LEMMA RestoredEntry ==
    ASSUME TypeOK, InHand, NEW w \in Workers, NEW h \in Handles,
           NEW k \in Kinds, NEW d, NEW n,
           pc[w] # "idle",
           table' = Store(table, h, k, state[w].sess, state[w].exp, d, n),
           d \in Nat, n \in Int
    PROVE  table'[h] # None
  <1>1. state[w].sess \in Sessions /\ state[w].exp \in Nat
    BY DEF TypeOK, InHand, State
  <1>2. [kind |-> k, sess |-> state[w].sess, exp |-> state[w].exp, wait |-> d,
         left |-> CacheTTL(n)] \in Entry
    BY <1>1, TTLAssumption DEF Entry, CacheTTL
  <1> QED  BY <1>2, NoneIsNoEntry DEF Store, TypeOK

\* The conclusion of every case: a step of Continuations, or a stutter.
AbstractStep == C!Next \/ UNCHANGED <<HandleStatus, runs>>

\* Every step is a step of Continuations, or leaves its state alone.
LEMMA RefinesStep == IndInv /\ [Next]_vars => [C!Next]_(C!vars)
  <1> SUFFICES ASSUME IndInv, [Next]_vars
               PROVE  AbstractStep
    BY DEF C!vars, AbstractStep
  <1>a. TypeOK /\ InHand
    BY DEF IndInv
  <1> USE DEF AbstractStep
  <1>st. ASSUME NEW w \in Workers, NEW s \in Sessions, StartNew(w, s)
         PROVE  AbstractStep
    <2>1. \A h \in Handles : Held(h)' <=> Held(h)
      BY <1>st, <1>a, NoneAssumption
         DEF StartNew, Goto, Held, Holds, InHand, TypeOK, NoReq
    <2> QED  BY <1>st, <2>1, SameStatus DEF StartNew, Stored
  <1>ex. ASSUME NEW w \in Workers, NEW m \in Extensions, ExtendExp(w, m)
         PROVE  AbstractStep
    BY <1>ex, SameStatus DEF ExtendExp, Stored, Held, Holds
  <1>tk. ASSUME NEW w \in Workers, NEW h \in Handles, TakeStep(w, h)
         PROVE  AbstractStep
    <2>1. \A g \in Handles \ {h} : Held(g)' <=> Held(g)
      BY <1>tk, <1>a DEF TakeStep, Held, Holds, TypeOK
    <2>2. Held(h)' /\ ~Stored(table, h)' /\ Stored(table, h)
      BY <1>tk, <1>a DEF TakeStep, Held, Holds, Stored, TypeOK
    <2>3. HandleStatus' = [HandleStatus EXCEPT ![h] = HandleStatus'[h]]
      BY <1>tk, <1>a, <2>1, OneStatus DEF TakeStep, Stored, TypeOK
    <2>4. HandleStatus[h] = "live" /\ HandleStatus'[h] = "taken"
      BY <2>2 DEF HandleStatus, Held
    <2> QED  BY <1>tk, <2>3, <2>4 DEF TakeStep, C!Next, C!Take, C!Becomes
  <1>rt. ASSUME NEW w \in Workers, NEW h \in Handles, ResumeToken(w, h)
         PROVE  AbstractStep
    <2>1. \A g \in Handles : Held(g)' <=> Held(g)
      BY <1>rt DEF ResumeToken, Held, Holds
    <2>2. \A g \in Handles : Stored(table, g)' => Stored(table, g)
      BY <1>rt, <1>a DEF ResumeToken, GetAndDelete, Stored, TypeOK
    <2> QED  BY <1>rt, <2>1, <2>2, ForgetStatus DEF ResumeToken
  <1>ld. ASSUME NEW w \in Workers, LoadJourney(w)
         PROVE  AbstractStep
    <2>1. \A h \in Handles : Held(h)' <=> Held(h)
      BY <1>ld, <1>a DEF LoadJourney, Goto, Held, Holds, TypeOK
    <2> QED  BY <1>ld, <2>1, SameStatus DEF LoadJourney, Stored
  <1>dr. ASSUME NEW w \in Workers, DropStep(w)
         PROVE  AbstractStep
    <2>1. \A h \in Handles : Held(h)' => Held(h)
      BY <1>dr, <1>a DEF DropStep, Return, Goto, Held, Holds, TypeOK
    <2>2. \A h \in Handles : Held(h) => ~Stored(table, h)
      BY DEF IndInv, HandleInv, Held
    <2> QED  BY <1>dr, <2>1, <2>2, ForgetStatus DEF DropStep, Stored
  <1>re. ASSUME NEW w \in Workers, RestoreOnClientError(w)
         PROVE  AbstractStep
    <2>0. PICK h \in Handles : h = req[w].handle
      BY <1>re DEF RestoreOnClientError, IndInv, InHand
    <2>1. Holds(w, h) /\ ~Stored(table, h)
      BY <1>re, <2>0 DEF RestoreOnClientError, IndInv, HandleInv, Holds
    <2>2. \A g \in Handles \ {h} : Held(g)' <=> Held(g)
      BY <1>re, <1>a, <2>0, NoneAssumption
         DEF RestoreOnClientError, Return, Goto, Held, Holds, TypeOK, NoReq
    <2>3. Stored(table, h)'
      <3>1. state[w].exp \in Int
        BY <1>a DEF TypeOK, State
      <3>2. table' = Store(table, h, "token", state[w].sess, state[w].exp, 0,
                           state[w].exp)
        BY <1>re, <2>0 DEF RestoreOnClientError
      <3>3. pc[w] # "idle"
        BY <1>re DEF RestoreOnClientError
      <3> QED  BY <1>a, <3>1, <3>2, <3>3, RestoredEntry DEF Stored
    <2>4. HandleStatus' = [HandleStatus EXCEPT ![h] = HandleStatus'[h]]
      BY <1>re, <1>a, <2>0, <2>2, OneStatus
         DEF RestoreOnClientError, Store, Stored, TypeOK
    <2>5. HandleStatus[h] = "taken" /\ HandleStatus'[h] = "live"
      BY <2>1, <2>3 DEF HandleStatus
    <2> QED
      BY <1>re, <2>1, <2>4, <2>5
         DEF RestoreOnClientError, C!Next, C!GiveBack, C!Becomes
  <1>go. ASSUME NEW w \in Workers, NEW id \in Handles, Execute(w, id)
         PROVE  AbstractStep
    <2> DEFINE h == req[w].handle
    <2>1. CASE h \in Handles
      <3>1. Holds(w, h) /\ ~Stored(table, h) /\ h \in issued
        BY <1>go, <2>1 DEF Execute, IndInv, HandleInv, Holds
      <3>2. \A g \in Handles \ {h} : Held(g)' <=> Held(g)
        BY <1>go, <1>a DEF Execute, Goto, Held, Holds, TypeOK
      <3>3. ~Held(h)'
        BY <1>go, <1>a, <2>1, <3>1
           DEF Execute, Goto, Held, Holds, TypeOK, IndInv, HandleInv
      <3>4. HandleStatus' = [HandleStatus EXCEPT ![h] = HandleStatus'[h]]
        BY <1>go, <2>1, <3>2, OneStatus DEF Execute, Stored
      <3>5. HandleStatus[h] = "taken" /\ HandleStatus'[h] = "gone"
        BY <1>go, <2>1, <3>1, <3>3 DEF HandleStatus, Held, Execute, Stored
      <3>6. \A g \in Handles : Holds(w, g) <=> g = h
        BY <3>1 DEF Holds
      <3>7. runs' = [runs EXCEPT ![h] = runs[h] + 1]
        <4>1. runs' = [g \in Handles |-> runs[g] + IF g = h THEN 1 ELSE 0]
          BY <1>go, <3>6 DEF Execute
        <4>2. \A g \in Handles : runs[g] \in Nat /\ runs[g] + 0 = runs[g]
          BY <1>a DEF TypeOK
        <4>3. runs \in [Handles -> Nat]
          BY <1>a DEF TypeOK
        <4> HIDE DEF h
        <4> QED  BY <2>1, <4>1, <4>2, <4>3
      <3> QED  BY <2>1, <3>4, <3>5, <3>7 DEF C!Next, C!Run, C!Becomes
    <2>2. CASE h \notin Handles
      <3>1. \A g \in Handles : ~Holds(w, g)
        BY <2>2 DEF Holds
      <3>2. \A g \in Handles : Held(g)' <=> Held(g)
        BY <1>go, <1>a, <3>1 DEF Execute, Goto, Held, Holds, TypeOK
      <3>3. runs' = runs
        BY <1>go, <1>a, <3>1 DEF Execute, TypeOK
      <3> QED  BY <1>go, <3>2, <3>3, SameStatus DEF Execute, Stored
    <2> QED  BY <2>1, <2>2
  <1>en. ASSUME NEW w \in Workers, EndStep(w)
         PROVE  AbstractStep
    <2>1. \A h \in Handles : Held(h)' <=> Held(h)
      BY <1>en, <1>a DEF EndStep, Late, End, Return, Goto, Held, Holds, TypeOK
    <2> QED  BY <1>en, <2>1, SameStatus DEF EndStep, End, Stored
  <1>as. ASSUME NEW w \in Workers, AskInput(w)
         PROVE  AbstractStep
    <2>1. \A h \in Handles : Held(h)' <=> Held(h)
      BY <1>as, <1>a
         DEF AskInput, Running, PreparePause, Goto, Held, Holds, TypeOK
    <2> QED  BY <1>as, <2>1, SameStatus DEF AskInput, PreparePause, Stored
  <1>su. ASSUME NEW w \in Workers, NEW id \in Handles, SuspendStep(w, id)
         PROVE  AbstractStep
    <2>1. \A h \in Handles : Held(h)' <=> Held(h)
      BY <1>su, <1>a DEF SuspendStep, Held, Holds, TypeOK
    <2> QED  BY <1>su, <2>1, SameStatus DEF SuspendStep, Stored
  <1>si. ASSUME NEW w \in Workers, Sign(w)
         PROVE  AbstractStep
    <2>1. \A h \in Handles : Held(h)' <=> Held(h)
      BY <1>si, <1>a DEF Sign, Goto, Held, Holds, TypeOK
    <2> QED  BY <1>si, <2>1, SameStatus DEF Sign, Stored
  <1>pa. ASSUME NEW w \in Workers, StorePaused(w)
         PROVE  AbstractStep
    <2>0. PICK h \in Handles : h = pause[w].id
      BY <1>pa DEF StorePaused, IndInv, InHand, TypeOK
    <2>1. h \notin issued /\ ~Stored(table, h) /\ ~Held(h)
      BY <1>pa, <2>0 DEF StorePaused, IndInv, HandleInv, Late, Held
    <2>2. \A g \in Handles : Held(g)' <=> Held(g)
      BY <1>pa, <1>a DEF StorePaused, Return, Goto, Held, Holds, TypeOK
    <2>3. Stored(table, h)'
      BY <1>pa, <1>a, <2>0, RestoredEntry DEF StorePaused, Stored, TypeOK, State, PausePlan
    <2>4. HandleStatus' = [HandleStatus EXCEPT ![h] = HandleStatus'[h]]
      BY <1>pa, <1>a, <2>0, <2>2, OneStatus DEF StorePaused, Store, Stored, TypeOK
    <2>5. HandleStatus[h] = "unissued" /\ HandleStatus'[h] = "live"
      BY <2>1, <2>3 DEF HandleStatus, Held
    <2> QED
      BY <1>pa, <2>0, <2>4, <2>5 DEF StorePaused, C!Next, C!Issue, C!Becomes
  <1>ti. CASE Tick
    <2>1. \A h \in Handles : Stored(table, h)' => Stored(table, h)
      BY <1>ti DEF Tick, Aged, Stored
    <2>2. \A h \in Handles : Held(h)' <=> Held(h)
      BY <1>ti DEF Tick, Held, Holds
    <2> QED  BY <1>ti, <2>1, <2>2, ForgetStatus DEF Tick
  <1>to. CASE ToggleActive
    BY <1>to, SameStatus DEF ToggleActive, Stored, Held, Holds
  <1>rs. CASE Restart
    <2>1. \A h \in Handles : ~Stored(table, h)' /\ ~Held(h)'
      BY <1>rs DEF Restart, EmptyTable, Stored, Held, Holds
    <2> QED  BY <1>rs, <2>1, ForgetStatus DEF Restart
  <1>un. CASE UNCHANGED vars
    BY <1>un, SameStatus DEF vars, Stored, Held, Holds
  <1> HIDE DEF AbstractStep
  <1> QED
    BY <1>a, <1>st, <1>ex, <1>tk, <1>rt, <1>ld, <1>dr, <1>re, <1>go, <1>en, <1>as,
       <1>su, <1>si, <1>pa, <1>ti, <1>to, <1>rs, <1>un, StepShapes

(***************************************************************************)
(* The invocations implement one-shot continuations.                       *)
(***************************************************************************)
THEOREM Refinement == Spec => OneShotHandles
  <1>1. Init => C!Init
    BY DEF Init, C!Init, HandleStatus, EmptyTable, Stored, Holds
  <1> QED  BY Invariance, RefinesStep, <1>1, PTL DEF Spec, OneShotHandles, C!Spec
=============================================================================
