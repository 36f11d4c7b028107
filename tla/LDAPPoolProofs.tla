--------------------------- MODULE LDAPPoolProofs ---------------------------
(***************************************************************************)
(* Proofs about LDAPPool, for any number of requests and servers and any   *)
(* limits: the types, the exact count of connections, and the separation   *)
(* of the account of the pool from those of the users.                     *)
(***************************************************************************)
EXTENDS LDAPPool, FiniteSetTheorems, SequenceTheorems, TLAPS

\* The limits of a pool are numbers, and there is at least one place.
LEMMA Limits == maxOpen \in Nat \ {0} /\ maxIdle \in Nat
  BY PoolAssumption DEF maxOpen, maxIdle

-----------------------------------------------------------------------------
(***************************************************************************)
(* The inductive invariant.                                                *)
(***************************************************************************)

\* A request that is in possession of a place of the pool.
Holders == {r \in Requests : Pooled(r) /\ req[r].at \in {"drop", "dial", "use"}}

(***************************************************************************)
(* What a request has in hand at each point of a step: nothing before and  *)
(* after, a connection exactly while it uses or drops one; a Bind never    *)
(* gets a connection of the pool, as it only dials.                        *)
(***************************************************************************)
InHand ==
    \A r \in Requests :
        /\ req[r].at = "done" => req[r] = Done
        /\ req[r].op = "bind" => req[r].at = "dial"
        /\ req[r].conn # None <=> req[r].at \in {"drop", "use"}

\* The counter, together with the finiteness its cardinality needs.
Counted ==
    /\ IsFiniteSet(Holders)
    /\ open = Len(idle) + Cardinality(Holders)

IndInv == TypeOK /\ InHand /\ Counted /\ PoolIsService

-----------------------------------------------------------------------------
(***************************************************************************)
(* Types.                                                                  *)
(***************************************************************************)
Request == [at: {"done", "take", "count", "block", "drop", "dial", "use"},
            op: {"pool", "bind"}, conn: Conns \cup {None},
            tries: 0..Len(Urls), over: BOOLEAN]

\* Where a request has a place of the pool.
Place(s) == s.op = "pool" /\ s.at \in {"drop", "dial", "use"}

\* The fields of a request.
LEMMA Fields ==
    ASSUME NEW s \in Request
    PROVE  /\ s.at \in {"done", "take", "count", "block", "drop", "dial", "use"}
           /\ s.op \in {"pool", "bind"} /\ s.conn \in Conns \cup {None}
           /\ s.tries \in 0..Len(Urls) /\ s.over \in BOOLEAN
  BY DEF Request

\* The request of a goroutine that executes no step.
LEMMA DoneType == Done \in Request
  <1>1. 0 \in 0..Len(Urls)
    BY PoolAssumption
  <1> QED  BY <1>1 DEF Done, Request

\* Both new and expired connections are connections.
LEMMA ConnType ==
    /\ \A who \in {"nobody", "service", "user"} : Conn(who) \in Conns /\ Conn(who).who = who
    /\ \A c \in Conns : /\ [c EXCEPT !.expired = TRUE] \in Conns
                        /\ [c EXCEPT !.expired = TRUE].who = c.who
  BY DEF Conn, Conns

\* The first state satisfies the invariant.
LEMMA InvInit == Init => IndInv
  <1> SUFFICES ASSUME Init PROVE IndInv  OBVIOUS
  <1>1. TypeOK
    BY Limits, PoolAssumption, DoneType, EmptySeq DEF Init, TypeOK, Request
  <1>2. InHand
    BY DEF Init, InHand, Done
  <1>3. Holders = {}
    BY DEF Init, Holders, Pooled, Done
  <1>4. Counted
    BY <1>3, FS_EmptySet, EmptySeq DEF Init, Counted
  <1>5. PoolIsService
    BY DEF Init, PoolIsService, Done
  <1> QED  BY <1>1, <1>2, <1>4, <1>5 DEF IndInv

-----------------------------------------------------------------------------
(***************************************************************************)
(* A step of one request.                                                  *)
(***************************************************************************)

\* The places that are taken change by the one of the request that takes a step.
LEMMA HoldersChange ==
    ASSUME IndInv, NEW r \in Requests, NEW s \in Request, Becomes(r, s)
    PROVE  /\ IsFiniteSet(Holders')
           /\ Cardinality(Holders) \in Nat
           /\ Cardinality(Holders') = Cardinality(Holders) + (IF Place(s) THEN 1 ELSE 0)
                                      - (IF Place(req[r]) THEN 1 ELSE 0)
  <1>1. req \in [Requests -> Request] /\ IsFiniteSet(Holders)
    BY DEF IndInv, TypeOK, Counted, Request
  <1>2. req'[r] = s /\ \A q \in Requests \ {r} : req'[q] = req[q]
    BY <1>1 DEF Becomes
  <1>3. Place(req[r]) <=> r \in Holders
    BY DEF Holders, Place, Pooled
  <1>4. CASE Place(s)
    <2>1. Holders' = Holders \cup {r}
      BY <1>2, <1>4 DEF Holders, Place, Pooled
    <2> QED  BY <1>1, <1>3, <1>4, <2>1, FS_AddElement, FS_CardinalityType
  <1>5. CASE ~Place(s)
    <2>1. Holders' = Holders \ {r}
      BY <1>2, <1>5 DEF Holders, Place, Pooled
    <2> QED  BY <1>1, <1>3, <1>5, <2>1, FS_RemoveElement, FS_CardinalityType
  <1> QED  BY <1>4, <1>5

\* A request with a place means that the counter is positive.
LEMMA PlaceIsCounted ==
    ASSUME IndInv, NEW r \in Requests, Place(req[r])
    PROVE  open > Len(idle)
  <1>1. r \in Holders
    BY DEF Holders, Place, Pooled
  <1>2. Cardinality(Holders) \in Nat /\ Cardinality(Holders) # 0
    BY <1>1, FS_CardinalityType, FS_EmptySet DEF IndInv, Counted
  <1> QED  BY <1>2, LenProperties DEF IndInv, Counted, TypeOK

(***************************************************************************)
(* What a step has to respect: the request stays in order, the channel     *)
(* holds connections of the pool within its bound, and the counter follows *)
(* the channel and the place of the request.                               *)
(***************************************************************************)
LEMMA RequestStep ==
    ASSUME IndInv, NEW r \in Requests, NEW s \in Request, Becomes(r, s),
           s.at = "done" => s = Done,
           s.op = "bind" => s.at = "dial",
           s.conn # None <=> s.at \in {"drop", "use"},
           s.conn # None => s.conn.who = Account,
           idle' \in Seq(Conns), Len(idle') <= maxIdle,
           \A i \in DOMAIN idle' : idle'[i].who = Account,
           nextID' \in 0..(Len(Urls) - 1), open' <= maxOpen,
           open' = open + (Len(idle') - Len(idle)) + (IF Place(s) THEN 1 ELSE 0)
                   - (IF Place(req[r]) THEN 1 ELSE 0)
    PROVE  IndInv'
  <1>1. /\ req \in [Requests -> Request] /\ InHand /\ PoolIsService
        /\ open = Len(idle) + Cardinality(Holders) /\ idle \in Seq(Conns)
    BY DEF IndInv, TypeOK, Request, Counted
  <1>2. req' \in [Requests -> Request]
    BY <1>1 DEF Becomes
  <1>3. req'[r] = s /\ \A q \in Requests \ {r} : req'[q] = req[q]
    BY <1>1 DEF Becomes
  <1>4. Len(idle) \in Nat /\ Len(idle') \in Nat
    BY <1>1, LenProperties
  <1>5. Counted'
    <2>1. Cardinality(Holders') \in Nat /\ IsFiniteSet(Holders')
      BY HoldersChange, FS_CardinalityType
    <2>2. open' = Len(idle') + Cardinality(Holders')
      BY <1>1, <1>4, <2>1, HoldersChange
    <2> QED  BY <2>1, <2>2 DEF Counted
  <1>6. open' \in 0..maxOpen
    <2>1. Cardinality(Holders') \in Nat
      BY HoldersChange, FS_CardinalityType
    <2>2. open' = Len(idle') + Cardinality(Holders')
      BY <1>5 DEF Counted
    <2> QED  BY <1>4, <2>1, <2>2, Limits
  <1>7. TypeOK'
    BY <1>2, <1>6 DEF TypeOK, Request
  <1>8. InHand'
    BY <1>1, <1>3 DEF InHand
  <1>9. PoolIsService'
    BY <1>1, <1>3 DEF PoolIsService, Pooled
  <1> QED  BY <1>5, <1>7, <1>8, <1>9 DEF IndInv

-----------------------------------------------------------------------------
(***************************************************************************)
(* The steps, one by one.                                                  *)
(***************************************************************************)

\* What the invariant says of the state before a step, as the proofs below use it.
LEMMA Before ==
    ASSUME IndInv
    PROVE  /\ idle \in Seq(Conns) /\ Len(idle) \in Nat /\ Len(idle) <= maxIdle
           /\ open \in 0..maxOpen /\ nextID \in 0..(Len(Urls) - 1)
           /\ (nextID + 1) % Len(Urls) \in 0..(Len(Urls) - 1)
           /\ \A i \in DOMAIN idle : idle[i].who = Account
           /\ \A r \in Requests :
                /\ req[r] \in Request
                /\ req[r].at = "done" => req[r] = Done
                /\ req[r].op = "bind" => req[r].at = "dial"
                /\ req[r].conn # None <=> req[r].at \in {"drop", "use"}
                /\ req[r].conn # None => req[r].conn.who = Account
  <1>1. req \in [Requests -> Request] /\ idle \in Seq(Conns)
    BY DEF IndInv, TypeOK, Request
  <1>2. \A r \in Requests : req[r].conn # None => Pooled(r)
    BY <1>1, Fields DEF IndInv, InHand, Pooled
  <1>3. nextID \in 0..(Len(Urls) - 1) /\ (nextID + 1) % Len(Urls) \in 0..(Len(Urls) - 1)
    BY PoolAssumption DEF IndInv, TypeOK
  <1> QED  BY <1>1, <1>2, <1>3, LenProperties DEF IndInv, TypeOK, InHand, PoolIsService

\* Steps that leave the pool alone.
LEMMA QuietSteps ==
    ASSUME IndInv, NEW r \in Requests,
           Start(r) \/ Bind(r) \/ GiveUp(r) \/ ContextEnds(r)
             \/ (At(r, "take") /\ Goto(r, "count") /\ UNCHANGED <<idle, open, nextID>>)
    PROVE  IndInv'
  <1> USE Before
  <1>1. CASE Start(r) \/ Bind(r)
    <2>1. PICK s \in {[Done EXCEPT !.at = "take"], [Done EXCEPT !.at = "dial", !.op = "bind"]} :
              Becomes(r, s)
      BY <1>1 DEF Start, Bind
    <2>2. s \in Request /\ s.conn = None /\ s.at # "done" /\ ~Place(s)
          /\ (s.op = "bind" => s.at = "dial") /\ s.at \notin {"drop", "use"}
      BY DoneType DEF Request, Done, Place
    <2>3. ~Place(req[r]) /\ UNCHANGED <<idle, open, nextID>>
      BY <1>1 DEF Start, Bind, At, Place
    <2> QED  BY <2>1, <2>2, <2>3, RequestStep
  <1>2. CASE GiveUp(r)
    <2>1. Done.conn = None /\ Done.at = "done" /\ Done.op = "pool" /\ ~Place(Done)
      BY DEF Done, Place
    <2>2. ~Place(req[r]) /\ UNCHANGED <<idle, open, nextID>> /\ Becomes(r, Done)
      BY <1>2 DEF GiveUp, At, Place
    <2> QED  BY <2>1, <2>2, DoneType, RequestStep
  <1>3. CASE ContextEnds(r)
    <2> DEFINE s == [req[r] EXCEPT !.over = TRUE]
    <2>1. /\ s \in Request /\ s.at = req[r].at /\ s.op = req[r].op /\ s.conn = req[r].conn
      BY DEF Request
    <2>2. Becomes(r, s) /\ UNCHANGED <<idle, open, nextID>> /\ req[r].at # "done"
      BY <1>3 DEF ContextEnds, Becomes, At
    <2> HIDE DEF s
    <2>3. Place(s) <=> Place(req[r])
      BY <2>1 DEF Place
    <2> QED  BY <2>1, <2>2, <2>3, RequestStep
  <1>4. CASE At(r, "take") /\ Goto(r, "count") /\ UNCHANGED <<idle, open, nextID>>
    <2> DEFINE s == [req[r] EXCEPT !.at = "count"]
    <2>1. /\ s \in Request /\ s.at = "count" /\ s.op = req[r].op /\ s.conn = req[r].conn
      BY DEF Request
    <2>2. Becomes(r, s) /\ UNCHANGED <<idle, open, nextID>> /\ req[r].at = "take"
      BY <1>4 DEF Goto, At
    <2> HIDE DEF s
    <2> QED  BY <2>1, <2>2, RequestStep DEF Place
  <1> QED  BY <1>1, <1>2, <1>3, <1>4

\* A connection that comes out of the channel keeps its place in the counter.
LEMMA ReceiveStep ==
    ASSUME IndInv, NEW r \in Requests, At(r, "take") \/ At(r, "block"), Receive(r)
    PROVE  IndInv'
  <1> USE Before
  <1> DEFINE at == IF Head(idle).expired THEN "drop" ELSE "use"
             s == [req[r] EXCEPT !.conn = Head(idle), !.at = at]
  <1>1. /\ Head(idle) \in Conns /\ Head(idle).who = Account
        /\ idle' \in Seq(Conns) /\ Len(idle') = Len(idle) - 1
        /\ \A i \in DOMAIN idle' : idle'[i].who = Account
    BY HeadTailProperties, LenProperties DEF Receive
  <1>2. /\ Becomes(r, s) /\ UNCHANGED <<open, nextID>>
        /\ req[r].at \notin {"done", "drop", "dial", "use"} /\ req[r].op = "pool"
    BY Fields DEF Receive, At
  <1>3. at \in {"drop", "use"}
    OBVIOUS
  <1> HIDE DEF at
  <1>4. s \in Request /\ s.at = at /\ s.op = req[r].op /\ s.conn = Head(idle)
    BY <1>1, <1>3 DEF Request
  <1>5. Head(idle) # None
    BY <1>1, NoneAssumption
  <1> HIDE DEF s
  <1>6. Place(s) /\ ~Place(req[r])
    BY <1>2, <1>3, <1>4 DEF Place
  <1>7. /\ open' <= maxOpen /\ Len(idle') <= maxIdle
        /\ open' = open + (Len(idle') - Len(idle)) + (IF Place(s) THEN 1 ELSE 0)
                  - (IF Place(req[r]) THEN 1 ELSE 0)
    BY <1>1, <1>2, <1>6, Limits
  <1> QED  BY <1>1, <1>2, <1>3, <1>4, <1>5, <1>7, RequestStep

\* A place is reserved under the lock, and only if there is one.
LEMMA ReserveStep ==
    ASSUME IndInv, NEW r \in Requests, Reserve(r)
    PROVE  IndInv'
  <1> USE Before
  <1>1. req[r].at = "count" /\ req[r].op = "pool" /\ req[r].conn = None /\ UNCHANGED <<idle, nextID>>
    BY Fields DEF Reserve, At
  <1>2. CASE open < maxOpen
    <2> DEFINE s == [req[r] EXCEPT !.at = "dial", !.tries = 0]
    <2>1. s \in Request /\ s.at = "dial" /\ s.op = req[r].op /\ s.conn = req[r].conn
      <3>1. 0 \in 0..Len(Urls)
        BY PoolAssumption
      <3> QED  BY <3>1 DEF Request
    <2>2. Becomes(r, s) /\ open' = open + 1
      BY <1>2 DEF Reserve
    <2> HIDE DEF s
    <2>3. Place(s) /\ ~Place(req[r])
      BY <1>1, <2>1 DEF Place
    <2> QED  BY <1>1, <1>2, <2>1, <2>2, <2>3, RequestStep, Limits
  <1>3. CASE ~(open < maxOpen)
    <2> DEFINE s == [req[r] EXCEPT !.at = "block"]
    <2>1. s \in Request /\ s.at = "block" /\ s.op = req[r].op /\ s.conn = req[r].conn
      BY DEF Request
    <2>2. Becomes(r, s) /\ open' = open
      BY <1>3 DEF Reserve, Goto
    <2> HIDE DEF s
    <2>3. ~Place(s) /\ ~Place(req[r])
      BY <1>1, <2>1 DEF Place
    <2> QED  BY <1>1, <2>1, <2>2, <2>3, RequestStep
  <1> QED  BY <1>2, <1>3

\* Dropping an expired connection gives its place back.
LEMMA DropStep ==
    ASSUME IndInv, NEW r \in Requests, Drop(r)
    PROVE  IndInv'
  <1> USE Before
  <1> DEFINE s == [req[r] EXCEPT !.at = "take", !.conn = None]
  <1>1. req[r].at = "drop" /\ req[r].op = "pool" /\ UNCHANGED <<idle, nextID>>
    BY Fields DEF Drop, At
  <1>2. s \in Request /\ s.at = "take" /\ s.op = req[r].op /\ s.conn = None
    BY DEF Request
  <1>3. Becomes(r, s)
    BY DEF Drop
  <1> HIDE DEF s
  <1>4. ~Place(s) /\ Place(req[r])
    BY <1>1, <1>2 DEF Place
  <1>5. open' = open - 1
    BY <1>4, PlaceIsCounted, Limits DEF Drop, Closed
  <1>6. /\ open' <= maxOpen
        /\ open' = open + (Len(idle') - Len(idle)) + (IF Place(s) THEN 1 ELSE 0)
                  - (IF Place(req[r]) THEN 1 ELSE 0)
    BY <1>1, <1>4, <1>5, Limits
  <1> QED  BY <1>1, <1>2, <1>3, <1>6, RequestStep

\* The end of an operation: the request is done, and its place goes back to the
\* channel or to the counter.
LEMMA EndStep ==
    ASSUME IndInv, NEW r \in Requests, Becomes(r, Done),
           idle' \in Seq(Conns), Len(idle') <= maxIdle,
           \A i \in DOMAIN idle' : idle'[i].who = Account,
           nextID' \in 0..(Len(Urls) - 1),
           open' <= maxOpen,
           open' = open + (Len(idle') - Len(idle)) - (IF Place(req[r]) THEN 1 ELSE 0)
    PROVE  IndInv'
  <1>1. Done.conn = None /\ Done.at = "done" /\ Done.op = "pool" /\ ~Place(Done)
    BY DEF Done, Place
  <1>2. Len(idle) \in Nat /\ Len(idle') \in Nat /\ open \in 0..maxOpen
    BY Before, LenProperties
  <1>3. open' = open + (Len(idle') - Len(idle)) + (IF Place(Done) THEN 1 ELSE 0)
                     - (IF Place(req[r]) THEN 1 ELSE 0)
    BY <1>1, <1>2, Limits
  <1> QED  BY <1>1, <1>3, DoneType, RequestStep

\* A dial ends with a bound connection, with nothing, or goes on at the next server.
LEMMA DialStep ==
    ASSUME IndInv, NEW r \in Requests, Dial(r)
    PROVE  IndInv'
  <1> USE Before
  <1>1. /\ req[r].at = "dial" /\ req[r].conn = None /\ UNCHANGED idle
        /\ nextID' \in 0..(Len(Urls) - 1)
    BY DEF Dial, At
  <1>2. Place(req[r]) <=> Pooled(r)
    BY <1>1 DEF Place, Pooled
  <1>3. CASE Becomes(r, [req[r] EXCEPT !.tries = @ + 1]) /\ UNCHANGED open
    <2> DEFINE s == [req[r] EXCEPT !.tries = @ + 1]
    <2>1. req[r].tries + 1 \in 0..Len(Urls)
      BY PoolAssumption, Fields DEF Dial
    <2>2. s \in Request /\ s.at = "dial" /\ s.op = req[r].op /\ s.conn = req[r].conn
      BY <1>1, <2>1 DEF Request
    <2>3. Place(s) <=> Place(req[r])
      BY <1>1, <2>2 DEF Place
    <2>4. Becomes(r, s)
      BY <1>3
    <2> HIDE DEF s
    <2>5. /\ open' <= maxOpen
          /\ open' = open + (Len(idle') - Len(idle)) + (IF Place(s) THEN 1 ELSE 0)
                    - (IF Place(req[r]) THEN 1 ELSE 0)
      BY <1>1, <1>3, <2>3, Limits
    <2> QED  BY <1>1, <2>2, <2>4, <2>5, RequestStep
  <1>4. CASE /\ Pooled(r) /\ UNCHANGED open
             /\ Becomes(r, [req[r] EXCEPT !.at = "use", !.conn = Conn(Account)])
    <2> DEFINE s == [req[r] EXCEPT !.at = "use", !.conn = Conn(Account)]
    <2>1. Conn(Account) \in Conns /\ Conn(Account).who = Account /\ Conn(Account) # None
      BY ConnType, NoneAssumption DEF Account
    <2>2. s \in Request /\ s.at = "use" /\ s.op = req[r].op /\ s.conn = Conn(Account)
      BY <2>1 DEF Request
    <2>3. Becomes(r, s)
      BY <1>4
    <2> HIDE DEF s
    <2>4. Place(s) /\ Place(req[r]) /\ s.op = "pool"
      BY <1>2, <1>4, <2>2 DEF Place, Pooled
    <2> QED  BY <1>1, <1>4, <2>1, <2>2, <2>3, <2>4, RequestStep
  <1>5. CASE Becomes(r, Done) /\ open' = IF Pooled(r) THEN open - 1 ELSE open
    BY <1>1, <1>2, <1>5, EndStep, Limits
  <1> QED  BY <1>3, <1>4, <1>5 DEF Dial, Connected, ConfiguredBind

\* A dial that fails gives its place back.
LEMMA DialFailsStep ==
    ASSUME IndInv, NEW r \in Requests, DialFails(r)
    PROVE  IndInv'
  <1>1. req[r].at = "dial" /\ UNCHANGED idle /\ nextID' \in 0..(Len(Urls) - 1)
    BY Before DEF DialFails, At
  <1>2. Place(req[r]) <=> Pooled(r)
    BY <1>1 DEF Place, Pooled
  <1>3. Becomes(r, Done) /\ open' = IF Pooled(r) THEN open - 1 ELSE open
    BY DEF DialFails
  <1> QED  BY <1>1, <1>2, <1>3, EndStep, Before, Limits

\* A connection that is released goes to the channel or out of the counter.
LEMMA ReleaseStep ==
    ASSUME IndInv, NEW r \in Requests, Release(r)
    PROVE  IndInv'
  <1> USE Before
  <1>1. /\ req[r].at = "use" /\ req[r].op = "pool" /\ req[r].conn \in Conns
        /\ req[r].conn.who = Account /\ Place(req[r])
        /\ Becomes(r, Done) /\ UNCHANGED nextID
    BY Fields DEF Release, At, Place
  <1>2. CASE req[r].conn.expired \/ Len(idle) = maxIdle
    <2>1. UNCHANGED idle /\ open' = open - 1
      BY <1>1, <1>2, PlaceIsCounted, Limits DEF Release, Closed
    <2> QED  BY <1>1, <2>1, EndStep, Limits
  <1>3. CASE ~(req[r].conn.expired \/ Len(idle) = maxIdle)
    <2>1. idle' = Append(idle, req[r].conn) /\ UNCHANGED open
      BY <1>3 DEF Release
    <2>2. /\ idle' \in Seq(Conns) /\ Len(idle') = Len(idle) + 1
          /\ \A i \in DOMAIN idle' : idle'[i].who = Account
      BY <1>1, <2>1, AppendProperties, LenProperties
    <2>3. Len(idle') <= maxIdle
      BY <1>3, <2>2, Limits
    <2>4. open' = open + (Len(idle') - Len(idle)) - 1 /\ open' <= maxOpen
      BY <2>1, <2>2, Limits
    <2> QED  BY <1>1, <2>2, <2>3, <2>4, EndStep
  <1> QED  BY <1>2, <1>3

\* Connections that expire stay where they are.
LEMMA ExpireStep ==
    ASSUME IndInv, Expire
    PROVE  IndInv'
  <1> USE Before
  <1>1. UNCHANGED <<open, nextID>>
    BY DEF Expire
  <1>2. CASE \E i \in DOMAIN idle : /\ idle' = [idle EXCEPT ![i].expired = TRUE]
                                    /\ UNCHANGED req
    <2> PICK i \in DOMAIN idle : idle' = [idle EXCEPT ![i].expired = TRUE] /\ UNCHANGED req
      BY <1>2
    <2>1. /\ [idle[i] EXCEPT !.expired = TRUE] \in Conns
          /\ [idle[i] EXCEPT !.expired = TRUE].who = Account
      BY ConnType
    <2>2. idle' = [idle EXCEPT ![i] = [idle[i] EXCEPT !.expired = TRUE]]
      OBVIOUS
    <2>3. idle' \in Seq(Conns) /\ Len(idle') = Len(idle)
      BY <2>1, <2>2, ExceptSeq, LenProperties
    <2>4. \A k \in DOMAIN idle' : idle'[k].who = Account
      BY <2>1, <2>2
    <2>5. Holders' = Holders
      BY DEF Holders, Pooled
    <2> QED  BY <1>1, <2>3, <2>4, <2>5
             DEF IndInv, TypeOK, InHand, Counted, PoolIsService, Pooled
  <1>3. CASE \E r \in Requests : /\ req[r].conn # None
                                 /\ req' = [req EXCEPT ![r].conn.expired = TRUE]
                                 /\ UNCHANGED idle
    <2> PICK r \in Requests : /\ req[r].conn # None
                              /\ req' = [req EXCEPT ![r].conn.expired = TRUE]
                              /\ UNCHANGED idle
      BY <1>3
    <2> DEFINE c == [req[r].conn EXCEPT !.expired = TRUE]
               s == [req[r] EXCEPT !.conn = c]
    <2>1. c \in Conns /\ c.who = Account /\ c # None
      BY ConnType, NoneAssumption, Fields
    <2>2. Becomes(r, s)
      BY DEF Becomes
    <2> HIDE DEF c
    <2>3. s \in Request /\ s.at = req[r].at /\ s.op = req[r].op /\ s.conn = c
      BY <2>1 DEF Request
    <2> HIDE DEF s
    <2>4. Place(s) <=> Place(req[r])
      BY <2>3 DEF Place
    <2>5. req[r].at \in {"drop", "use"}
      OBVIOUS
    <2>6. /\ open' <= maxOpen
          /\ open' = open + (Len(idle') - Len(idle)) + (IF Place(s) THEN 1 ELSE 0)
                    - (IF Place(req[r]) THEN 1 ELSE 0)
      BY <1>1, <2>4, Limits
    <2> QED  BY <1>1, <2>1, <2>2, <2>3, <2>5, <2>6, RequestStep
  <1> QED  BY <1>2, <1>3 DEF Expire

-----------------------------------------------------------------------------
(***************************************************************************)
(* The theorems.                                                           *)
(***************************************************************************)

\* Every step keeps the invariant.
LEMMA InvStep == IndInv /\ [Next]_vars => IndInv'
  <1> SUFFICES ASSUME IndInv, [Next]_vars PROVE IndInv'  OBVIOUS
  <1>1. CASE UNCHANGED vars
    BY <1>1 DEF vars, IndInv, TypeOK, InHand, Counted, Holders, PoolIsService, Pooled
  <1>2. CASE Next
    <2>1. \A r \in Requests : Start(r) \/ Bind(r) \/ GiveUp(r) \/ ContextEnds(r) => IndInv'
      BY QuietSteps
    <2>2. \A r \in Requests : Take(r) \/ Wait(r) => IndInv'
      BY QuietSteps, ReceiveStep DEF Take, Wait
    <2>3. \A r \in Requests : Reserve(r) \/ Drop(r) => IndInv'
      BY ReserveStep, DropStep
    <2>4. \A r \in Requests : Dial(r) \/ DialFails(r) \/ Release(r) => IndInv'
      BY DialStep, DialFailsStep, ReleaseStep
    <2> QED  BY <1>2, <2>1, <2>2, <2>3, <2>4, ExpireStep DEF Next, Step
  <1> QED  BY <1>1, <1>2

\* The invariant is what the runs check: the counter within its limit, exact, and
\* all connections bound to the account of the pool.
LEMMA InvImplies == IndInv => TypeOK /\ PoolIsSound
  BY Before, Limits DEF IndInv, PoolIsSound, OpenIsExact, Counted, Holders

\* The pool stays within its types: the channel within maxIdle, the counter within
\* 0..maxOpen, for any limits, servers and number of goroutines.
THEOREM PoolTypeCorrect == Spec => []TypeOK
  BY InvInit, InvStep, InvImplies, PTL DEF Spec

\* Over all failing dials, failing binds, expiries, full channels and cancelled
\* requests, open is exactly the number of connections there are or soon will be, at
\* most maxOpen, and no connection of the pool is ever bound to a user.
THEOREM PoolAlwaysSound == Spec => []PoolIsSound
  BY InvInit, InvStep, InvImplies, PTL DEF Spec
=============================================================================
