------------------------------ MODULE LDAPPool ------------------------------
(***************************************************************************)
(* The LDAP connection pool (steps/ldap.client.go) under the LDAP steps of *)
(* concurrent journeys.  A step takes an idle connection, or opens one     *)
(* while fewer than maxOpen are open, or waits for one until its context   *)
(* ends.  LDAPBind checks the credentials of a user on a connection of its *)
(* own, outside the pool.                                                  *)
(***************************************************************************)
EXTENDS Integers, Sequences, FiniteSets

CONSTANTS
    Requests,   \* goroutines that execute LDAP steps
    MaxOpen,    \* pool.max_open of the configuration
    MaxIdle,    \* pool.max_idle of the configuration
    Lifetime,   \* whether pool.max_lifetime_seconds is set
    Anonymous,  \* whether bind.method is empty, none or anonymous
    Urls,       \* the configured servers, in order
    Up,         \* those that answer
    None

\* NewLDAPClientPool: the limits that are used; a negative MaxIdle is refused.
maxOpen == IF MaxOpen <= 0 THEN 10 ELSE MaxOpen
maxIdle == IF MaxIdle = 0 \/ MaxIdle > maxOpen THEN maxOpen ELSE MaxIdle

ASSUME PoolAssumption ==
    /\ MaxOpen \in Int /\ MaxIdle \in Nat
    /\ Len(Urls) \in Nat \ {0}
    /\ Lifetime \in BOOLEAN /\ Anonymous \in BOOLEAN

\* Whom the pool binds on its connections.
Account == IF Anonymous THEN "nobody" ELSE "service"

VARIABLES
    idle,     \* the channel of idle connections
    open,     \* the counter of open connections
    nextID,   \* the next server, round robin
    req       \* what each goroutine is doing

vars == <<idle, open, nextID, req>>

(***************************************************************************)
(* A connection: who is bound on it, and whether it is past its lifetime.  *)
(* A request is at                                                         *)
(*   done     no step is executing                                         *)
(*   take     the first select of acquire                                  *)
(*   count    the lock of acquire                                          *)
(*   block    the second select                                            *)
(*   drop     about to discard an expired connection, then to try again    *)
(*   dial     dialling; tries counts the servers tried                     *)
(*   use      the operation is running on conn                             *)
(* op is "pool" for the operations on a pooled connection, "bind" for      *)
(* LDAPBind; over says that the context of the request has ended.          *)
(***************************************************************************)
Conn(who) == [who |-> who, expired |-> FALSE]
Conns == [who: {"nobody", "service", "user"}, expired: BOOLEAN]
Done == [at |-> "done", op |-> "pool", conn |-> None, tries |-> 0, over |-> FALSE]

ASSUME NoneAssumption == None \notin Conns

TypeOK ==
    /\ idle \in Seq(Conns) /\ Len(idle) <= maxIdle
    /\ open \in 0..maxOpen
    /\ nextID \in 0..(Len(Urls) - 1)
    /\ req \in [Requests -> [at: {"done", "take", "count", "block", "drop", "dial",
                                  "use"},
                             op: {"pool", "bind"}, conn: Conns \cup {None},
                             tries: 0..Len(Urls), over: BOOLEAN]]

Init ==
    /\ idle = <<>>
    /\ open = 0
    /\ nextID = 0
    /\ req = [r \in Requests |-> Done]

At(r, label) == req[r].at = label
Pooled(r) == req[r].op = "pool"
Becomes(r, s) == req' = [req EXCEPT ![r] = s]
Goto(r, label) == Becomes(r, [req[r] EXCEPT !.at = label])

-----------------------------------------------------------------------------

\* Search, Compare, Modify, Add, Delete and ModifyDN acquire a connection.
Start(r) ==
    /\ At(r, "done")
    /\ Becomes(r, [Done EXCEPT !.at = "take"])
    /\ UNCHANGED <<idle, open, nextID>>

\* Faulty Bind: it borrows a connection of the pool.
BindOnPool(r) ==
    /\ At(r, "done") /\ idle # <<>>
    /\ idle' = Tail(idle)
    /\ Becomes(r, [Done EXCEPT !.at = "use", !.conn = Conn("user")])
    /\ UNCHANGED <<open, nextID>>

\* Bind dials for itself.
Bind(r) ==
    /\ At(r, "done")
    /\ Becomes(r, [Done EXCEPT !.at = "dial", !.op = "bind"])
    /\ UNCHANGED <<idle, open, nextID>>

\* A connection comes out of the channel; an expired one is not used.
Receive(r) ==
    /\ idle # <<>>
    /\ idle' = Tail(idle)
    /\ Becomes(r, [req[r] EXCEPT !.conn = Head(idle),
                                 !.at = IF Head(idle).expired THEN "drop" ELSE "use"])
    /\ UNCHANGED <<open, nextID>>

\* The select with a default.
Take(r) ==
    /\ At(r, "take")
    /\ IF idle # <<>> THEN Receive(r)
       ELSE Goto(r, "count") /\ UNCHANGED <<idle, open, nextID>>

\* Faulty Reserve: the place is taken only when the connection is there.
ReserveLate(r) ==
    /\ At(r, "count")
    /\ IF open < maxOpen
       THEN Becomes(r, [req[r] EXCEPT !.at = "dial", !.tries = 0])
       ELSE Goto(r, "block")
    /\ UNCHANGED <<idle, nextID, open>>

\* Under the lock: a place for a new connection is reserved before dialling.
Reserve(r) ==
    /\ At(r, "count")
    /\ IF open < maxOpen
       THEN open' = open + 1 /\ Becomes(r, [req[r] EXCEPT !.at = "dial", !.tries = 0])
       ELSE UNCHANGED open /\ Goto(r, "block")
    /\ UNCHANGED <<idle, nextID>>

\* The select without a default: a connection, or the end of the context.
Wait(r) == At(r, "block") /\ Receive(r)

\* The wait ends with the context of the request.
GiveUp(r) ==
    /\ At(r, "block") /\ req[r].over
    /\ Becomes(r, Done)
    /\ UNCHANGED <<idle, open, nextID>>

\* Faulty Closed: the place of the connection stays taken.
ClosedOnly == open

\* discard closes the connection and gives its place back.
Closed == IF open > 0 THEN open - 1 ELSE open

Drop(r) ==
    /\ At(r, "drop")
    /\ open' = Closed
    /\ Becomes(r, [req[r] EXCEPT !.at = "take", !.conn = None])
    /\ UNCHANGED <<idle, nextID>>

\* The account of the pool is bound, if it has one.  If that fails the connection
\* is closed and its place given back.
ConfiguredBind(r) ==
    \/ /\ Becomes(r, [req[r] EXCEPT !.at = "use", !.conn = Conn(Account)])
       /\ UNCHANGED open
    \/ ~Anonymous /\ open' = open - 1 /\ Becomes(r, Done)

\* Bind binds the user and closes the connection, whatever the answer.
Connected(r) ==
    IF Pooled(r) THEN ConfiguredBind(r) ELSE Becomes(r, Done) /\ UNCHANGED open

\* One attempt of dial, at the server whose turn it is for all of them.
Dial(r) ==
    /\ At(r, "dial") /\ req[r].tries < Len(Urls) /\ ~req[r].over
    /\ nextID' = (nextID + 1) % Len(Urls)
    /\ IF Urls[nextID + 1] \in Up THEN Connected(r)
       ELSE UNCHANGED open /\ Becomes(r, [req[r] EXCEPT !.tries = @ + 1])
    /\ UNCHANGED idle

\* dial ran out of servers, or finds the context ended after it took a turn.
DialFails(r) ==
    /\ At(r, "dial")
    /\ \/ req[r].tries = Len(Urls) /\ UNCHANGED nextID
       \/ /\ req[r].tries < Len(Urls) /\ req[r].over
          /\ nextID' = (nextID + 1) % Len(Urls)
    /\ open' = IF Pooled(r) THEN open - 1 ELSE open
    /\ Becomes(r, Done)
    /\ UNCHANGED idle

\* The operation returns, with a result or an error, and releases the
\* connection without a look at its health: expired ones, and those the channel
\* has no room for, are discarded.
Release(r) ==
    /\ At(r, "use")
    /\ IF req[r].conn.expired \/ Len(idle) = maxIdle
       THEN open' = Closed /\ UNCHANGED idle
       ELSE idle' = Append(idle, req[r].conn) /\ UNCHANGED open
    /\ Becomes(r, Done)
    /\ UNCHANGED nextID

\* Time passes for the connections.
Expire ==
    /\ Lifetime
    /\ \/ \E i \in DOMAIN idle : ~idle[i].expired /\ idle' = [idle EXCEPT ![i].expired = TRUE]
                                 /\ UNCHANGED req
       \/ \E r \in Requests : /\ req[r].conn # None /\ ~req[r].conn.expired
                              /\ req' = [req EXCEPT ![r].conn.expired = TRUE]
                              /\ UNCHANGED idle
    /\ UNCHANGED <<open, nextID>>

\* The client goes away, or the deadline passes.
ContextEnds(r) ==
    /\ ~At(r, "done") /\ ~req[r].over
    /\ req' = [req EXCEPT ![r].over = TRUE]
    /\ UNCHANGED <<idle, open, nextID>>

Step(r) ==
    \/ Take(r) \/ Reserve(r) \/ GiveUp(r) \/ Drop(r) \/ Dial(r) \/ DialFails(r)
    \/ Release(r)

Next ==
    \/ \E r \in Requests : Start(r) \/ Bind(r) \/ Step(r) \/ Wait(r) \/ ContextEnds(r)
    \/ Expire

Spec == Init /\ [][Next]_vars

(***************************************************************************)
(* A goroutine that can go on does: dialling and operations have timeouts. *)
(* A goroutine that waits is served in turn, since Go queues the receivers *)
(* of a channel first come, first served: it is not passed over for ever.  *)
(* Nothing says that new steps are executed, that connections expire or    *)
(* that the context of a request ends.                                     *)
(***************************************************************************)
Fairness == \A r \in Requests : WF_vars(Step(r)) /\ SF_vars(Wait(r))
FairSpec == Spec /\ Fairness

-----------------------------------------------------------------------------
(***************************************************************************)
(* Properties.                                                             *)
(***************************************************************************)

\* The counter is the number of pooled connections there are or soon will be:
\* idle ones, those in use and those being opened or closed, over all failing
\* dials, failing binds, expiries and full channels.  So there are never more
\* than maxOpen, no place is lost, and no connection is counted off twice.
OpenIsExact ==
    /\ open <= maxOpen
    /\ open = Len(idle) + Cardinality({r \in Requests :
                    Pooled(r) /\ req[r].at \in {"drop", "dial", "use"}})

\* No operation of the pool runs on a connection that a user is bound on.
PoolIsService ==
    /\ \A i \in DOMAIN idle : idle[i].who = Account
    /\ \A r \in Requests : Pooled(r) /\ req[r].conn # None => req[r].conn.who = Account

\* The pool counts its connections exactly, and all of them are bound to its account, or
\* to nobody if it has none.
PoolIsSound == OpenIsExact /\ PoolIsService

\* A waiter nobody wakes: it waits although there is a place for a connection.
Stranded(r) == At(r, "block") /\ open < maxOpen

\* From some time on no more steps arrive.
NoneArrives == <>[][\A r \in Requests : At(r, "done") => At(r, "done")']_vars

\* When no more steps arrive, an LDAP step ends even if its context never does.
\* The one exception is a step that waits while a connection it could have got
\* is discarded: that gives the place back without waking anybody.
EndsOrStranded ==
    NoneArrives => \A r \in Requests : ~At(r, "done") ~> (At(r, "done") \/ Stranded(r))

\* Then a step whose context has ended comes to an end too, stranded or not.
CancelledEnds ==
    NoneArrives => \A r \in Requests : req[r].over ~> At(r, "done")

\* acquire: nobody waits for ever, up to the places that are given back silently, and
\* the end of the context always ends the wait.
WaitsEnd == EndsOrStranded /\ CancelledEnds
=============================================================================
