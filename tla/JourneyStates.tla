--------------------------- MODULE JourneyStates ---------------------------
(***************************************************************************)
(* The server-side table of paused journey states (state.journey.go), kept *)
(* by default in a go-cache map guarded by one mutex.  The table is a      *)
(* function from handles (a token's jti or a resume id) to the stored      *)
(* state, None where nothing is stored.  Every operation runs under the    *)
(* mutex, so each is one step.                                             *)
(*                                                                         *)
(* Time is counted in ticks.  An entry carries the ticks it has left, and  *)
(* an entry whose time is over is the same as an absent one: go-cache      *)
(* hides it from Get before its janitor removes it.                        *)
(***************************************************************************)
EXTENDS Integers

CONSTANTS
    Handles,    \* what a client presents to continue: jtis and resume ids
    Sessions,   \* runs of a journey, from the start request to the last reply
    DefaultTTL, \* lifetime go-cache gives an entry stored with duration 0
    None        \* nothing: no entry, no handle, no session

ASSUME NoneAssumption == None \notin Handles /\ None \notin Sessions

ASSUME TTLAssumption == DefaultTTL \in Nat \ {0}

\* An entry that never expires (go-cache writes Expiration 0 for it).
Forever == -1

Kinds == {"token", "suspended"}

(***************************************************************************)
(* A stored state: how it was paused, whose it is, the Exp field of the    *)
(* JourneyState, the ticks until the target of the WaitUntil step it is    *)
(* paused in (0 when it is paused anywhere else), and the ticks it has     *)
(* left in the table.                                                      *)
(***************************************************************************)
Entry == [kind: Kinds, sess: Sessions, exp: Nat, wait: Nat,
          left: (Nat \ {0}) \cup {Forever}]

ASSUME NoneIsNoEntry == None \notin Entry

EmptyTable == [h \in Handles |-> None]

(***************************************************************************)
(* go-cache's Set: duration 0 asks for the default, any other duration     *)
(* that is not positive means that the entry never expires.                *)
(***************************************************************************)
CacheTTL(d) == IF d = 0 THEN DefaultTTL ELSE IF d > 0 THEN d ELSE Forever

Stored(table, h) == table[h] # None

\* Store(val, exp): the entry is written under the state's own id.
Store(table, h, kind, sess, exp, wait, d) ==
    [table EXCEPT ![h] = [kind |-> kind, sess |-> sess, exp |-> exp,
                          wait |-> wait, left |-> CacheTTL(d)]]

\* Faulty GetAndDelete: the entry is read and left where it is.
GetWithoutDelete(table, h) == table

\* The table after GetAndDelete(h) found an entry.
GetAndDelete(table, h) == [table EXCEPT ![h] = None]

\* Faulty Sooner: a wait that is over keeps counting.
SoonerUnbounded(n) == n - 1

\* The rest of a wait one tick later.
Sooner(n) == IF n > 0 THEN n - 1 ELSE 0

Older(e) ==
    [kind |-> e.kind, sess |-> e.sess, exp |-> e.exp, wait |-> Sooner(e.wait),
     left |-> IF e.left = Forever THEN Forever ELSE e.left - 1]

\* One tick later: an entry that runs out of time is gone.
Aged(table) ==
    [h \in Handles |->
        IF Stored(table, h) /\ table[h].left # 1 THEN Older(table[h]) ELSE None]
============================================================================
