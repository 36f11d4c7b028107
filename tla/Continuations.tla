--------------------------- MODULE Continuations ---------------------------
(***************************************************************************)
(* What the engine promises about a handle it gives to a client: a         *)
(* continuation that can be run at most once.  A handle is issued once; a  *)
(* request takes it and either gives it back (the client's inputs were     *)
(* wrong), runs it, or drops it; time and restarts may forget it.  Nothing *)
(* brings a handle back once it is gone.                                   *)
(***************************************************************************)
EXTENDS Naturals

CONSTANT Handles

VARIABLES
    status, \* where each handle is in its life
    runs    \* how many executions were started from each handle

vars == <<status, runs>>

TypeOK ==
    /\ status \in [Handles -> {"unissued", "live", "taken", "gone"}]
    /\ runs \in [Handles -> Nat]

Init ==
    /\ status = [h \in Handles |-> "unissued"]
    /\ runs = [h \in Handles |-> 0]

Becomes(h, before, after) ==
    /\ status[h] = before
    /\ status' = [status EXCEPT ![h] = after]

Issue(h) == Becomes(h, "unissued", "live") /\ UNCHANGED runs

Take(h) == Becomes(h, "live", "taken") /\ UNCHANGED runs

GiveBack(h) == Becomes(h, "taken", "live") /\ UNCHANGED runs

Run(h) ==
    /\ Becomes(h, "taken", "gone")
    /\ runs' = [runs EXCEPT ![h] = @ + 1]

Drop(h) == Becomes(h, "taken", "gone") /\ UNCHANGED runs

\* Expiry of some live handles, a restart that loses live and taken ones, or a request
\* that presents a live one the wrong way.
Forget(S) ==
    /\ \A h \in S : status[h] \in {"live", "taken"}
    /\ status' = [h \in Handles |-> IF h \in S THEN "gone" ELSE status[h]]
    /\ UNCHANGED runs

Next ==
    \/ \E h \in Handles :
          Issue(h) \/ Take(h) \/ GiveBack(h) \/ Run(h) \/ Drop(h)
    \/ \E S \in SUBSET Handles : Forget(S)

Spec == Init /\ [][Next]_vars

\* A handle starts at most one execution, and never one it is still good for.
AtMostOneRun ==
    \A h \in Handles : runs[h] <= 1 /\ (runs[h] = 1 => status[h] = "gone")
============================================================================
