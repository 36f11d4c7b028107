---------------------------- MODULE SchedulerMC -----------------------------
(***************************************************************************)
(* Small instances of Scheduler for TLC.                                   *)
(***************************************************************************)
EXTENDS Scheduler, TLC

CONSTANTS a, b, c1, l1, l2, m1

Plan(kind, max) ==
    [active |-> TRUE, kind |-> kind, max |-> max, count |-> 0, next |-> FALSE,
     trigger |-> TRUE, running |-> FALSE]

OneId == {a}
TwoIds == {a, b}
OneCaller == {c1}
OneLoop == {l1}
TwoLoops == {l1, l2}
OneAdmin == {m1}
Nothing == {}

Symmetry == Permutations(TwoLoops)

\* An unlimited interval schedule; administrators turn it into a cron schedule,
\* limit it, or switch it off.
Unlimited == [id \in {a} |-> Plan("interval", 0)]
Edits == {Plan("cron", 0), [Plan("interval", 1) EXCEPT !.next = TRUE],
          [Plan("interval", 0) EXCEPT !.active = FALSE]}

\* a runs on the clock and asks for the result of b, a cron schedule; each of
\* them runs once.
PairOnce == a :> Plan("interval", 1) @@ b :> Plan("cron", 1)

\* a runs twice, and b has no timer: it runs when it is asked for.
PairOnDemand ==
    a :> Plan("interval", 2) @@ b :> [Plan("cron", 0) EXCEPT !.active = FALSE]
AUsesB == {<<a, b>>}

AllFaults == {"save", "panic", "restart"}
=============================================================================
