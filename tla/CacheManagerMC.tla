--------------------------- MODULE CacheManagerMC ---------------------------
(***************************************************************************)
(* A small instance of CacheManager for TLC: a category of HTTP clients    *)
(* that the host limits, and the category of the regular-expression cache, *)
(* which has no factory.                                                   *)
(***************************************************************************)
EXTENDS CacheManager, TLC

CONSTANTS http, regexp, default, other, small, big, p1, p2

TwoKeys == {http, regexp}
TwoIds == {default, other}
UsedSlots == {<<http, default>>, <<http, other>>, <<regexp, default>>}
Ones == {1}
TwoBodies == {small, big}
Sizes == small :> 1 @@ big :> 2
TwoProcs == {p1, p2}
ThreeRecords == 1..3

Limited(n, size) ==
    [factory |-> "built-in", maxInstances |-> n, maxSize |-> size, user |-> FALSE]

\* Two instances fit, two big ones do not.
Boot == http :> Limited(2, 3) @@ regexp :> None
FromRegistry == http :> [Limited(0, 0) EXCEPT !.user = TRUE] @@ regexp :> NoConfig

\* The host lowers the limit, or takes the factory away.
Tightened == {<<http, Limited(1, 3)>>, <<http, [Limited(2, 3) EXCEPT !.factory = None]>>}

AllFaults == {"disk", "construct"}
Symmetry == Permutations(TwoProcs)

ASSUME CautiousHost == HostIsCautious
=============================================================================
