---------------------------- MODULE InvocationMC ----------------------------
(***************************************************************************)
(* Small instances of Invocation for TLC.                                  *)
(***************************************************************************)
EXTENDS Invocation, TLC

CONSTANTS h1, h2, h3, h4, h5, h6, w1, w2, s1

MCHandles == {h1, h2, h3, h4, h5, h6}
MCWorkers == {w1, w2}
MCSessions == {s1}

ShortenOrExtend == {-1, 1}
=============================================================================
