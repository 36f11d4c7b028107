----------------------------- MODULE LDAPPoolMC -----------------------------
(***************************************************************************)
(* A small instance of LDAPPool for TLC: three steps share two places, one *)
(* of two servers is down.                                                 *)
(***************************************************************************)
EXTENDS LDAPPool

CONSTANTS r1, r2, r3, u1, u2

ThreeRequests == {r1, r2, r3}
TwoUrls == <<u1, u2>>
OneUp == {u2}
=============================================================================
