---------------------------- MODULE MCRatchetAwait ----------------------------
(***************************************************************************)
(* An instance of RatchetAwait for TLC: two calls of the app at once.      *)
(***************************************************************************)
EXTENDS RatchetAwait
CONSTANTS alice, bob, c1, c2
Couple == {alice, bob}
TwoCalls == {c1, c2}
===============================================================================
