---------------------------- MODULE MCConnection ----------------------------
(***************************************************************************)
(* An instance of Connection for TLC.                                      *)
(***************************************************************************)
EXTENDS Connection
CONSTANTS w1, w2, w3
Three == {w1, w2, w3}
=============================================================================
