------------------------------- MODULE MCOutbox -------------------------------
(***************************************************************************)
(* An instance of Outbox for TLC: one message like any other, and one that *)
(* the relay never takes.                                                  *)
(***************************************************************************)
EXTENDS Outbox
CONSTANTS m1, m2, f1, f2
Two == {m1, m2}
Second == {m2}
TwoFlushes == {f1, f2}
===============================================================================
