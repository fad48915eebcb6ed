--------------------------- MODULE MCRatchetSession ---------------------------
(***************************************************************************)
(* Instances of RatchetSession for TLC.  A bound on messages is a pair:    *)
(* what the initiator may encrypt, and what the responder may.             *)
(***************************************************************************)
EXTENDS RatchetSession

CONSTANTS alice, bob

Couple == {alice, bob}
Sends(a, b) == [p \in Member |-> IF p = Initiator THEN a ELSE b]
Burst == Sends(3, 1)
Dialogue == Sends(2, 2)
LongBurst == Sends(4, 0)
=============================================================================
