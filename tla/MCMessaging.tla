----------------------------- MODULE MCMessaging -----------------------------
(***************************************************************************)
(* Instances of Messaging for TLC.                                         *)
(***************************************************************************)
EXTENDS Messaging

CONSTANTS alice, bob, carol

Couple == {alice, bob}
Trio == {alice, bob, carol}
AliceFirst == {<<alice, bob>>}
BothFirst == {<<alice, bob>>, <<bob, alice>>}
TwoToBob == {<<alice, bob>>, <<carol, bob>>}
=============================================================================
