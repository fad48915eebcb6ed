----------------------------- MODULE MCRelayMail -----------------------------
(***************************************************************************)
(* Instances of RelayMail for TLC.  The recipients are interchangeable.    *)
(***************************************************************************)
EXTENDS RelayMail, TLC

CONSTANTS alice, bob

MCHandle == {alice, bob}

Recipients == Permutations(MCHandle)
=============================================================================
