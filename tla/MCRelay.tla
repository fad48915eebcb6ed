------------------------------- MODULE MCRelay -------------------------------
(***************************************************************************)
(* Instances of Relay for TLC, with the frame parser of its connections.   *)
(***************************************************************************)
EXTENDS Relay, WsFrames, TLC

CONSTANTS alice, bob

Members == {alice, bob}
Interchangeable == Permutations(Members)

(* The relay gets the messages of every connection it has registered as    *)
(* they were sent, however the network cuts their frames (relay.mjs:287,   *)
(* ws.mjs:101-191).                                                        *)
MessagesGetThrough ==
  \A h \in Handle : online[h] # Null => FramesAreRead
=============================================================================
