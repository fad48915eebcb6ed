----------------------------- MODULE Negotiation -----------------------------
(***************************************************************************)
(* Two members agree on a direct connection (client/net/transport.js:      *)
(* getPeer, openChannel, _onSignal).  Every call of openChannel and every  *)
(* signal runs on its own and stops at its awaits; what it awaits is an    *)
(* operation of the browser's RTCPeerConnection, which carries them out    *)
(* one after the other in the order of the calls.  The relay forwards      *)
(* signals in order, or not at all.                                        *)
(*                                                                         *)
(* A description is known by its transport: the member that offered it     *)
(* first, and how often that member had rolled an offer back before.  Both *)
(* ends on one transport can talk.                                         *)
(***************************************************************************)
EXTENDS Naturals, Sequences

CONSTANTS
  Lesser, Greater,  \* two handles, in the order of their characters
  NoTransport,
  MaxOpens,         \* bound: calls of openChannel by each member
  MaxLost           \* bound: signals that do not arrive

Member == {Lesser, Greater}
Other(p) == CHOOSE q \in Member : q # p

IceTransport == Member \X Nat

ASSUME NegotiationAssumption ==
  /\ Lesser # Greater /\ NoTransport \notin IceTransport
  /\ MaxOpens \in Nat /\ MaxLost \in Nat

VARIABLES
  signaling,  \* signaling[p]: pc.signalingState
  pending,    \* pending[p]: the transport of the pending description, if any
  agreed,     \* agreed[p]: the transport both descriptions were agreed for
  rollbacks,  \* rollbacks[p]: how many offers of p were rolled back
  making,     \* making[p]: entry.makingOffer
  chain,      \* chain[p]: operations called and not carried out, each with the
              \* call that waits for it
  wire,       \* wire[p]: signals on their way to p
  opens,      \* opens[p]: how often openChannel was called
  lost,       \* how many signals did not arrive
  \* History, read by the properties only.
  retried,    \* members that called openChannel after the last loss
  wasted      \* wasted[p]: transports of the candidates that p refused

NegotiationVars ==
  <<signaling, pending, agreed, rollbacks, making, chain, wire, opens, lost,
    retried, wasted>>
pc == <<signaling, pending, agreed, rollbacks>>

Signal == [type : {"offer", "answer", "ice"}, on : IceTransport]

NegotiationTypeOK ==
  /\ signaling \in [Member -> {"stable", "have-local-offer", "have-remote-offer"}]
  /\ pending \in [Member -> IceTransport \cup {NoTransport}]
  /\ agreed \in [Member -> IceTransport \cup {NoTransport}]
  /\ \A p \in Member : (pending[p] = NoTransport) <=> (signaling[p] = "stable")
  /\ rollbacks \in [Member -> Nat] /\ making \in [Member -> BOOLEAN]
  /\ \A p \in Member : \A i \in DOMAIN wire[p] : wire[p][i] \in Signal
  /\ \A p \in Member : \A i \in DOMAIN chain[p] : chain[p][i].on \in IceTransport
  /\ opens \in [Member -> 0 .. MaxOpens] /\ lost \in 0 .. MaxLost

NegotiationInit ==
  /\ signaling = [p \in Member |-> "stable"]
  /\ pending = [p \in Member |-> NoTransport] /\ agreed = [p \in Member |-> NoTransport]
  /\ rollbacks = [p \in Member |-> 0] /\ making = [p \in Member |-> FALSE]
  /\ chain = [p \in Member |-> <<>>] /\ wire = [p \in Member |-> <<>>]
  /\ opens = [p \in Member |-> 0] /\ lost = 0 /\ retried = {} /\ wasted = [p \in Member |-> {}]

-----------------------------------------------------------------------------
\* The definitions named Bug... are not the code: each is a mistake that could
\* have been made at the definition that follows it, and breaks a property.
BugIsPolite(p) == TRUE

\* _isPolite
IsPolite(p) == p = Lesser

\* The transport a description made now is for.
Mine(p) == IF agreed[p] # NoTransport THEN agreed[p] ELSE <<p, rollbacks[p]>>

\* The call at the head of p's chain ends here, or goes on with an operation.
Ends(p) == chain' = [chain EXCEPT ![p] = Tail(@)]
GoesOn(p, op, on) == chain' = [chain EXCEPT ![p] = Append(Tail(@), [op |-> op, on |-> on])]

\* _signal the description, and onicecandidate for it.
Sends(p, type, on) ==
  wire' = [wire EXCEPT ![Other(p)] = @ \o <<[type |-> type, on |-> on], [type |-> "ice", on |-> on]>>]

SetState(p, state, on) ==
  /\ signaling' = [signaling EXCEPT ![p] = state]
  /\ pending' = [pending EXCEPT ![p] = on]

At(p, op) == chain[p] # <<>> /\ Head(chain[p]).op = op

-----------------------------------------------------------------------------
\* openChannel, up to the call of createOffer.
OpenChannel(p) ==
  /\ opens[p] < MaxOpens
  /\ opens' = [opens EXCEPT ![p] = @ + 1]
  /\ making' = [making EXCEPT ![p] = TRUE]
  /\ chain' = [chain EXCEPT ![p] = Append(@, [op |-> "createOffer", on |-> Mine(p)])]
  /\ retried' = retried \cup {p}
  /\ UNCHANGED <<pc, wire, lost, wasted>>

\* createOffer is refused while the other side's offer is unanswered; then
\* openChannel throws, and its `finally` clears makingOffer.
CreateOffer(p) ==
  /\ At(p, "createOffer")
  /\ \/ /\ signaling[p] # "have-remote-offer"
        /\ GoesOn(p, "setOffer", Mine(p)) /\ UNCHANGED making
     \/ /\ signaling[p] = "have-remote-offer"
        /\ Ends(p) /\ making' = [making EXCEPT ![p] = FALSE]
  /\ UNCHANGED <<pc, wire, opens, lost, retried, wasted>>

\* setLocalDescription with the offer, and openChannel to its end.
SetOffer(p) ==
  /\ At(p, "setOffer")
  /\ Ends(p) /\ making' = [making EXCEPT ![p] = FALSE]
  /\ LET on == Head(chain[p]).on
     IN \/ /\ signaling[p] # "have-remote-offer"
           /\ SetState(p, "have-local-offer", on)
           /\ Sends(p, "offer", on)
        \/ /\ signaling[p] = "have-remote-offer"
           /\ UNCHANGED <<signaling, pending, wire>>
  /\ UNCHANGED <<agreed, rollbacks, opens, lost, retried, wasted>>

-----------------------------------------------------------------------------
\* _onSignal, up to its first operation on the connection.
Collision(p) == making[p] \/ signaling[p] # "stable"

BugFirstOperation(p, m) ==
  CASE m.type = "ice"    -> <<[op |-> "addIce", on |-> m.on]>>
    [] m.type = "answer" -> <<[op |-> "setAnswered", on |-> m.on]>>
    [] m.type = "offer"  -> <<[op |-> "setOffered", on |-> m.on]>>

\* What _onSignal calls first, nothing for an offer that is ignored.
FirstOperation(p, m) ==
  CASE m.type = "ice"    -> <<[op |-> "addIce", on |-> m.on]>>
    [] m.type = "answer" -> <<[op |-> "setAnswered", on |-> m.on]>>
    [] m.type = "offer"  ->
         IF ~Collision(p) THEN <<[op |-> "setOffered", on |-> m.on]>>
         ELSE IF IsPolite(p) THEN <<[op |-> "rollback", on |-> m.on]>>
         ELSE <<>>

OnSignal(p) ==
  /\ wire[p] # <<>>
  /\ wire' = [wire EXCEPT ![p] = Tail(@)]
  /\ chain' = [chain EXCEPT ![p] = @ \o FirstOperation(p, Head(wire[p]))]
  /\ UNCHANGED <<pc, making, opens, lost, retried, wasted>>

\* The signal does not arrive: its recipient was not connected to the relay.
LoseSignal(p) ==
  /\ wire[p] # <<>> /\ lost < MaxLost
  /\ wire' = [wire EXCEPT ![p] = Tail(@)]
  /\ lost' = lost + 1 /\ retried' = {}
  /\ UNCHANGED <<pc, making, chain, opens, wasted>>

\* An offer of p's own that is pending is given up.
RolledBack(p) ==
  rollbacks' = IF signaling[p] = "have-local-offer" THEN [rollbacks EXCEPT ![p] = @ + 1]
                                                     ELSE rollbacks

BugRollback(p) ==
  /\ At(p, "rollback")
  /\ signaling' = [signaling EXCEPT ![p] = "stable"] /\ RolledBack(p)
  /\ GoesOn(p, "setOffered", Head(chain[p]).on)
  /\ UNCHANGED <<pending, agreed, making, wire, opens, lost, retried, wasted>>

\* setLocalDescription with a rollback.  In the stable state it is refused, and
\* the handler's catch goes on all the same.
Rollback(p) ==
  /\ At(p, "rollback")
  /\ SetState(p, "stable", NoTransport) /\ RolledBack(p)
  /\ GoesOn(p, "setOffered", Head(chain[p]).on)
  /\ UNCHANGED <<agreed, making, wire, opens, lost, retried, wasted>>

\* setRemoteDescription with an offer, which rolls back an offer of p's own.
SetOffered(p) ==
  /\ At(p, "setOffered")
  /\ SetState(p, "have-remote-offer", Head(chain[p]).on) /\ RolledBack(p)
  /\ GoesOn(p, "createAnswer", Head(chain[p]).on)
  /\ UNCHANGED <<agreed, making, wire, opens, lost, retried, wasted>>

\* createAnswer, and setLocalDescription with it: both are refused unless an
\* offer is waiting, and then _onSignal throws.
CreateAnswer(p) ==
  /\ At(p, "createAnswer")
  /\ IF signaling[p] = "have-remote-offer" THEN GoesOn(p, "setAnswer", pending[p]) ELSE Ends(p)
  /\ UNCHANGED <<pc, making, wire, opens, lost, retried, wasted>>

SetAnswer(p) ==
  /\ At(p, "setAnswer")
  /\ Ends(p)
  /\ \/ /\ signaling[p] = "have-remote-offer"
        /\ SetState(p, "stable", NoTransport)
        /\ agreed' = [agreed EXCEPT ![p] = pending[p]]
        /\ Sends(p, "answer", pending[p])
     \/ /\ signaling[p] # "have-remote-offer"
        /\ UNCHANGED <<signaling, pending, agreed, wire>>
  /\ UNCHANGED <<rollbacks, making, opens, lost, retried, wasted>>

\* setRemoteDescription with an answer, refused unless an offer is out.
SetAnswered(p) ==
  /\ At(p, "setAnswered")
  /\ Ends(p)
  /\ \/ /\ signaling[p] = "have-local-offer"
        /\ SetState(p, "stable", NoTransport)
        /\ agreed' = [agreed EXCEPT ![p] = pending[p]]
     \/ /\ signaling[p] # "have-local-offer"
        /\ UNCHANGED <<signaling, pending, agreed>>
  /\ UNCHANGED <<rollbacks, making, wire, opens, lost, retried, wasted>>

\* addIceCandidate, refused without a remote description of its transport.
AddIce(p) ==
  /\ At(p, "addIce")
  /\ Ends(p)
  /\ LET on == Head(chain[p]).on
         known == agreed[p] = on \/ (signaling[p] = "have-remote-offer" /\ pending[p] = on)
     IN wasted' = IF known THEN wasted ELSE [wasted EXCEPT ![p] = @ \cup {on}]
  /\ UNCHANGED <<pc, making, wire, opens, lost, retried>>

NegotiationNext ==
  \E p \in Member :
    \/ OpenChannel(p) \/ CreateOffer(p) \/ SetOffer(p)
    \/ OnSignal(p) \/ LoseSignal(p) \/ Rollback(p) \/ SetOffered(p)
    \/ CreateAnswer(p) \/ SetAnswer(p) \/ SetAnswered(p) \/ AddIce(p)

NegotiationSpec == NegotiationInit /\ [][NegotiationNext]_NegotiationVars

-----------------------------------------------------------------------------
Quiet == \A p \in Member : chain[p] = <<>> /\ wire[p] = <<>>

Agreed == agreed[Lesser] = agreed[Greater] /\ agreed[Lesser] # NoTransport

(* However offers, answers and a few calls of openChannel cross, once all  *)
(* is quiet both ends are on one and the same transport, and nothing is    *)
(* left half made; if a signal was lost, once the member that does not     *)
(* yield has tried again (transport.js:107-110, 154-193).  It takes five   *)
(* calls by that member and two by the other, all before the first answer, *)
(* for the two to end on different transports.                             *)
GlareResolves ==
  (Quiet /\ (Greater \in retried \/ (lost = 0 /\ Lesser \in retried))) =>
    /\ Agreed
    /\ \A p \in Member : ~making[p] /\ signaling[p] # "have-remote-offer"

(* A member that tries again after a signal was lost gets its connection,  *)
(* whichever of the two it is (transport.js:248, "failure is not fatal").  *)
RetryAgrees == (Quiet /\ retried # {}) => Agreed

(* No offer is left without an answer once all is quiet                    *)
(* (transport.js:170-187).                                                 *)
OffersAreAnswered ==
  (Quiet /\ lost = 0) => \A p \in Member : signaling[p] = "stable"

(* Candidates for the transport both end up on are not thrown away         *)
(* (transport.js:188-191).                                                 *)
CandidatesAreTaken ==
  (Quiet /\ Agreed) => \A p \in Member : agreed[p] \notin wasted[p]
===============================================================================
