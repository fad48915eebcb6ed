---------------------------- MODULE TransportProofs ----------------------------
(***************************************************************************)
(* What holds of the three sides of a Transport that have a module each,   *)
(* for any bounds.                                                         *)
(*                                                                         *)
(* Negotiation, for any number of calls and lost signals: a description is *)
(* pending exactly while its end is not stable.  What the chain and the    *)
(* wire hold is of the right kind, since each operation is called with the *)
(* transport of a description that was there.                              *)
(*                                                                         *)
(* Connection, for any number of sockets, restarts of the transport and    *)
(* outages: the app never gives up.  The transport in use is not stopped,  *)
(* so each close of its socket leaves a timer, and a timer that fires      *)
(* finds a socket or begins to connect.                                    *)
(*                                                                         *)
(* Outbox, for any messages, any number of flushes at once and any number  *)
(* of mishaps.  That nothing is forgotten rests on Answered: what a flush  *)
(* takes out of the outbox is with the relay, or too large for it.  That   *)
(* repeats have a reason rests on three facts about a message without one: *)
(* it is with one flush at most (OneFlush), with none while its own call   *)
(* goes on (Apart), and once the relay has it, no call and no flush will   *)
(* post it again (OnceIsEnough).                                           *)
(***************************************************************************)
EXTENDS Negotiation, Connection, Outbox, TLAPS

\* An operation that waits on a connection, with the transport it is about.
Op == {"createOffer", "setOffer", "setOffered", "createAnswer", "setAnswer", "setAnswered",
       "rollback", "addIce"}
Operation == [op : Op, on : IceTransport]

\* NegotiationTypeOK, in parts.
Descriptions ==
  /\ signaling \in [Member -> {"stable", "have-local-offer", "have-remote-offer"}]
  /\ pending \in [Member -> IceTransport \cup {NoTransport}]
  /\ agreed \in [Member -> IceTransport \cup {NoTransport}]
  /\ \A p \in Member : (pending[p] = NoTransport) <=> (signaling[p] = "stable")
  /\ rollbacks \in [Member -> Nat]

Counts ==
  making \in [Member -> BOOLEAN] /\ opens \in [Member -> 0 .. MaxOpens] /\ lost \in 0 .. MaxLost

NegotiationInv ==
  /\ Descriptions /\ Counts
  /\ chain \in [Member -> Seq(Operation)] /\ wire \in [Member -> Seq(Signal)]

LEMMA NegotiationStarts == NegotiationInit => NegotiationInv
<1> SUFFICES ASSUME NegotiationInit PROVE NegotiationInv
  OBVIOUS
<1>1. <<>> \in Seq(Operation) /\ <<>> \in Seq(Signal)
  OBVIOUS
<1>2. making \in [Member -> BOOLEAN]
  BY Zenon DEF NegotiationInit
<1>3. Descriptions
  BY DEF NegotiationInit, Descriptions
<1>4. opens \in [Member -> 0 .. MaxOpens] /\ lost \in 0 .. MaxLost
  BY NegotiationAssumption DEF NegotiationInit
<1> QED
  BY <1>1, <1>2, <1>3, <1>4 DEF NegotiationInit, NegotiationInv, Counts

LEMMA Others == \A p \in Member : Other(p) \in Member
BY NegotiationAssumption DEF Other, Member

\* The operation at the head of a chain is about a transport; the call ends
\* there, or goes on.
LEMMA Chains ==
  ASSUME NegotiationInv, NEW p \in Member, chain[p] # <<>>
  PROVE  /\ Head(chain[p]).on \in IceTransport
         /\ Ends(p) => chain' \in [Member -> Seq(Operation)]
         /\ \A op \in Op, on \in IceTransport :
              GoesOn(p, op, on) => chain' \in [Member -> Seq(Operation)]
<1>1. chain \in [Member -> Seq(Operation)] /\ chain[p] \in Seq(Operation)
  BY DEF NegotiationInv
<1>2. Head(chain[p]) \in Operation /\ Tail(chain[p]) \in Seq(Operation)
  BY <1>1
<1>3. Head(chain[p]).on \in IceTransport
  BY <1>2 DEF Operation
<1>4. Ends(p) => chain' \in [Member -> Seq(Operation)]
  BY <1>1, <1>2 DEF Ends
<1>5. ASSUME NEW op \in Op, NEW on \in IceTransport, GoesOn(p, op, on)
      PROVE  chain' \in [Member -> Seq(Operation)]
  <2> DEFINE next == [op |-> op, on |-> on]
  <2>1. next \in Operation
    BY DEF Operation
  <2>2. chain' = [chain EXCEPT ![p] = Append(Tail(@), next)]
    BY <1>5 DEF GoesOn
  <2> HIDE DEF next
  <2>3. Append(Tail(chain[p]), next) \in Seq(Operation)
    BY <1>2, <2>1
  <2> QED
    BY <1>1, <2>2, <2>3
<1> QED
  BY <1>3, <1>4, <1>5

\* What a member signals is a signal.
LEMMA Wires ==
  ASSUME NegotiationInv, NEW p \in Member, NEW type \in {"offer", "answer"},
         NEW on \in IceTransport, Sends(p, type, on)
  PROVE  wire' \in [Member -> Seq(Signal)]
<1> DEFINE two == <<[type |-> type, on |-> on], [type |-> "ice", on |-> on]>>
<1>1. two \in Seq(Signal)
  BY DEF Signal
<1>2. wire' = [wire EXCEPT ![Other(p)] = @ \o two] /\ wire \in [Member -> Seq(Signal)]
  BY DEF Sends, NegotiationInv
<1> HIDE DEF two
<1>3. \A s \in Seq(Signal) : s \o two \in Seq(Signal)
  BY <1>1
<1> QED
  BY <1>2, <1>3, Others

\* A state and a pending description that go together.
LEMMA Described ==
  ASSUME Descriptions, NEW p \in Member, NEW state, NEW on, SetState(p, state, on),
         \/ state = "stable" /\ on = NoTransport
         \/ state \in {"have-local-offer", "have-remote-offer"} /\ on \in IceTransport,
         agreed' \in [Member -> IceTransport \cup {NoTransport}], rollbacks' \in [Member -> Nat]
  PROVE  Descriptions'
<1>1. /\ signaling' = [signaling EXCEPT ![p] = state] /\ pending' = [pending EXCEPT ![p] = on]
      /\ NoTransport \notin IceTransport
  BY NegotiationAssumption DEF SetState
<1> QED
  BY <1>1 DEF Descriptions

LEMMA Undescribed ==
  ASSUME Descriptions, UNCHANGED <<signaling, pending, agreed, rollbacks>>
  PROVE  Descriptions'
BY DEF Descriptions

LEMMA RollsBack ==
  ASSUME Descriptions, NEW p \in Member, RolledBack(p)
  PROVE  rollbacks' \in [Member -> Nat]
BY DEF Descriptions, RolledBack

\* One step of a member, operation by operation.
LEMMA OpenChannelKeeps ==
  ASSUME NegotiationInv, NEW p \in Member, OpenChannel(p)
  PROVE  NegotiationInv'
<1> DEFINE next == [op |-> "createOffer", on |-> Mine(p)]
<1>1. next \in Operation
  <2>1. Mine(p) \in IceTransport
    BY DEF Mine, NegotiationInv, Descriptions, IceTransport
  <2> QED
    BY <2>1 DEF Operation, Op
<1>2. /\ chain' = [chain EXCEPT ![p] = Append(@, next)] /\ UNCHANGED <<pc, wire, lost>>
      /\ opens[p] < MaxOpens /\ opens' = [opens EXCEPT ![p] = @ + 1]
  BY DEF OpenChannel
<1> HIDE DEF next
<1>3. making' \in [Member -> BOOLEAN]
  BY Zenon DEF OpenChannel, NegotiationInv, Counts
<1>4. chain' \in [Member -> Seq(Operation)]
  <2>1. \A s \in Seq(Operation) : Append(s, next) \in Seq(Operation)
    BY <1>1
  <2> QED
    BY <1>2, <2>1 DEF NegotiationInv
<1>5. opens' \in [Member -> 0 .. MaxOpens]
  BY <1>2, NegotiationAssumption DEF NegotiationInv, Counts
<1> QED
  BY <1>2, <1>3, <1>4, <1>5, Undescribed DEF NegotiationInv, Counts, pc

LEMMA OfferKeeps ==
  ASSUME NegotiationInv, NEW p \in Member, CreateOffer(p) \/ SetOffer(p)
  PROVE  NegotiationInv'
<1>1. making' \in [Member -> BOOLEAN]
  <2>1. making' = making \/ making' = [making EXCEPT ![p] = FALSE]
    BY DEF CreateOffer, SetOffer
  <2> QED
    BY <2>1, Zenon DEF NegotiationInv, Counts
<1>2. Mine(p) \in IceTransport
  BY DEF Mine, NegotiationInv, Descriptions, IceTransport
<1>3. chain' \in [Member -> Seq(Operation)] /\ Head(chain[p]).on \in IceTransport
  <2>1. chain[p] # <<>> /\ (Ends(p) \/ GoesOn(p, "setOffer", Mine(p)))
    BY DEF CreateOffer, SetOffer, At
  <2> QED
    BY <1>2, <2>1, Chains DEF Op
<1>4. UNCHANGED <<opens, lost>>
  BY DEF CreateOffer, SetOffer
<1>5. CASE UNCHANGED <<signaling, pending, agreed, rollbacks, wire>>
  BY <1>1, <1>3, <1>4, <1>5, Undescribed DEF NegotiationInv, Counts
<1>6. CASE ~UNCHANGED <<signaling, pending, agreed, rollbacks, wire>>
  <2>1. /\ SetState(p, "have-local-offer", Head(chain[p]).on)
        /\ Sends(p, "offer", Head(chain[p]).on) /\ UNCHANGED <<agreed, rollbacks>>
    BY <1>6 DEF CreateOffer, SetOffer, pc
  <2>2. Descriptions'
    BY <1>3, <2>1, Described DEF NegotiationInv, Descriptions
  <2>3. wire' \in [Member -> Seq(Signal)]
    BY <1>3, <2>1, Wires
  <2> QED
    BY <1>1, <1>3, <1>4, <2>2, <2>3 DEF NegotiationInv, Counts
<1> QED
  BY <1>5, <1>6

\* A signal is taken off the wire, and calls one operation at most.
LEMMA SignalKeeps ==
  ASSUME NegotiationInv, NEW p \in Member, OnSignal(p) \/ LoseSignal(p)
  PROVE  NegotiationInv'
<1> DEFINE first == FirstOperation(p, Head(wire[p]))
<1>1. /\ wire[p] # <<>> /\ wire' = [wire EXCEPT ![p] = Tail(@)]
      /\ UNCHANGED <<signaling, pending, agreed, rollbacks, making, opens>>
      /\ chain' = chain \/ chain' = [chain EXCEPT ![p] = @ \o first]
      /\ lost' = lost \/ (lost < MaxLost /\ lost' = lost + 1)
  BY DEF OnSignal, LoseSignal, pc
<1>2. Head(wire[p]) \in Signal /\ wire' \in [Member -> Seq(Signal)]
  BY <1>1 DEF NegotiationInv
<1>3. first \in Seq(Operation)
  <2>1. PICK m \in Signal : m = Head(wire[p])
    BY <1>2
  <2>2. /\ m.type \in {"offer", "answer", "ice"} /\ m.on \in IceTransport
    BY DEF Signal
  <2>3. \A op \in Op : <<[op |-> op, on |-> m.on]>> \in Seq(Operation)
    BY <2>2 DEF Operation
  <2>4. \/ FirstOperation(p, m) = <<>>
        \/ \E op \in {"addIce", "setAnswered", "setOffered", "rollback"} :
             FirstOperation(p, m) = <<[op |-> op, on |-> m.on]>>
    BY <2>2, Zenon DEF FirstOperation
  <2>5. <<>> \in Seq(Operation)
    OBVIOUS
  <2> QED
    BY <2>1, <2>3, <2>4, <2>5 DEF Op
<1> HIDE DEF first
<1>4. chain' \in [Member -> Seq(Operation)]
  <2>1. \A s \in Seq(Operation) : s \o first \in Seq(Operation)
    BY <1>3
  <2> QED
    BY <1>1, <2>1 DEF NegotiationInv
<1>5. lost' \in 0 .. MaxLost
  BY <1>1, NegotiationAssumption DEF NegotiationInv, Counts
<1> QED
  BY <1>1, <1>2, <1>4, <1>5, Undescribed DEF NegotiationInv, Counts

\* A rollback, and an offer that is taken.
LEMMA OfferedKeeps ==
  ASSUME NegotiationInv, NEW p \in Member, Rollback(p) \/ SetOffered(p)
  PROVE  NegotiationInv'
<1>1. /\ chain[p] # <<>> /\ RolledBack(p) /\ UNCHANGED <<agreed, making, wire, opens, lost>>
      /\ \E op \in {"setOffered", "createAnswer"} : GoesOn(p, op, Head(chain[p]).on)
      /\ \/ SetState(p, "stable", NoTransport)
         \/ SetState(p, "have-remote-offer", Head(chain[p]).on)
  BY DEF Rollback, SetOffered, At
<1>2. Head(chain[p]).on \in IceTransport /\ chain' \in [Member -> Seq(Operation)]
  BY <1>1, Chains DEF Op
<1>3. Descriptions
  BY DEF NegotiationInv
<1>4. rollbacks' \in [Member -> Nat] /\ agreed' \in [Member -> IceTransport \cup {NoTransport}]
  BY <1>1, <1>3, RollsBack DEF Descriptions
<1>5. Descriptions'
  BY <1>1, <1>2, <1>3, <1>4, Described
<1> QED
  BY <1>1, <1>2, <1>5 DEF NegotiationInv, Counts

\* The answer is made, and set at either end.
LEMMA AnswerKeeps ==
  ASSUME NegotiationInv, NEW p \in Member, CreateAnswer(p) \/ SetAnswer(p) \/ SetAnswered(p)
  PROVE  NegotiationInv'
<1>1. Descriptions /\ UNCHANGED <<rollbacks, making, opens, lost>> /\ chain[p] # <<>>
  BY DEF NegotiationInv, CreateAnswer, SetAnswer, SetAnswered, At, pc
<1>2. signaling[p] # "stable" => pending[p] \in IceTransport
  BY <1>1 DEF Descriptions
<1>3. chain' \in [Member -> Seq(Operation)]
  <2>1. Ends(p) \/ (signaling[p] # "stable" /\ GoesOn(p, "setAnswer", pending[p]))
    BY DEF CreateAnswer, SetAnswer, SetAnswered
  <2> QED
    BY <1>1, <1>2, <2>1, Chains DEF Op
<1>4. CASE UNCHANGED <<signaling, pending, agreed, wire>>
  BY <1>1, <1>3, <1>4, Undescribed DEF NegotiationInv, Counts
<1>5. CASE ~UNCHANGED <<signaling, pending, agreed, wire>>
  <2>1. /\ SetState(p, "stable", NoTransport) /\ agreed' = [agreed EXCEPT ![p] = pending[p]]
        /\ signaling[p] # "stable"
        /\ wire' = wire \/ Sends(p, "answer", pending[p])
    BY <1>5 DEF CreateAnswer, SetAnswer, SetAnswered, pc
  <2>2. agreed' \in [Member -> IceTransport \cup {NoTransport}]
    BY <1>1, <2>1 DEF Descriptions
  <2>3. Descriptions'
    <3>1. rollbacks' \in [Member -> Nat]
      BY <1>1 DEF Descriptions
    <3> QED
      BY <1>1, <2>1, <2>2, <3>1, Described
  <2>4. wire' \in [Member -> Seq(Signal)]
    BY <1>2, <2>1, Wires DEF NegotiationInv
  <2> QED
    BY <1>1, <1>3, <2>3, <2>4 DEF NegotiationInv, Counts
<1> QED
  BY <1>4, <1>5

LEMMA IceKeeps ==
  ASSUME NegotiationInv, NEW p \in Member, AddIce(p)
  PROVE  NegotiationInv'
<1>1. /\ UNCHANGED <<signaling, pending, agreed, rollbacks, making, wire, opens, lost>>
      /\ chain[p] # <<>> /\ Ends(p)
  BY DEF AddIce, At, pc
<1>2. chain' \in [Member -> Seq(Operation)]
  BY <1>1, Chains
<1> QED
  BY <1>1, <1>2, Undescribed DEF NegotiationInv, Counts

LEMMA NegotiationInvariant == NegotiationSpec => []NegotiationInv
<1>1. NegotiationInv /\ [NegotiationNext]_NegotiationVars => NegotiationInv'
  <2> SUFFICES ASSUME NegotiationInv, [NegotiationNext]_NegotiationVars PROVE NegotiationInv'
    OBVIOUS
  <2>1. CASE UNCHANGED NegotiationVars
    BY <2>1, Undescribed DEF NegotiationVars, NegotiationInv, Counts
  <2>2. ASSUME NEW p \in Member, OpenChannel(p) \/ CreateOffer(p) \/ SetOffer(p)
        PROVE  NegotiationInv'
    BY <2>2, OpenChannelKeeps, OfferKeeps
  <2>3. ASSUME NEW p \in Member, OnSignal(p) \/ LoseSignal(p) \/ Rollback(p) \/ SetOffered(p)
        PROVE  NegotiationInv'
    BY <2>3, SignalKeeps, OfferedKeeps
  <2>4. ASSUME NEW p \in Member, CreateAnswer(p) \/ SetAnswer(p) \/ SetAnswered(p) \/ AddIce(p)
        PROVE  NegotiationInv'
    BY <2>4, AnswerKeeps, IceKeeps
  <2> QED
    BY <2>1, <2>2, <2>3, <2>4 DEF NegotiationNext
<1> QED
  BY NegotiationStarts, <1>1, PTL DEF NegotiationSpec

(* However descriptions cross, are rolled back or get lost, a description  *)
(* is pending exactly while its end waits for an answer or owes one, and   *)
(* whatever waits on a connection or on the wire is about a transport that *)
(* was offered (transport.js:107-110, 154-193).                            *)
THEOREM NegotiationTypeCorrect == NegotiationSpec => []NegotiationTypeOK
<1>1. NegotiationInv => NegotiationTypeOK
  <2> SUFFICES ASSUME NegotiationInv PROVE NegotiationTypeOK
    OBVIOUS
  <2>1. \A p \in Member : \A i \in DOMAIN wire[p] : wire[p][i] \in Signal
    BY DEF NegotiationInv
  <2>2. \A p \in Member : \A i \in DOMAIN chain[p] : chain[p][i].on \in IceTransport
    <3>1. \A p \in Member : \A i \in DOMAIN chain[p] : chain[p][i] \in Operation
      BY DEF NegotiationInv
    <3> QED
      BY <3>1 DEF Operation
  <2> QED
    BY <2>1, <2>2 DEF NegotiationInv, Descriptions, Counts, NegotiationTypeOK
<1> QED
  BY NegotiationInvariant, <1>1, PTL

-----------------------------------------------------------------------------
Sock == [owner : Transport, state : {"connecting", "open", "closing", "closed"},
         relay : {"none", "open", "deaf", "closed", "refused"}]

\* ConnectionTypeOK, in parts.
Plain ==
  /\ current \in Transport /\ stopped \in [Transport -> BOOLEAN]
  /\ ws \in [Transport -> Socket \cup {Null}]
  /\ dialing \in [Transport -> Nat] /\ timers \in [Transport -> Nat]
  /\ socks \in [Socket -> Sock \cup {Unused}]
  /\ reachable \in BOOLEAN /\ outages \in 0 .. MaxOutages /\ revived \in BOOLEAN

\* this.ws of a transport is a socket it has made and not seen the end of.
Owned ==
  \A t \in Transport : ws[t] # Null =>
    socks[ws[t]].owner = t /\ socks[ws[t]].state \in {"connecting", "open", "closing"}

Mapped ==
  /\ registered \in Socket \cup {Null}
  /\ registered # Null => socks[registered].relay \in {"open", "deaf"}

\* What the relay never hears the end of has ended for the app.
Deaf == \A s \in Socket : socks[s].relay = "deaf" => socks[s].state = "closed"

\* stop is called on the transport that is about to be replaced, and on no other.
InUse == \A t \in Transport : t >= current => ~stopped[t]

ConnectionInv == Plain /\ Owned /\ Mapped /\ Deaf /\ InUse /\ KeepsTrying

LEMMA ConnectionStarts == ConnectionInit => ConnectionInv
<1> SUFFICES ASSUME ConnectionInit PROVE ConnectionInv
  OBVIOUS
<1>1. 1 \in Transport /\ MaxOutages \in Nat /\ Null \notin Socket
  BY ConnectionBounds DEF ConnectionBounds, Transport
<1>2. Plain
  <2>1. /\ current \in Transport /\ stopped \in [Transport -> BOOLEAN]
        /\ ws \in [Transport -> Socket \cup {Null}]
    BY <1>1 DEF ConnectionInit
  <2>2. timers \in [Transport -> Nat] /\ socks \in [Socket -> Sock \cup {Unused}]
    BY DEF ConnectionInit
  <2>3. dialing \in [Transport -> Nat]
    BY DEF ConnectionInit
  <2>4. outages \in 0 .. MaxOutages
    BY <1>1 DEF ConnectionInit
  <2>5. reachable \in BOOLEAN /\ revived \in BOOLEAN
    BY Zenon DEF ConnectionInit
  <2> QED
    BY <2>1, <2>2, <2>3, <2>4, <2>5 DEF Plain
<1>3. Owned /\ Mapped /\ Deaf /\ InUse
  BY <1>1 DEF ConnectionInit, Owned, Mapped, Deaf, InUse, Unused
<1>4. KeepsTrying
  BY <1>1 DEF ConnectionInit, KeepsTrying
<1> QED
  BY <1>2, <1>3, <1>4 DEF ConnectionInv

-----------------------------------------------------------------------------
\* What a call of connect leaves behind: a socket that is alive, or a call that
\* waits for its signature.
LEMMA Connecting ==
  ASSUME Plain, NEW t \in Transport, Connect(t)
  PROVE  /\ stopped' \in [Transport -> BOOLEAN] /\ dialing' \in [Transport -> Nat]
         /\ revived' \in BOOLEAN
         /\ \A z \in Transport : ~stopped[z] => ~stopped'[z]
         /\ \A z \in Transport : dialing'[z] >= dialing[z]
         /\ Alive(t) \/ dialing'[t] > 0
<1>1. stopped \in [Transport -> BOOLEAN] /\ dialing \in [Transport -> Nat] /\ revived \in BOOLEAN
  BY DEF Plain
<1>2. CASE Alive(t)
  <2>1. stopped' = stopped /\ dialing' = dialing /\ revived' = revived
    BY <1>2 DEF Connect
  <2>2. \A z \in Transport : dialing'[z] >= dialing[z]
    BY <1>1, <2>1
  <2> QED
    BY <1>1, <1>2, <2>1, <2>2, Zenon
<1>3. CASE ~Alive(t)
  <2>1. /\ stopped' = [stopped EXCEPT ![t] = FALSE]
        /\ dialing' = [dialing EXCEPT ![t] = @ + 1]
        /\ revived' = (revived \/ stopped[t])
    BY <1>3 DEF Connect
  <2>2. stopped' \in [Transport -> BOOLEAN] /\ \A z \in Transport : ~stopped[z] => ~stopped'[z]
    BY <1>1, <2>1
  <2>3. /\ dialing' \in [Transport -> Nat] /\ dialing'[t] > 0
        /\ \A z \in Transport : dialing'[z] >= dialing[z]
    BY <1>1, <2>1
  <2>4. revived' \in BOOLEAN
    BY <2>1, Zenon
  <2> QED
    BY <2>2, <2>3, <2>4
<1> QED
  BY <1>2, <1>3

LEMMA DialKeeps ==
  ASSUME ConnectionInv, NEW t \in Transport, Dial(t)
  PROVE  ConnectionInv'
<1>1. PICK s \in Socket :
        /\ socks[s] = Unused
        /\ socks' = [socks EXCEPT ![s] = [owner |-> t, state |-> "connecting", relay |-> "none"]]
        /\ ws' = [ws EXCEPT ![t] = s]
  BY DEF Dial
<1>2. /\ dialing[t] > 0 /\ dialing' = [dialing EXCEPT ![t] = @ - 1]
      /\ UNCHANGED <<current, stopped, timers, registered, reachable, outages>>
  BY DEF Dial
<1>3. revived' \in BOOLEAN
  BY Zenon DEF Dial
<1>4. Null \notin Socket
  BY ConnectionBounds DEF ConnectionBounds
<1>5. Plain'
  <2>1. dialing' \in [Transport -> Nat] /\ ws' \in [Transport -> Socket \cup {Null}]
    BY <1>1, <1>2 DEF ConnectionInv, Plain
  <2>2. socks' \in [Socket -> Sock \cup {Unused}]
    BY <1>1 DEF ConnectionInv, Plain, Sock
  <2> QED
    BY <1>2, <1>3, <2>1, <2>2 DEF ConnectionInv, Plain
<1>6. socks'[s].owner = t /\ socks'[s].state = "connecting" /\ ws'[t] = s
  BY <1>1 DEF ConnectionInv, Plain
<1>7. \A z \in Transport : z # t /\ ws[z] # Null => ws'[z] = ws[z] /\ socks'[ws[z]] = socks[ws[z]]
  BY <1>1 DEF ConnectionInv, Plain, Owned, Unused
<1>8. Owned'
  BY <1>1, <1>6, <1>7 DEF ConnectionInv, Plain, Owned
<1>9. Mapped' /\ Deaf'
  BY <1>1, <1>2 DEF ConnectionInv, Plain, Mapped, Deaf, Unused
<1>10. t = current => Alive(current)'
  BY <1>2, <1>4, <1>6 DEF Alive
<1>11. t # current => ws'[current] = ws[current] /\ dialing'[current] = dialing[current]
  BY <1>1, <1>2 DEF ConnectionInv, Plain
<1>12. t # current => (Alive(current)' <=> Alive(current))
  BY <1>2, <1>7, <1>11 DEF ConnectionInv, Plain, Alive
<1>13. InUse' /\ KeepsTrying'
  BY <1>2, <1>10, <1>11, <1>12 DEF ConnectionInv, InUse, KeepsTrying
<1> QED
  BY <1>5, <1>8, <1>9, <1>13 DEF ConnectionInv

LEMMA TimerKeeps ==
  ASSUME ConnectionInv, NEW t \in Transport, Timer(t)
  PROVE  ConnectionInv'
<1>1. /\ timers[t] > 0 /\ timers' = [timers EXCEPT ![t] = @ - 1] /\ Connect(t)
      /\ UNCHANGED <<current, ws, socks, registered, reachable, outages>>
  BY DEF Timer
<1>2. /\ stopped' \in [Transport -> BOOLEAN] /\ dialing' \in [Transport -> Nat]
      /\ revived' \in BOOLEAN
      /\ \A z \in Transport : ~stopped[z] => ~stopped'[z]
      /\ \A z \in Transport : dialing'[z] >= dialing[z]
      /\ Alive(t) \/ dialing'[t] > 0
  BY <1>1, Connecting DEF ConnectionInv
<1>3. Plain'
  <2>1. timers' \in [Transport -> Nat]
    BY <1>1 DEF ConnectionInv, Plain
  <2> QED
    BY <1>1, <1>2, <2>1 DEF ConnectionInv, Plain
<1>4. Owned' /\ Mapped' /\ Deaf'
  BY <1>1 DEF ConnectionInv, Owned, Mapped, Deaf
<1>5. Alive(current)' <=> Alive(current)
  BY <1>1 DEF Alive
<1>6. InUse'
  BY <1>1, <1>2 DEF ConnectionInv, InUse
<1>7. KeepsTrying'
  <2>1. current \in Transport /\ dialing[current] \in Nat /\ dialing'[current] \in Nat
    BY <1>2 DEF ConnectionInv, Plain
  <2>2. t # current => timers'[current] = timers[current]
    BY <1>1, <2>1 DEF ConnectionInv, Plain
  <2>3. dialing[current] > 0 => dialing'[current] > 0
    BY <1>2, <2>1
  <2> QED
    BY <1>1, <1>2, <1>5, <2>2, <2>3 DEF ConnectionInv, KeepsTrying
<1> QED
  BY <1>3, <1>4, <1>6, <1>7 DEF ConnectionInv

-----------------------------------------------------------------------------
\* What the relay and onopen do to a socket does not end it for the app.
LEMMA SocketsStay ==
  ASSUME ConnectionInv, socks' \in [Socket -> Sock \cup {Unused}],
         UNCHANGED <<current, stopped, ws, dialing, timers, reachable, outages, revived>>,
         \A t \in Transport : ws[t] # Null =>
           /\ socks'[ws[t]].owner = socks[ws[t]].owner
           /\ \/ socks'[ws[t]].state = socks[ws[t]].state
              \/ socks[ws[t]].state = "connecting" /\ socks'[ws[t]].state = "open"
  PROVE  Plain' /\ Owned' /\ InUse' /\ KeepsTrying'
<1>1. Plain'
  BY DEF ConnectionInv, Plain
<1>2. Owned'
  BY DEF ConnectionInv, Owned
<1>3. current \in Transport
  BY DEF ConnectionInv, Plain
<1>4. Alive(current) => Alive(current)'
  BY <1>3 DEF Alive
<1>5. InUse'
  BY DEF ConnectionInv, InUse
<1>6. KeepsTrying'
  BY <1>4 DEF ConnectionInv, KeepsTrying
<1> QED
  BY <1>1, <1>2, <1>5, <1>6

LEMMA AcceptKeeps ==
  ASSUME ConnectionInv, NEW s \in Socket, RelayAccepts(s)
  PROVE  ConnectionInv'
<1>1. PICK end \in {"open", "deaf"} :
      /\ end = "deaf" => socks[s].state = "closed"
      /\ socks' = [z \in Socket |->
           IF z = s THEN [socks[s] EXCEPT !.relay = end]
           ELSE IF z # registered THEN socks[z]
           ELSE IF socks[z].relay = "deaf" THEN Unused ELSE [socks[z] EXCEPT !.relay = "closed"]]
  BY DEF RelayAccepts
<1>2. /\ socks[s].state \in {"connecting", "closing", "closed"} /\ registered' = s
      /\ UNCHANGED <<current, stopped, ws, dialing, timers, reachable, outages, revived>>
  BY DEF RelayAccepts, Upgrading
<1>3. socks \in [Socket -> Sock \cup {Unused}] /\ Null \notin Socket
  BY ConnectionBounds DEF ConnectionBounds, ConnectionInv, Plain
<1>4. socks[s] \in Sock
  BY <1>2, <1>3 DEF Unused
<1>5. ASSUME NEW z \in Socket, z = registered PROVE socks[z] \in Sock
  BY <1>3, <1>5 DEF ConnectionInv, Mapped, Unused
<1>6. ASSUME NEW z \in Socket
      PROVE  /\ socks'[z] \in Sock \cup {Unused}
             /\ socks[z].state # "closed" =>
                  socks'[z].owner = socks[z].owner /\ socks'[z].state = socks[z].state
             /\ socks'[z].relay = "deaf" => socks'[z].state = "closed"
  <2>1. CASE z = s
    BY <1>1, <1>4, <2>1 DEF Sock
  <2>2. CASE z # s /\ z = registered
    BY <1>1, <1>5, <2>2 DEF ConnectionInv, Deaf, Sock, Unused
  <2>3. CASE z # s /\ z # registered
    BY <1>1, <1>3, <2>3 DEF ConnectionInv, Deaf
  <2> QED
    BY <2>1, <2>2, <2>3
<1>7. socks' \in [Socket -> Sock \cup {Unused}] /\ Deaf'
  BY <1>1, <1>6 DEF Deaf
<1>8. socks'[s].relay \in {"open", "deaf"}
  BY <1>1, <1>4 DEF Sock
<1>9. \A t \in Transport : ws[t] # Null => ws[t] \in Socket /\ socks[ws[t]].state # "closed"
  BY DEF ConnectionInv, Plain, Owned
<1>10. Plain' /\ Owned' /\ InUse' /\ KeepsTrying'
  BY <1>2, <1>6, <1>7, <1>9, SocketsStay
<1> QED
  BY <1>2, <1>7, <1>8, <1>10 DEF ConnectionInv, Mapped

LEMMA RefuseKeeps ==
  ASSUME ConnectionInv, NEW s \in Socket, RelayRefuses(s)
  PROVE  ConnectionInv'
<1>1. /\ socks[s].state \in {"connecting", "closing", "closed"} /\ socks[s].relay = "none"
      /\ outages < MaxOutages /\ outages' = outages + 1
      /\ socks' = [socks EXCEPT ![s] = IF @.state = "closed" THEN Unused
                                                            ELSE [@ EXCEPT !.relay = "refused"]]
      /\ UNCHANGED <<current, stopped, ws, dialing, timers, registered, reachable, revived>>
  BY DEF RelayRefuses, Upgrading
<1>2. socks \in [Socket -> Sock \cup {Unused}] /\ outages' \in 0 .. MaxOutages
  BY <1>1, ConnectionBounds DEF ConnectionBounds, ConnectionInv, Plain
<1>3. socks[s] \in Sock
  BY <1>1, <1>2 DEF Unused
<1>4. /\ socks'[s] \in Sock \cup {Unused} /\ socks'[s].relay \in {"none", "refused"}
      /\ socks[s].state # "closed" =>
           socks'[s].owner = socks[s].owner /\ socks'[s].state = socks[s].state
      /\ \A z \in Socket : z # s => socks'[z] = socks[z]
  BY <1>1, <1>2, <1>3 DEF Sock, Unused
<1>5. socks' \in [Socket -> Sock \cup {Unused}]
  BY <1>1, <1>2, <1>4
<1>6. Plain'
  BY <1>1, <1>2, <1>5 DEF ConnectionInv, Plain
<1>7. \A t \in Transport : ws[t] # Null =>
        /\ ws[t] \in Socket
        /\ socks'[ws[t]].owner = socks[ws[t]].owner /\ socks'[ws[t]].state = socks[ws[t]].state
  BY <1>4 DEF ConnectionInv, Plain, Owned
<1>8. Owned' /\ Deaf'
  BY <1>1, <1>4, <1>7 DEF ConnectionInv, Owned, Deaf
<1>9. Mapped'
  BY <1>1, <1>4 DEF ConnectionInv, Mapped
<1>10. current \in Transport
  BY DEF ConnectionInv, Plain
<1>11. Alive(current) => Alive(current)'
  BY <1>1, <1>7, <1>10 DEF Alive
<1>12. InUse' /\ KeepsTrying'
  BY <1>1, <1>11 DEF ConnectionInv, InUse, KeepsTrying
<1> QED
  BY <1>6, <1>8, <1>9, <1>12 DEF ConnectionInv

LEMMA OpenKeeps ==
  ASSUME ConnectionInv, NEW s \in Socket, OnOpen(s)
  PROVE  ConnectionInv'
<1>1. /\ socks[s].state = "connecting" /\ socks[s].relay # "deaf" /\ registered' = registered
      /\ socks' = [socks EXCEPT ![s].state = "open"]
      /\ UNCHANGED <<current, stopped, ws, dialing, timers, reachable, outages, revived>>
  BY DEF OnOpen
<1>2. socks \in [Socket -> Sock \cup {Unused}]
  BY DEF ConnectionInv, Plain
<1>3. socks[s] \in Sock
  BY <1>1, <1>2 DEF Unused
<1>4. /\ socks'[s] \in Sock /\ socks'[s].state = "open"
      /\ socks'[s].owner = socks[s].owner /\ socks'[s].relay = socks[s].relay
      /\ \A z \in Socket : z # s => socks'[z] = socks[z]
  BY <1>1, <1>2, <1>3 DEF Sock
<1>5. socks' \in [Socket -> Sock \cup {Unused}]
  BY <1>1, <1>2, <1>4
<1>6. \A t \in Transport : ws[t] # Null => ws[t] \in Socket
  BY DEF ConnectionInv, Plain
<1>7. Plain' /\ Owned' /\ InUse' /\ KeepsTrying'
  BY <1>1, <1>4, <1>5, <1>6, SocketsStay
<1>8. Mapped' /\ Deaf'
  BY <1>1, <1>4 DEF ConnectionInv, Mapped, Deaf
<1> QED
  BY <1>7, <1>8 DEF ConnectionInv

LEMMA NoticeKeeps ==
  ASSUME ConnectionInv, NEW s \in Socket, RelayNotices(s)
  PROVE  ConnectionInv'
<1>1. /\ socks[s].state = "closed" /\ socks' = [socks EXCEPT ![s] = Unused]
      /\ registered' = IF registered = s THEN Null ELSE registered
      /\ UNCHANGED <<current, stopped, ws, dialing, timers, reachable, outages, revived>>
  BY DEF RelayNotices
<1>2. \A t \in Transport : ws[t] # Null => ws[t] \in Socket /\ ws[t] # s
  BY <1>1 DEF ConnectionInv, Plain, Owned
<1>3. /\ socks' \in [Socket -> Sock \cup {Unused}]
      /\ \A z \in Socket : z # s => socks'[z] = socks[z]
  BY <1>1 DEF ConnectionInv, Plain
<1>4. Plain' /\ Owned' /\ InUse' /\ KeepsTrying'
  BY <1>1, <1>2, <1>3, SocketsStay
<1>5. Mapped' /\ Deaf'
  BY <1>1, <1>3 DEF ConnectionInv, Plain, Mapped, Deaf, Unused
<1> QED
  BY <1>4, <1>5 DEF ConnectionInv

-----------------------------------------------------------------------------
\* A socket that closes leaves a timer, unless its transport was stopped.
LEMMA CloseKeeps ==
  ASSUME ConnectionInv, NEW s \in Socket, OnClose(s)
  PROVE  ConnectionInv'
<1> DEFINE t == socks[s].owner
<1>0. PICK end \in Remains(s) : socks' = [socks EXCEPT ![s] = end]
  BY DEF OnClose
<1>1. /\ socks[s].state \in {"connecting", "open", "closing"}
      /\ ws' = IF ws[t] = s THEN [ws EXCEPT ![t] = Null] ELSE ws
      /\ timers' = IF stopped[t] THEN timers ELSE [timers EXCEPT ![t] = @ + 1]
      /\ UNCHANGED <<current, stopped, dialing, registered, reachable, outages, revived>>
  BY DEF OnClose, Closing
<1>2. /\ socks \in [Socket -> Sock \cup {Unused}] /\ Null \notin Socket
      /\ ws \in [Transport -> Socket \cup {Null}] /\ timers \in [Transport -> Nat]
      /\ current \in Transport
  BY ConnectionBounds DEF ConnectionBounds, ConnectionInv, Plain
<1>3. socks[s] \in Sock /\ t \in Transport
  BY <1>1, <1>2 DEF Unused, Sock
<1> HIDE DEF t
<1>4. /\ socks'[s] \in Sock \cup {Unused}
      /\ socks[s].relay \in {"open", "deaf"} => socks'[s].relay = socks[s].relay
      /\ socks'[s].relay = "deaf" => socks'[s].state = "closed"
      /\ \A z \in Socket : z # s => socks'[z] = socks[z]
  BY <1>0, <1>2, <1>3 DEF Remains, Sock, Unused
<1>5. socks' \in [Socket -> Sock \cup {Unused}]
  BY <1>0, <1>2, <1>4
<1>6. /\ ws' \in [Transport -> Socket \cup {Null}] /\ timers' \in [Transport -> Nat]
      /\ \A z \in Transport : timers'[z] >= timers[z]
      /\ ~stopped[t] => timers'[t] > 0
  BY <1>1, <1>2, <1>3
<1>7. Plain'
  BY <1>1, <1>5, <1>6 DEF ConnectionInv, Plain
<1>8. \A z \in Transport : ws[z] = s => z = t
  BY <1>2 DEF ConnectionInv, Owned, t
<1>9. \A z \in Transport : ws'[z] # Null => ws'[z] = ws[z] /\ ws[z] \in Socket /\ ws[z] # s
  BY <1>1, <1>2, <1>3, <1>8
<1>10. Owned'
  BY <1>4, <1>9 DEF ConnectionInv, Owned
<1>11. Mapped' /\ Deaf'
  BY <1>1, <1>4 DEF ConnectionInv, Mapped, Deaf
<1>12. ws'[current] # Null /\ Alive(current) => Alive(current)'
  BY <1>1, <1>2, <1>4, <1>9 DEF Alive
<1>13. InUse'
  BY <1>1 DEF ConnectionInv, InUse
<1>14. KeepsTrying'
  <2>1. CASE ws[current] = s
    <3>1. t = current /\ ~stopped[current]
      BY <1>2, <1>8, <2>1 DEF ConnectionInv, InUse, Plain, Transport
    <3> QED
      BY <1>1, <1>6, <3>1 DEF KeepsTrying
  <2>2. CASE ws[current] # s
    <3>1. ws'[current] = ws[current]
      BY <1>1, <1>2, <1>3, <2>2
    <3>2. Alive(current) => Alive(current)'
      BY <1>1, <1>12, <3>1 DEF Alive
    <3>3. timers[current] > 0 => timers'[current] > 0
      BY <1>2, <1>6
    <3> QED
      BY <1>1, <3>2, <3>3 DEF ConnectionInv, KeepsTrying
  <2> QED
    BY <2>1, <2>2
<1> QED
  BY <1>7, <1>10, <1>11, <1>13, <1>14 DEF ConnectionInv

\* startTransport stops the transport in use, and begins to connect with the
\* next.
LEMMA RenewKeeps ==
  ASSUME ConnectionInv, Renew
  PROVE  ConnectionInv'
<1>1. /\ current < MaxTransports /\ current' = current + 1
      /\ stopped' = [stopped EXCEPT ![current] = TRUE]
      /\ socks' = [s \in Socket |-> IF s = ws[current] THEN [socks[s] EXCEPT !.state = "closing"]
                                                       ELSE socks[s]]
      /\ dialing' = [dialing EXCEPT ![current + 1] = @ + 1]
      /\ UNCHANGED <<ws, timers, registered, reachable, outages, revived>>
  BY DEF Renew, Stop
<1>2. /\ current \in Transport /\ current + 1 \in Transport /\ current + 1 # current
      /\ \A z \in Transport : z >= current + 1 => z >= current /\ z # current
  BY <1>1, ConnectionBounds DEF ConnectionBounds, ConnectionInv, Plain, Transport
<1>3. /\ socks \in [Socket -> Sock \cup {Unused}] /\ Null \notin Socket
      /\ ws \in [Transport -> Socket \cup {Null}]
  BY ConnectionBounds DEF ConnectionBounds, ConnectionInv, Plain
<1>4. \A s \in Socket : s = ws[current] => socks[s] \in Sock
  BY <1>2, <1>3 DEF ConnectionInv, Owned, Unused
<1>5. \A s \in Socket : /\ socks'[s] \in Sock \cup {Unused}
                        /\ socks'[s].owner = socks[s].owner /\ socks'[s].relay = socks[s].relay
                        /\ s = ws[current] => socks'[s].state = "closing"
                        /\ s # ws[current] => socks'[s] = socks[s]
  BY <1>1, <1>3, <1>4 DEF Sock
<1>6. socks' \in [Socket -> Sock \cup {Unused}]
  BY <1>1, <1>5
<1>7. dialing' \in [Transport -> Nat] /\ dialing'[current'] > 0
  BY <1>1, <1>2 DEF ConnectionInv, Plain
<1>8. /\ stopped' \in [Transport -> BOOLEAN]
      /\ \A z \in Transport : z # current => stopped'[z] = stopped[z]
  BY <1>1, <1>2 DEF ConnectionInv, Plain
<1>9. Plain'
  BY <1>1, <1>2, <1>6, <1>7, <1>8 DEF ConnectionInv, Plain
<1>10. Owned'
  BY <1>1, <1>3, <1>5 DEF ConnectionInv, Owned
<1>11. Mapped' /\ Deaf'
  BY <1>1, <1>2, <1>3, <1>5 DEF ConnectionInv, Owned, Mapped, Deaf
<1>12. \A z \in Transport : z >= current' => ~stopped'[z]
  BY <1>1, <1>2, <1>8 DEF ConnectionInv, InUse
<1> QED
  BY <1>7, <1>9, <1>10, <1>11, <1>12 DEF ConnectionInv, InUse, KeepsTrying

-----------------------------------------------------------------------------
\* The network goes, and comes back with or without an `online` event.
LEMMA NetworkKeeps ==
  ASSUME ConnectionInv, NetworkGone \/ NetworkBack
  PROVE  ConnectionInv'
<1>1. /\ UNCHANGED <<current, ws, timers, socks, registered>>
      /\ Connect(current) \/ UNCHANGED <<stopped, dialing, revived>>
  BY DEF NetworkGone, NetworkBack
<1>2. outages' \in 0 .. MaxOutages
  BY ConnectionBounds DEF ConnectionBounds, NetworkGone, NetworkBack, ConnectionInv, Plain
<1>3. reachable' \in BOOLEAN
  BY Zenon DEF NetworkGone, NetworkBack
<1>4. current \in Transport /\ dialing \in [Transport -> Nat]
  BY DEF ConnectionInv, Plain
<1>5. /\ stopped' \in [Transport -> BOOLEAN] /\ dialing' \in [Transport -> Nat]
      /\ revived' \in BOOLEAN
      /\ \A z \in Transport : ~stopped[z] => ~stopped'[z]
      /\ \A z \in Transport : dialing'[z] >= dialing[z]
  <2>1. CASE Connect(current)
    BY <1>4, <2>1, Connecting DEF ConnectionInv
  <2>2. CASE UNCHANGED <<stopped, dialing, revived>>
    BY <2>2 DEF ConnectionInv, Plain
  <2> QED
    BY <1>1, <2>1, <2>2
<1>6. Plain'
  BY <1>1, <1>2, <1>3, <1>5 DEF ConnectionInv, Plain
<1>7. Owned' /\ Mapped' /\ Deaf' /\ InUse'
  BY <1>1, <1>5 DEF ConnectionInv, Owned, Mapped, Deaf, InUse
<1>8. Alive(current)' <=> Alive(current)
  BY <1>1 DEF Alive
<1>9. dialing[current] > 0 => dialing'[current] > 0
  BY <1>4, <1>5
<1>10. KeepsTrying'
  BY <1>1, <1>8, <1>9 DEF ConnectionInv, KeepsTrying
<1> QED
  BY <1>6, <1>7, <1>10 DEF ConnectionInv

LEMMA ConnectionInvariant == ConnectionSpec => []ConnectionInv
<1>1. ConnectionInv /\ [ConnectionNext]_ConnectionVars => ConnectionInv'
  <2> SUFFICES ASSUME ConnectionInv, [ConnectionNext]_ConnectionVars PROVE ConnectionInv'
    OBVIOUS
  <2>1. CASE UNCHANGED ConnectionVars
    BY <2>1 DEF ConnectionVars, ConnectionInv, Plain, Owned, Mapped, Deaf, InUse, KeepsTrying, Alive
  <2>2. ASSUME NEW t \in Transport, Dial(t) \/ Timer(t) PROVE ConnectionInv'
    BY <2>2, DialKeeps, TimerKeeps
  <2>3. ASSUME NEW s \in Socket,
               RelayAccepts(s) \/ RelayRefuses(s) \/ OnOpen(s) \/ OnClose(s) \/ RelayNotices(s)
        PROVE  ConnectionInv'
    BY <2>3, AcceptKeeps, RefuseKeeps, OpenKeeps, CloseKeeps, NoticeKeeps
  <2>4. CASE Renew \/ NetworkGone \/ NetworkBack
    BY <2>4, RenewKeeps, NetworkKeeps
  <2> QED
    BY <2>1, <2>2, <2>3, <2>4 DEF ConnectionNext
<1> QED
  BY ConnectionStarts, <1>1, PTL DEF ConnectionSpec

-----------------------------------------------------------------------------
(* The variables of Connection keep to their sets: this.ws is a socket of  *)
(* its transport that has not ended, and the relay's entry one it holds    *)
(* open (transport.js:59-97, relay.mjs:280-313).                           *)
THEOREM ConnectionTypeCorrect == ConnectionSpec => []ConnectionTypeOK
<1>1. ConnectionInv => ConnectionTypeOK
  BY DEF ConnectionInv, Plain, Owned, Mapped, Sock, ConnectionTypeOK
<1> QED
  BY ConnectionInvariant, <1>1, PTL

(* Whatever sockets push each other out, however the network comes and     *)
(* goes and transports are exchanged, the app has a socket, is about to    *)
(* make one, or has a timer that will (transport.js:59-97).                *)
THEOREM NeverGivesUp == ConnectionSpec => []KeepsTrying
<1>1. ConnectionInv => KeepsTrying
  BY DEF ConnectionInv
<1> QED
  BY ConnectionInvariant, <1>1, PTL

-----------------------------------------------------------------------------
\* What flush f works on and will work on.
Handles(f) == flush[f].left \cup flush[f].item

\* An answer a flush is working on is one the relay gave.
Answered ==
  \A f \in Flush, m \in Message : m \in flush[f].item =>
    \/ flush[f].answer = "ok" /\ queued[m] # "never"
    \/ flush[f].answer = "drop" /\ m \in TooBig

\* A message whose call goes on is not in the outbox yet, nor with a flush.
Apart ==
  \A m \in Message : call[m] \notin Ended =>
    m \notin outbox /\ \A f \in Flush : m \notin Handles(f)

\* A message without an excuse is with one flush at most.
OneFlush ==
  \A m \in Message \ doubtful, f, g \in Flush :
    m \in Handles(f) /\ m \in Handles(g) => f = g

\* Once it is with the relay nothing will post it again: if it is still in the
\* outbox, some flush is about to take it out.
OnceIsEnough ==
  \A m \in Message \ doubtful : queued[m] = "once" =>
    /\ call[m] \in Ended /\ \A f \in Flush : m \notin flush[f].left
    /\ m \in outbox => \E f \in Flush : m \in flush[f].item /\ flush[f].answer = "ok"

Promises ==
  NothingForgotten /\ RepeatsAreExcused /\ Answered /\ Apart /\ OneFlush /\ OnceIsEnough

OutboxInv == OutboxTypeOK /\ Promises

-----------------------------------------------------------------------------
LEMMA OutboxStarts == OutboxInit => OutboxInv
BY OutboxAssumption DEF OutboxInit, OutboxInv, OutboxTypeOK, Promises, NothingForgotten, RepeatsAreExcused,
   Answered, Apart, OneFlush, OnceIsEnough, Handles, Ended, Idle, NoItem

\* Every step leaves values in their sets.
LEMMA OutboxTypes == OutboxTypeOK /\ [OutboxNext]_OutboxVars => OutboxTypeOK'
<1> SUFFICES ASSUME OutboxTypeOK, [OutboxNext]_OutboxVars PROVE OutboxTypeOK'
  OBVIOUS
<1>m. Mishap => mishaps' \in 0 .. MaxMishaps
  BY OutboxAssumption DEF Mishap, OutboxTypeOK
<1> USE OutboxAssumption, <1>m DEF OutboxTypeOK, Ended, Go, OneMore, NoItem, Idle
<1>1. ASSUME NEW m \in Message, Show(m) PROVE OutboxTypeOK'
  BY <1>1 DEF Show
<1>2. ASSUME NEW m \in Message, Throw(m) PROVE OutboxTypeOK'
  BY <1>2 DEF Throw
<1>3. ASSUME NEW m \in Message, Seal(m) PROVE OutboxTypeOK'
  BY <1>3 DEF Seal
<1>4. ASSUME NEW m \in Message, SendDirect(m) PROVE OutboxTypeOK'
  BY <1>4 DEF SendDirect
<1>5. ASSUME NEW m \in Message, SendPost(m) PROVE OutboxTypeOK'
  BY <1>5 DEF SendPost
<1>6. ASSUME NEW m \in Message, ChannelDelivers(m) PROVE OutboxTypeOK'
  BY <1>6 DEF ChannelDelivers
<1>7. ASSUME NEW m \in Message, PostOk(m) PROVE OutboxTypeOK'
  BY <1>7 DEF PostOk, Accepted
<1>8. ASSUME NEW m \in Message, PostFails(m) PROVE OutboxTypeOK'
  BY <1>8 DEF PostFails, TurnedDown, TooLarge, Throws
<1>9. ASSUME NEW m \in Message, Hold(m) PROVE OutboxTypeOK'
  BY <1>9 DEF Hold
<1>10. ASSUME NEW m \in Message, NEW f \in Flush, FlushOk(f, m) PROVE OutboxTypeOK'
  BY <1>10 DEF FlushOk, Takes, Accepted, Proceed
<1>11. ASSUME NEW m \in Message, NEW f \in Flush, FlushRefused(f, m) PROVE OutboxTypeOK'
  BY <1>11 DEF FlushRefused, Takes, TurnedDown, Proceed
<1>12. ASSUME NEW m \in Message, NEW f \in Flush, FlushTooLarge(f, m) PROVE OutboxTypeOK'
  BY <1>12 DEF FlushTooLarge, Takes, TooLarge, Proceed
<1>13. ASSUME NEW m \in Message, NEW f \in Flush, FlushBreaks(f, m) PROVE OutboxTypeOK'
  BY <1>13 DEF FlushBreaks, Takes, Throws
<1>14. ASSUME NEW m \in Message, NEW f \in Flush, Dequeue(f, m) PROVE OutboxTypeOK'
  BY <1>14 DEF Dequeue, Proceed
<1>15. ASSUME NEW f \in Flush, SocketOpens(f) PROVE OutboxTypeOK'
  BY <1>15 DEF SocketOpens, StartFlush
<1>16. ASSUME NEW f \in Flush, ChannelOpens(f) PROVE OutboxTypeOK'
  BY <1>16 DEF ChannelOpens, StartFlush
<1>17. ASSUME NEW f \in Flush, EndFlush(f) PROVE OutboxTypeOK'
  BY <1>17 DEF EndFlush
<1>18. ASSUME ChannelDies PROVE OutboxTypeOK'
  BY <1>18 DEF ChannelDies
<1>19. ASSUME GoOffline PROVE OutboxTypeOK'
  BY <1>19 DEF GoOffline
<1>20. ASSUME GoOnline PROVE OutboxTypeOK'
  BY <1>20 DEF GoOnline
<1>21. ASSUME Crash PROVE OutboxTypeOK'
  BY <1>21 DEF Crash
<1>22. ASSUME UNCHANGED OutboxVars PROVE OutboxTypeOK'
  BY <1>22 DEF OutboxVars
<1> QED
  BY <1>1, <1>2, <1>3, <1>4, <1>5, <1>6, <1>7, <1>8, <1>9, <1>10, <1>11, <1>12, <1>13, <1>14,
     <1>15, <1>16, <1>17, <1>18, <1>19, <1>20, <1>21, <1>22 DEF OutboxNext

\* And every step keeps the promises.
LEMMA OutboxSteps == OutboxInv /\ [OutboxNext]_OutboxVars => Promises'
<1> SUFFICES ASSUME OutboxInv, [OutboxNext]_OutboxVars PROVE Promises'
  OBVIOUS
<1> USE DEF OutboxInv, OutboxTypeOK, Promises, NothingForgotten, RepeatsAreExcused, Answered, Apart,
            OneFlush, OnceIsEnough, Handles, Ended, NoItem, Idle
<1>1. ASSUME NEW m \in Message, Show(m) PROVE Promises'
  BY <1>1 DEF Show, Go
<1>2. ASSUME NEW m \in Message, Throw(m) PROVE Promises'
  BY <1>2 DEF Throw, Go
<1>3. ASSUME NEW m \in Message, Seal(m) PROVE Promises'
  BY <1>3 DEF Seal, Go
<1>4. ASSUME NEW m \in Message, SendDirect(m) PROVE Promises'
  BY <1>4 DEF SendDirect, Go
<1>5. ASSUME NEW m \in Message, SendPost(m) PROVE Promises'
  BY <1>5 DEF SendPost, Go
<1>6. ASSUME NEW m \in Message, ChannelDelivers(m) PROVE Promises'
  BY <1>6 DEF ChannelDelivers
<1>7. ASSUME NEW m \in Message, PostOk(m) PROVE Promises'
  BY <1>7 DEF PostOk, Accepted, Go, OneMore
<1>8. ASSUME NEW m \in Message, PostFails(m) PROVE Promises'
  BY <1>8 DEF PostFails, TurnedDown, TooLarge, Throws, Go, OneMore
<1>9. ASSUME NEW m \in Message, Hold(m) PROVE Promises'
  BY <1>9 DEF Hold, Go
<1>10. ASSUME NEW m \in Message, NEW f \in Flush, FlushOk(f, m) PROVE Promises'
  BY <1>10 DEF FlushOk, Takes, Accepted, Proceed, OneMore
<1>11. ASSUME NEW m \in Message, NEW f \in Flush, FlushRefused(f, m) PROVE Promises'
  BY <1>11 DEF FlushRefused, Takes, TurnedDown, Proceed
<1>12. ASSUME NEW m \in Message, NEW f \in Flush, FlushTooLarge(f, m) PROVE Promises'
  BY <1>12 DEF FlushTooLarge, Takes, TooLarge, Proceed
<1>13. ASSUME NEW m \in Message, NEW f \in Flush, FlushBreaks(f, m) PROVE Promises'
  BY <1>13 DEF FlushBreaks, Takes, Throws, OneMore
<1>14. ASSUME NEW m \in Message, NEW f \in Flush, Dequeue(f, m) PROVE Promises'
  BY <1>14 DEF Dequeue, Proceed
<1>15. ASSUME NEW f \in Flush, SocketOpens(f) PROVE Promises'
  BY <1>15 DEF SocketOpens, StartFlush
<1>16. ASSUME NEW f \in Flush, ChannelOpens(f) PROVE Promises'
  BY <1>16 DEF ChannelOpens, StartFlush
<1>17. ASSUME NEW f \in Flush, EndFlush(f) PROVE Promises'
  BY <1>17 DEF EndFlush
<1>18. ASSUME ChannelDies PROVE Promises'
  BY <1>18 DEF ChannelDies
<1>19. ASSUME GoOffline PROVE Promises'
  BY <1>19 DEF GoOffline
<1>20. ASSUME GoOnline PROVE Promises'
  BY <1>20 DEF GoOnline
<1>21. ASSUME Crash PROVE Promises'
  BY <1>21 DEF Crash, OneMore
<1>22. ASSUME UNCHANGED OutboxVars PROVE Promises'
  BY <1>22 DEF OutboxVars
<1> QED
  BY <1>1, <1>2, <1>3, <1>4, <1>5, <1>6, <1>7, <1>8, <1>9, <1>10, <1>11, <1>12, <1>13, <1>14,
     <1>15, <1>16, <1>17, <1>18, <1>19, <1>20, <1>21, <1>22 DEF OutboxNext

LEMMA OutboxInvariant == OutboxSpec => []OutboxInv
<1>1. OutboxInv /\ [OutboxNext]_OutboxVars => OutboxInv'
  BY OutboxTypes, OutboxSteps DEF OutboxInv
<1> QED
  BY OutboxStarts, <1>1, PTL DEF OutboxSpec

-----------------------------------------------------------------------------
(* The variables keep to their sets (Outbox).                              *)
THEOREM OutboxTypeCorrect == OutboxSpec => []OutboxTypeOK
<1>1. OutboxInv => OutboxTypeOK
  BY DEF OutboxInv
<1> QED
  BY OutboxInvariant, <1>1, PTL

(* Whatever calls of send and flushOutbox do at once, and however often    *)
(* requests fail, answers get lost or the app dies: what send reported as  *)
(* relayed or held is with the relay or in the outbox, unless it is too    *)
(* large for the relay (transport.js:251-282).                             *)
THEOREM NoneIsForgotten == OutboxSpec => []NothingForgotten
<1>1. OutboxInv => NothingForgotten
  BY DEF OutboxInv, Promises
<1> QED
  BY OutboxInvariant, <1>1, PTL

(* No envelope is posted again without one of the three reasons            *)
(* (transport.js:251-263, 266-282).                                        *)
THEOREM RepeatsHaveReasons == OutboxSpec => []RepeatsAreExcused
<1>1. OutboxInv => RepeatsAreExcused
  BY DEF OutboxInv, Promises
<1> QED
  BY OutboxInvariant, <1>1, PTL
=============================================================================
