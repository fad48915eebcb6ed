------------------------ MODULE RatchetSessionProofs ------------------------
(***************************************************************************)
(* Proofs about two members and their session, for any MAX_SKIP, any       *)
(* number of messages and any number of crashes.                           *)
(*                                                                         *)
(* The proof goes up in four invariants, each inductive relative to the    *)
(* ones before it.                                                         *)
(*                                                                         *)
(*   IInv      what a session state, in memory or on disk, may hold        *)
(*             (Sound), what the call under way works on (Flow), that a    *)
(*             root holds only pairs its owner has generated (Births),     *)
(*             that the sending chain is past what was handed over         *)
(*             (Aheads) and the receiving side past what was opened        *)
(*             (AllPassed).  It gives TypeOK, KeysAreFresh and             *)
(*             ForwardSecrecy.                                             *)
(*   AgeInv    the pairs of a member in the roots it knows of are no       *)
(*             younger than the pair it sends under, and one pair begins   *)
(*             one chain.  It gives Heals.                                 *)
(*   OrderInv  the roots of a member are stages of one sequence, and the   *)
(*             numbers n and pn of its messages account for the distance   *)
(*             between any two of them.                                    *)
(*   OpenInv   unless envelopes are redelivered: a state is at most one    *)
(*             root ahead of the peer's disk, and whatever it has not      *)
(*             opened is still open to it.  It gives GenuineOpens.         *)
(*                                                                         *)
(* What one call of the ratchet does to each of these is in RatchetLemmas; *)
(* here are the steps of the two members.                                  *)
(***************************************************************************)
EXTENDS RatchetSession, RatchetLemmas, FiniteSetTheorems, TLAPS

\* The initiator's roots are of odd length, the responder's of even length.
Side(p) == IF p = Initiator THEN 1 ELSE 0

\* p's end of the session.
Of(p) ==
  [me |-> p, peer |-> Peer(p), side |-> Side(p), first |-> <<Responder, 0>>, base |-> 0]

\* A message as the peer of m.to made it.
Genuine(m) == m \in Message /\ Made(Of(m.to), m)

SentBy(p) == {m \in sent : m.to = Peer(p)}
SentTo(p) == {m \in sent : m.to = p}

\* What p handed over of the chain of st, st is past.
Ahead(p, st) == \A x \in SentBy(p) : x.key.root = st.rk => x.key.step < st.ns

OpenedTo(p) == {m \in opened : m.to = p}

\* What p has opened and its disk does not know of yet.
Fresh(p) == IF pc[p] = "opened" THEN {held[p]} ELSE {}

-----------------------------------------------------------------------------
\* The first invariant.
Domains ==
  /\ DOMAIN mem = Member /\ DOMAIN disk = Member /\ DOMAIN pc = Member /\ DOMAIN held = Member
  /\ DOMAIN unlogged = Member /\ DOMAIN log = Member
  /\ DOMAIN pairs = Member /\ DOMAIN encrypted = Member

States ==
  /\ \A p \in Member : Sound(Of(p), mem[p]) /\ Sound(Of(p), disk[p])
  /\ \A p \in Member : pairs[p] \in Nat /\ encrypted[p] \in Nat

Flow ==
  /\ \A m \in sent : Genuine(m)
  /\ mail \cup opened \cup acked \cup {f.msg : f \in failed} \subseteq sent
  /\ \A p \in Member : unlogged[p] \cup log[p] \subseteq OpenedTo(p) \ Fresh(p)
  /\ \A p \in Member :
      /\ pc[p] \in {"idle", "encrypted", "saved", "opened"}
      /\ (held[p] = Null) = (pc[p] = "idle")
      /\ pc[p] = "opened" => held[p] \in OpenedTo(p)
      /\ pc[p] \in {"encrypted", "saved"} =>
           /\ Genuine(held[p]) /\ held[p].to = Peer(p)
           /\ held[p].key.root = mem[p].rk /\ held[p].n + 1 = mem[p].ns
           /\ \A x \in SentBy(p) : x.key.root = mem[p].rk => x.n < held[p].n
      /\ pc[p] = "saved" => disk[p] = mem[p]

Births ==
  \A p \in Member :
    /\ mem[p].dhs[2] <= pairs[p] /\ disk[p].dhs[2] <= pairs[p]
    /\ UpTo(p, mem[p].rk, pairs[p]) /\ UpTo(p, disk[p].rk, pairs[p])
    /\ \A x \in SentBy(p) : UpTo(p, x.key.root, pairs[p])

Aheads == \A p \in Member : Ahead(p, mem[p]) /\ Ahead(p, disk[p])

AllPassed ==
  \A p \in Member :
    /\ \A m \in OpenedTo(p) : Passed(mem[p], m.key)
    /\ \A m \in OpenedTo(p) \ Fresh(p) : Passed(disk[p], m.key)

IInv ==
  /\ Domains /\ States /\ Flow /\ Births /\ Aheads /\ AllPassed
  /\ KeysAreFresh /\ crashes \in 0 .. MaxMishaps

-----------------------------------------------------------------------------
\* There are two members, each the other's peer.
LEMMA Members ==
  /\ Initiator \in Member /\ Responder \in Member /\ Initiator # Responder
  /\ Peer(Initiator) = Responder /\ Peer(Responder) = Initiator
  /\ \A p \in Member : Peer(p) \in Member /\ Peer(p) # p /\ Peer(Peer(p)) = p
  /\ \A p, q \in Member : q = p \/ q = Peer(p)
<1>1. Peer(Initiator) = Responder /\ Peer(Responder) = Initiator
  BY BoundsAssumption DEF Peer
<1> QED
  BY <1>1, BoundsAssumption

\* The ends of the session are those of the two members.
LEMMA Sides ==
  ASSUME NEW p \in Member
  PROVE  /\ Of(p) \in End /\ Of(p).me = p /\ Of(p).peer = Peer(p) /\ Of(p).side = Side(p)
         /\ Of(p).first = <<Responder, 0>> /\ Of(p).base = 0 /\ Other(Of(p)) = Of(Peer(p))
         /\ Peer(p) \in Member /\ Peer(p) # p /\ Peer(Peer(p)) = p
<1>1. Peer(p) \in Member /\ Peer(p) # p /\ Peer(Peer(p)) = p /\ <<Responder, 0>> \in Pair
  BY Members DEF Pair
<1>2. Side(p) \in {0, 1} /\ Side(Peer(p)) = 1 - Side(p)
  BY Members DEF Side
<1> QED
  BY <1>1, <1>2 DEF Of, Other, End

\* The steps of the members keep the first invariant, one action at a time.
LEMMA EncryptMessageKeeps ==
  ASSUME IInv, NEW p \in Member, EncryptMessage(p)
  PROVE  IInv'
<1> USE DEF IInv
<1> DEFINE s == Encrypt(mem[p]).st
           m == Envelope(p, Encrypt(mem[p]).msg)
<1>1. /\ pc[p] = "idle" /\ mem[p].cks # Null
      /\ mem' = [mem EXCEPT ![p] = s] /\ held' = [held EXCEPT ![p] = m]
      /\ pc' = [pc EXCEPT ![p] = "encrypted"] /\ encrypted' = [encrypted EXCEPT ![p] = @ + 1]
      /\ UNCHANGED <<disk, mail, unlogged, log, pairs, sent, opened, failed, acked, crashes, leak>>
  BY DEF EncryptMessage
<1>2. Sound(Of(p), mem[p]) /\ Sound(Of(p), disk[p])
  BY DEF States
<1>3. /\ Sound(Of(p), s) /\ \A key \in ChainKey : Passed(mem[p], key) => Passed(s, key)
      /\ s.dhs = mem[p].dhs /\ s.rk = mem[p].rk /\ s.ns = mem[p].ns + 1
  BY <1>1, <1>2, Encrypting, Sides
<1>4. /\ m = [to |-> Peer(p), text |-> encrypted[p], dh |-> mem[p].dhs, pn |-> mem[p].pn,
              n |-> mem[p].ns, key |-> mem[p].cks]
  BY DEF Envelope, Encrypt
<1>5. /\ mem[p].cks = [root |-> mem[p].rk, step |-> mem[p].ns] /\ mem[p].cks \in ChainKey
      /\ Receiving(Of(Peer(p)), mem[p].rk, mem[p].dhs)
      /\ mem[p].dhs \in Pair /\ mem[p].pn \in Nat /\ mem[p].ns \in Nat
  BY <1>1, <1>2, Sides DEF Sound, IsState
<1>6. /\ m \in Message /\ m.to = Peer(p) /\ m.key.root = mem[p].rk
      /\ m.n = mem[p].ns /\ m.key.step = m.n /\ m.dh = mem[p].dhs
  BY <1>4, <1>5, Members DEF Message, States
<1>7. Genuine(m) /\ m # Null
  BY <1>5, <1>6, BoundsAssumption DEF Genuine, Made, Message
<1> HIDE DEF s, m
<1>8. Domains'
  BY <1>1 DEF Domains
<1>9. /\ mem'[p] = s /\ pc'[p] = "encrypted" /\ held'[p] = m /\ encrypted'[p] = encrypted[p] + 1
      /\ \A q \in Member \ {p} : /\ mem'[q] = mem[q] /\ pc'[q] = pc[q] /\ held'[q] = held[q]
                                 /\ encrypted'[q] = encrypted[q]
  BY <1>1 DEF Domains
<1>10. States'
  BY <1>1, <1>3, <1>9 DEF States
<1>11. Flow'
  <2>1. \A x \in SentBy(p) : x.key.root = s.rk => x.n < m.n
    BY <1>3, <1>6 DEF Aheads, Ahead, Flow, Genuine, Made, SentBy
  <2>2. \A q \in Member : Fresh(q)' \subseteq Fresh(q)
    BY <1>9 DEF Fresh
  <2>3. /\ \A q \in Member : pc'[q] \in {"idle", "encrypted", "saved", "opened"}
        /\ \A q \in Member : (held'[q] = Null) = (pc'[q] = "idle")
    BY <1>7, <1>9 DEF Flow
  <2>4. ASSUME NEW q \in Member, pc'[q] = "opened"
        PROVE  held'[q] \in OpenedTo(q)'
    BY <1>1, <1>9, <2>4 DEF Flow, OpenedTo
  <2>5. ASSUME NEW q \in Member, pc'[q] \in {"encrypted", "saved"}
        PROVE  /\ Genuine(held'[q]) /\ held'[q].to = Peer(q)
               /\ held'[q].key.root = mem'[q].rk /\ held'[q].n + 1 = mem'[q].ns
               /\ \A x \in SentBy(q)' : x.key.root = mem'[q].rk => x.n < held'[q].n
               /\ pc'[q] = "saved" => disk'[q] = mem'[q]
    <3>1. CASE q = p
      BY <1>1, <1>3, <1>6, <1>7, <1>9, <2>1, <3>1 DEF SentBy
    <3>2. CASE q # p
      BY <1>1, <1>9, <2>5, <3>2 DEF Flow, SentBy
    <3> QED
      BY <3>1, <3>2
  <2> QED
    BY <1>1, <2>2, <2>3, <2>4, <2>5 DEF Flow, OpenedTo
<1>12. Births'
  BY <1>1, <1>3, <1>9 DEF Births, SentBy
<1>13. Aheads'
  <2>1. Ahead(p, s)
    BY <1>3, <1>5 DEF Aheads, Ahead, Flow, Genuine, Made, SentBy, Message
  <2> QED
    BY <1>1, <1>9, <2>1 DEF Aheads, Ahead, SentBy
<1>14. AllPassed'
  BY <1>1, <1>3, <1>9 DEF AllPassed, OpenedTo, Fresh, Flow, Genuine, Made, Message
<1> QED
  BY <1>1, <1>8, <1>10, <1>11, <1>12, <1>13, <1>14 DEF KeysAreFresh

\* A save makes the disk's state the running one.
LEMMA SaveBeforeSendKeeps ==
  ASSUME IInv, NEW p \in Member, SaveBeforeSend(p)
  PROVE  IInv'
<1> USE DEF IInv
<1>1. /\ pc[p] = "encrypted" /\ pc' = [pc EXCEPT ![p] = "saved"]
      /\ disk' = [disk EXCEPT ![p] = mem[p]]
      /\ UNCHANGED <<mem, held, mail, unlogged, log, pairs, encrypted, sent, opened, failed,
                     acked, crashes, leak>>
  BY DEF SaveBeforeSend, history
<1>2. Domains'
  BY <1>1 DEF Domains
<1>3. /\ pc'[p] = "saved" /\ disk'[p] = mem[p]
      /\ \A q \in Member \ {p} : pc'[q] = pc[q] /\ disk'[q] = disk[q]
  BY <1>1 DEF Domains
<1>4. \A q \in Member : Fresh(q)' = Fresh(q)
  BY <1>1, <1>3 DEF Fresh
<1>5. Fresh(p) = {}
  BY <1>1 DEF Fresh
<1>6. States'
  BY <1>1, <1>3 DEF States
<1>7. Flow'
  <2>1. /\ \A q \in Member : pc'[q] \in {"idle", "encrypted", "saved", "opened"}
        /\ \A q \in Member : (held'[q] = Null) = (pc'[q] = "idle")
    BY <1>1, <1>3 DEF Flow
  <2>2. ASSUME NEW q \in Member, pc'[q] = "opened"
        PROVE  held'[q] \in OpenedTo(q)'
    BY <1>1, <1>3, <2>2 DEF Flow, OpenedTo
  <2>3. ASSUME NEW q \in Member, pc'[q] \in {"encrypted", "saved"}
        PROVE  /\ Genuine(held'[q]) /\ held'[q].to = Peer(q)
               /\ held'[q].key.root = mem'[q].rk /\ held'[q].n + 1 = mem'[q].ns
               /\ \A x \in SentBy(q)' : x.key.root = mem'[q].rk => x.n < held'[q].n
               /\ pc'[q] = "saved" => disk'[q] = mem'[q]
    BY <1>1, <1>3, <2>3 DEF Flow, SentBy
  <2> QED
    BY <1>1, <1>4, <2>1, <2>2, <2>3 DEF Flow, OpenedTo
<1>8. Births'
  BY <1>1, <1>3 DEF Births, SentBy
<1>9. Aheads'
  BY <1>1, <1>3 DEF Aheads, Ahead, SentBy
<1>10. AllPassed'
  BY <1>1, <1>3, <1>4, <1>5 DEF AllPassed, OpenedTo
<1> QED
  BY <1>1, <1>2, <1>6, <1>7, <1>8, <1>9, <1>10 DEF KeysAreFresh

\* A message that is handed over is newer than every other of its chain.
LEMMA HandOverKeeps ==
  ASSUME IInv, NEW p \in Member, HandOver(p)
  PROVE  IInv'
<1> USE DEF IInv
<1> DEFINE m == held[p]
<1>1. /\ pc[p] = "saved" /\ pc' = [pc EXCEPT ![p] = "idle"] /\ held' = [held EXCEPT ![p] = Null]
      /\ mail' = mail \cup {m} /\ sent' = sent \cup {m}
      /\ UNCHANGED <<mem, disk, unlogged, log, pairs, encrypted, opened, failed, acked, crashes,
                     leak>>
  BY DEF HandOver, NoMessage
<1>2. /\ Genuine(m) /\ m.to = Peer(p) /\ m.key.root = mem[p].rk /\ m.n + 1 = mem[p].ns
      /\ disk[p] = mem[p] /\ \A x \in SentBy(p) : x.key.root = mem[p].rk => x.n < m.n
  BY <1>1 DEF Flow
<1>3. m \in Message /\ m.key.step = m.n /\ m.n \in Nat
  BY <1>2, Members DEF Genuine, Made, Message
<1> HIDE DEF m
<1>4. Domains'
  BY <1>1 DEF Domains
<1>5. /\ pc'[p] = "idle" /\ held'[p] = Null
      /\ \A q \in Member \ {p} : pc'[q] = pc[q] /\ held'[q] = held[q]
  BY <1>1 DEF Domains
<1>6. \A q \in Member : Fresh(q)' = Fresh(q)
  BY <1>1, <1>5 DEF Fresh
<1>7. /\ SentBy(p)' = SentBy(p) \cup {m}
      /\ \A q \in Member \ {p} : SentBy(q)' = SentBy(q)
  BY <1>1, <1>2, Members DEF SentBy
<1>8. States'
  BY <1>1 DEF States
<1>9. Flow'
  <2>1. /\ \A q \in Member : pc'[q] \in {"idle", "encrypted", "saved", "opened"}
        /\ \A q \in Member : (held'[q] = Null) = (pc'[q] = "idle")
    BY <1>1, <1>5 DEF Flow
  <2>2. ASSUME NEW q \in Member, pc'[q] = "opened"
        PROVE  held'[q] \in OpenedTo(q)'
    BY <1>1, <1>5, <2>2 DEF Flow, OpenedTo
  <2>3. ASSUME NEW q \in Member, pc'[q] \in {"encrypted", "saved"}
        PROVE  /\ Genuine(held'[q]) /\ held'[q].to = Peer(q)
               /\ held'[q].key.root = mem'[q].rk /\ held'[q].n + 1 = mem'[q].ns
               /\ \A x \in SentBy(q)' : x.key.root = mem'[q].rk => x.n < held'[q].n
               /\ pc'[q] = "saved" => disk'[q] = mem'[q]
    <3>1. q # p
      BY <1>5, <2>3
    <3> QED
      BY <1>1, <1>5, <1>7, <2>3, <3>1 DEF Flow
  <2>4. mail' \cup opened' \cup acked' \cup {f.msg : f \in failed'} \subseteq sent'
    BY <1>1 DEF Flow
  <2>5. \A x \in sent' : Genuine(x)
    BY <1>1, <1>2 DEF Flow
  <2>6. \A q \in Member : unlogged'[q] \cup log'[q] \subseteq OpenedTo(q)' \ Fresh(q)'
    BY <1>1, <1>6 DEF Flow, OpenedTo
  <2> QED
    BY <2>1, <2>2, <2>3, <2>4, <2>5, <2>6 DEF Flow
<1>10. Births'
  <2>1. UpTo(p, m.key.root, pairs[p])
    BY <1>2 DEF Births
  <2>2. /\ \A q \in Member : \A x \in SentBy(q)' : UpTo(q, x.key.root, pairs[q])
        /\ \A q \in Member : UpTo(q, mem[q].rk, pairs[q]) /\ UpTo(q, disk[q].rk, pairs[q])
    BY <1>7, <2>1 DEF Births
  <2> QED
    BY <1>1, <2>2 DEF Births
<1>11. Aheads'
  <2>1. Ahead(p, mem[p])' /\ Ahead(p, disk[p])'
    <3>1. m.key.step < mem[p].ns
      BY <1>2, <1>3
    <3> QED
      BY <1>1, <1>2, <1>7, <3>1 DEF Aheads, Ahead
  <2> QED
    BY <1>1, <1>7, <2>1 DEF Aheads, Ahead
<1>12. AllPassed'
  BY <1>1, <1>6 DEF AllPassed, OpenedTo
<1>13. KeysAreFresh'
  <2>1. ASSUME NEW x \in sent, x.key = m.key PROVE FALSE
    <3>1. Genuine(x) /\ x.to \in Member /\ x.key.root \in Root
      BY DEF Flow, Genuine, Made, Message, ChainKey, Root
    <3>2. CASE x.to = Peer(p)
      BY <1>2, <1>3, <2>1, <3>1, <3>2 DEF SentBy, Genuine, Made
    <3>3. CASE x.to = p
      <4>1. Parity(Of(Peer(p)), x.key.root)
        BY <3>1, <3>3, Sides DEF Genuine, Made, Receiving
      <4>2. Parity(Of(p), m.key.root)
        BY <1>2, Members, Sides DEF Genuine, Made, Receiving
      <4> QED
        BY <2>1, <3>1, <4>1, <4>2, Parities, Sides
    <3> QED
      BY <3>1, <3>2, <3>3, Members
  <2> QED
    BY <1>1, <2>1 DEF KeysAreFresh
<1> QED
  BY <1>1, <1>4, <1>8, <1>9, <1>10, <1>11, <1>12, <1>13

\* The disk learns of the opened message, which stops being fresh.
LEMMA SaveOpenedKeeps ==
  ASSUME IInv, NEW p \in Member, SaveOpened(p)
  PROVE  IInv'
<1> USE DEF IInv
<1>1. /\ pc[p] = "opened" /\ pc' = [pc EXCEPT ![p] = "idle"] /\ held' = [held EXCEPT ![p] = Null]
      /\ disk' = [disk EXCEPT ![p] = mem[p]]
      /\ unlogged' = [unlogged EXCEPT ![p] = @ \cup {held[p]}]
      /\ UNCHANGED <<mem, mail, log, pairs, encrypted, sent, opened, failed, acked, crashes, leak>>
  BY DEF SaveOpened, history, NoMessage
<1>2. held[p] \in OpenedTo(p)
  BY <1>1 DEF Flow
<1>3. Domains'
  BY <1>1 DEF Domains
<1>4. /\ pc'[p] = "idle" /\ held'[p] = Null /\ disk'[p] = mem[p]
      /\ unlogged'[p] = unlogged[p] \cup {held[p]}
      /\ \A q \in Member \ {p} : /\ pc'[q] = pc[q] /\ held'[q] = held[q] /\ disk'[q] = disk[q]
                                 /\ unlogged'[q] = unlogged[q]
  BY <1>1 DEF Domains
<1>5. Fresh(p)' = {} /\ \A q \in Member \ {p} : Fresh(q)' = Fresh(q)
  BY <1>1, <1>4 DEF Fresh
<1>6. States'
  BY <1>1, <1>4 DEF States
<1>7. Flow'
  <2>1. /\ \A q \in Member : pc'[q] \in {"idle", "encrypted", "saved", "opened"}
        /\ \A q \in Member : (held'[q] = Null) = (pc'[q] = "idle")
    BY <1>1, <1>4 DEF Flow
  <2>2. ASSUME NEW q \in Member, pc'[q] = "opened"
        PROVE  held'[q] \in OpenedTo(q)'
    BY <1>1, <1>4, <2>2 DEF Flow, OpenedTo
  <2>3. ASSUME NEW q \in Member, pc'[q] \in {"encrypted", "saved"}
        PROVE  /\ Genuine(held'[q]) /\ held'[q].to = Peer(q)
               /\ held'[q].key.root = mem'[q].rk /\ held'[q].n + 1 = mem'[q].ns
               /\ \A x \in SentBy(q)' : x.key.root = mem'[q].rk => x.n < held'[q].n
               /\ pc'[q] = "saved" => disk'[q] = mem'[q]
    BY <1>1, <1>4, <2>3 DEF Flow, SentBy
  <2>4. \A q \in Member : unlogged'[q] \cup log'[q] \subseteq OpenedTo(q)' \ Fresh(q)'
    BY <1>1, <1>2, <1>4, <1>5 DEF Flow, OpenedTo
  <2> QED
    BY <1>1, <2>1, <2>2, <2>3, <2>4 DEF Flow
<1>8. Births'
  BY <1>1, <1>4 DEF Births, SentBy
<1>9. Aheads'
  BY <1>1, <1>4 DEF Aheads, Ahead, SentBy
<1>10. AllPassed'
  BY <1>1, <1>4, <1>5 DEF AllPassed, OpenedTo
<1> QED
  BY <1>1, <1>3, <1>6, <1>7, <1>8, <1>9, <1>10 DEF KeysAreFresh

\* What is left of a member's state where an action only moves messages.
LEMMA SameSessions ==
  ASSUME IInv, UNCHANGED <<mem, disk, pc, held, pairs, encrypted, sent, opened, failed, crashes>>,
         Domains', mail' \subseteq mail, acked' \subseteq sent,
         \A q \in Member : unlogged'[q] \cup log'[q] \subseteq unlogged[q] \cup log[q]
  PROVE  IInv'
<1> USE DEF IInv
<1>1. States'
  BY DEF States
<1>2. Flow'
  BY DEF Flow, OpenedTo, Fresh, SentBy
<1>3. Births' /\ Aheads' /\ KeysAreFresh'
  BY DEF Births, SentBy, Aheads, Ahead, KeysAreFresh
<1>4. AllPassed'
  BY DEF AllPassed, OpenedTo, Fresh
<1> QED
  BY <1>1, <1>2, <1>3, <1>4

\* The event log and the mail do not touch a session.
LEMMA LogEventKeeps ==
  ASSUME IInv, NEW p \in Member, NEW m \in unlogged[p], LogEvent(p, m)
  PROVE  IInv'
<1>1. /\ unlogged' = [unlogged EXCEPT ![p] = @ \ {m}] /\ log' = [log EXCEPT ![p] = @ \cup {m}]
      /\ UNCHANGED <<mem, disk, pc, held, mail, pairs, encrypted, sent, opened, failed,
                     acked, crashes, leak>>
  BY DEF LogEvent, history
<1>2. Domains'
  BY <1>1 DEF IInv, Domains
<1>3. \A q \in Member : unlogged'[q] \cup log'[q] \subseteq unlogged[q] \cup log[q]
  BY <1>1 DEF IInv, Domains
<1>4. acked' \subseteq sent
  BY <1>1 DEF IInv, Flow
<1> QED
  BY <1>1, <1>2, <1>3, <1>4, SameSessions

\* An acknowledgement takes an envelope out of the mail.
LEMMA AcknowledgeKeeps ==
  ASSUME IInv, NEW p \in Member, NEW m \in mail, Acknowledge(p, m)
  PROVE  IInv'
<1>1. /\ mail' = mail \ {m} /\ acked' = acked \cup {m}
      /\ UNCHANGED <<mem, disk, pc, held, unlogged, log, pairs, encrypted, sent, opened, failed,
                     crashes, leak>>
  BY DEF Acknowledge
<1>2. Domains'
  BY <1>1 DEF IInv, Domains
<1>3. mail' \subseteq mail /\ acked' \subseteq sent
  BY <1>1 DEF IInv, Flow
<1> QED
  BY <1>1, <1>2, <1>3, SameSessions

\* A leak changes nothing of the members.
LEMMA LeakKeeps ==
  ASSUME IInv, NEW p \in Member, Leak(p)
  PROVE  IInv'
<1>1. UNCHANGED <<mem, disk, pc, held, mail, unlogged, log, pairs, encrypted, sent, opened,
                  failed, acked, crashes>>
  BY DEF Leak
<1>2. Domains' /\ acked' \subseteq sent
  BY <1>1 DEF IInv, Domains, Flow
<1> QED
  BY <1>1, <1>2, SameSessions

\* A crash goes back to the disk, and so to a state before what is lost.
LEMMA CrashKeeps ==
  ASSUME IInv, NEW p \in Member, Crash(p)
  PROVE  IInv'
<1> USE DEF IInv
<1>1. /\ mem' = [mem EXCEPT ![p] = disk[p]] /\ pc' = [pc EXCEPT ![p] = "idle"]
      /\ held' = [held EXCEPT ![p] = Null] /\ unlogged' = [unlogged EXCEPT ![p] = {}]
      /\ opened' = opened \ {held[p]} /\ crashes' = crashes + 1
      /\ UNCHANGED <<disk, mail, log, pairs, encrypted, sent, failed, acked, leak>>
  BY DEF Crash, NoMessage
<1>2. crashes' \in 0 .. MaxMishaps
  BY <1>1, BoundsAssumption DEF Crash, Mishaps
<1>3. Domains'
  BY <1>1 DEF Domains
<1>4. /\ pc'[p] = "idle" /\ held'[p] = Null /\ mem'[p] = disk[p] /\ unlogged'[p] = {}
      /\ \A q \in Member \ {p} : /\ pc'[q] = pc[q] /\ held'[q] = held[q] /\ mem'[q] = mem[q]
                                 /\ unlogged'[q] = unlogged[q]
  BY <1>1 DEF Domains
\* The message in the call that is lost was either just opened or never handed over.
<1>5. OpenedTo(p)' = OpenedTo(p) \ Fresh(p) /\ \A q \in Member \ {p} : OpenedTo(q)' = OpenedTo(q)
  <2>1. CASE pc[p] = "opened"
    BY <1>1, <2>1 DEF Flow, OpenedTo, Fresh
  <2>2. CASE pc[p] # "opened"
    <3>1. held[p] \notin opened
      <4>1. CASE pc[p] = "idle"
        BY <4>1, BoundsAssumption DEF Flow, Genuine, Made
      <4>2. CASE pc[p] \in {"encrypted", "saved"}
        BY <4>2 DEF Flow, SentBy, Genuine, Made, Message
      <4> QED
        BY <2>2, <4>1, <4>2 DEF Flow
    <3> QED
      BY <1>1, <2>2, <3>1 DEF OpenedTo, Fresh
  <2> QED
    BY <2>1, <2>2
<1>6. Fresh(p)' = {} /\ \A q \in Member \ {p} : Fresh(q)' = Fresh(q)
  BY <1>1, <1>4 DEF Fresh
<1>7. States'
  BY <1>1, <1>4 DEF States
<1>8. Flow'
  <2>1. /\ \A q \in Member : pc'[q] \in {"idle", "encrypted", "saved", "opened"}
        /\ \A q \in Member : (held'[q] = Null) = (pc'[q] = "idle")
    BY <1>1, <1>4 DEF Flow
  <2>2. ASSUME NEW q \in Member, pc'[q] = "opened"
        PROVE  held'[q] \in OpenedTo(q)'
    BY <1>1, <1>4, <1>5, <2>2 DEF Flow
  <2>3. ASSUME NEW q \in Member, pc'[q] \in {"encrypted", "saved"}
        PROVE  /\ Genuine(held'[q]) /\ held'[q].to = Peer(q)
               /\ held'[q].key.root = mem'[q].rk /\ held'[q].n + 1 = mem'[q].ns
               /\ \A x \in SentBy(q)' : x.key.root = mem'[q].rk => x.n < held'[q].n
               /\ pc'[q] = "saved" => disk'[q] = mem'[q]
    BY <1>1, <1>4, <2>3 DEF Flow, SentBy
  <2>4. \A q \in Member : unlogged'[q] \cup log'[q] \subseteq OpenedTo(q)' \ Fresh(q)'
    BY <1>1, <1>4, <1>5, <1>6 DEF Flow
  <2> QED
    BY <1>1, <2>1, <2>2, <2>3, <2>4 DEF Flow
<1>9. Births'
  BY <1>1, <1>4 DEF Births, SentBy
<1>10. Aheads'
  BY <1>1, <1>4 DEF Aheads, Ahead, SentBy
<1>11. AllPassed'
  <2>1. ASSUME NEW q \in Member
        PROVE  /\ \A m \in OpenedTo(q)' : Passed(mem'[q], m.key)
               /\ \A m \in OpenedTo(q)' \ Fresh(q)' : Passed(disk'[q], m.key)
    <3>1. CASE q = p
      BY <1>1, <1>4, <1>5, <1>6, <3>1 DEF AllPassed
    <3>2. CASE q # p
      BY <1>1, <1>4, <1>5, <1>6, <3>2 DEF AllPassed
    <3> QED
      BY <3>1, <3>2
  <2> QED
    BY <2>1 DEF AllPassed
<1> QED
  BY <1>1, <1>2, <1>3, <1>7, <1>8, <1>9, <1>10, <1>11 DEF KeysAreFresh

\* A received message passes through decrypt, with a pair not used before.
LEMMA ReceiveKeeps ==
  ASSUME IInv, NEW p \in Member, NEW m \in mail, Receive(p, m)
  PROVE  IInv'
<1> USE DEF IInv
<1> DEFINE fresh == <<p, pairs[p] + 1>>
           d == Decrypt(mem[p], m, fresh)
<1>1. /\ pc[p] = "idle" /\ m.to = p
      /\ mem' = [mem EXCEPT ![p] = d.st]
      /\ pairs' = [pairs EXCEPT ![p] = IF d.st.dhs = mem[p].dhs THEN @ ELSE @ + 1]
      /\ \/ /\ d.ok /\ pc' = [pc EXCEPT ![p] = "opened"] /\ held' = [held EXCEPT ![p] = m]
            /\ opened' = opened \cup {m} /\ UNCHANGED <<mail, failed, acked>>
         \/ /\ ~d.ok /\ mail' = mail \ {m} /\ acked' = acked \cup {m}
            /\ failed' = failed \cup {[msg |-> m, known |-> m \in opened, missing |-> Missing(m)]}
            /\ UNCHANGED <<pc, held, opened>>
      /\ UNCHANGED <<disk, unlogged, log, encrypted, sent, crashes, leak>>
  BY DEF Receive
<1>2. /\ Sound(Of(p), mem[p]) /\ m \in sent /\ Genuine(m)
      /\ fresh \in Pair /\ fresh[1] = p /\ fresh[2] = pairs[p] + 1
  BY DEF States, Flow, Pair
<1>3. /\ m # Null /\ m.key \in ChainKey /\ m.dh \in Pair /\ m.dh[1] = Peer(p) /\ Peer(p) # p
      /\ mem[p].rk \in Root /\ mem[p].dhs \in Pair
  BY <1>1, <1>2, BoundsAssumption, Members, Sides DEF Genuine, Made, Receiving, Message, Sound, IsState
<1>4. d = Decrypt(mem[p], m, fresh)
  OBVIOUS
<1> HIDE DEF d, fresh
<1>5. /\ Sound(Of(p), d.st) /\ d.ok \in BOOLEAN
      /\ \A key \in ChainKey : Passed(mem[p], key) => Passed(d.st, key)
      /\ d.ok => Passed(d.st, m.key) /\ ~Passed(mem[p], m.key)
      /\ SameSending(mem[p], d.st) \/ NewSending(mem[p], d.st, m.dh, fresh)
  BY <1>1, <1>2, <1>4, Decrypting, Sides DEF Genuine
<1>6. Domains'
  BY <1>1 DEF Domains
<1>7. /\ mem'[p] = d.st /\ pairs'[p] \in Nat /\ pairs[p] <= pairs'[p]
      /\ d.st.dhs # mem[p].dhs => pairs'[p] = pairs[p] + 1
      /\ \A q \in Member \ {p} : /\ mem'[q] = mem[q] /\ pairs'[q] = pairs[q]
                                 /\ pc'[q] = pc[q] /\ held'[q] = held[q]
      /\ \/ d.ok /\ pc'[p] = "opened" /\ held'[p] = m /\ opened' = opened \cup {m}
         \/ ~d.ok /\ pc'[p] = "idle" /\ held'[p] = Null /\ opened' = opened
  BY <1>1 DEF Domains, States, Flow
<1>8. \A q \in Member \ {p} : Fresh(q)' = Fresh(q) /\ OpenedTo(q)' = OpenedTo(q)
  <2> TAKE q \in Member \ {p}
  <2>1. Fresh(q)' = Fresh(q)
    BY <1>7 DEF Fresh
  <2>2. m.to # q /\ opened \subseteq opened' /\ opened' \subseteq opened \cup {m}
    BY <1>1, <1>7
  <2> QED
    BY <2>1, <2>2 DEF OpenedTo
<1>9. OpenedTo(p) \subseteq OpenedTo(p)' /\ OpenedTo(p)' \ Fresh(p)' \subseteq OpenedTo(p)
  BY <1>1, <1>7 DEF Fresh, OpenedTo
<1>10. States'
  BY <1>1, <1>5, <1>7 DEF States
<1>11. Flow'
  <2>1. /\ \A q \in Member : pc'[q] \in {"idle", "encrypted", "saved", "opened"}
        /\ \A q \in Member : (held'[q] = Null) = (pc'[q] = "idle")
    BY <1>1, <1>3, <1>7 DEF Flow
  <2>2. ASSUME NEW q \in Member, pc'[q] = "opened"
        PROVE  held'[q] \in OpenedTo(q)'
    BY <1>1, <1>7, <1>8, <2>2 DEF Flow, OpenedTo
  <2>3. ASSUME NEW q \in Member, pc'[q] \in {"encrypted", "saved"}
        PROVE  /\ Genuine(held'[q]) /\ held'[q].to = Peer(q)
               /\ held'[q].key.root = mem'[q].rk /\ held'[q].n + 1 = mem'[q].ns
               /\ \A x \in SentBy(q)' : x.key.root = mem'[q].rk => x.n < held'[q].n
               /\ pc'[q] = "saved" => disk'[q] = mem'[q]
    BY <1>1, <1>7, <2>3 DEF Flow, SentBy
  <2>4. ASSUME NEW q \in Member PROVE unlogged'[q] \cup log'[q] \subseteq OpenedTo(q)' \ Fresh(q)'
    <3>1. CASE q = p
      <4>1. unlogged[p] \cup log[p] \subseteq OpenedTo(p)
        BY DEF Flow
      <4>2. d.ok => m \notin OpenedTo(p)
        BY <1>5 DEF AllPassed
      <4> QED
        BY <1>1, <1>7, <1>9, <3>1, <4>1, <4>2 DEF Fresh
    <3>2. CASE q # p
      BY <1>1, <1>8, <3>2 DEF Flow
    <3> QED
      BY <3>1, <3>2
  <2>5. mail' \cup opened' \cup acked' \cup {f.msg : f \in failed'} \subseteq sent'
    BY <1>1, <1>2 DEF Flow
  <2> QED
    BY <1>1, <2>1, <2>2, <2>3, <2>4, <2>5 DEF Flow
\* A new root holds a pair its owner had never used before.
<1>12. NewSending(mem[p], d.st, m.dh, fresh) =>
         /\ pairs'[p] = pairs[p] + 1 /\ d.st.dhs = fresh
         /\ UpTo(p, d.st.rk, pairs[p] + 1) /\ \A r : UpTo(p, r, pairs[p]) => r # d.st.rk
  <2>1. SUFFICES ASSUME NewSending(mem[p], d.st, m.dh, fresh)
                 PROVE  /\ pairs'[p] = pairs[p] + 1 /\ d.st.dhs = fresh
                        /\ UpTo(p, d.st.rk, pairs[p] + 1)
                        /\ \A r : UpTo(p, r, pairs[p]) => r # d.st.rk
    OBVIOUS
  <2>2. pairs'[p] = pairs[p] + 1 /\ d.st.dhs = fresh /\ d.st.rk = NewRoot(mem[p], m.dh, fresh)
    BY <1>2, <1>3, <1>7, <2>1 DEF Births, States, Pair, NewSending
  <2>3. UpTo(p, mem[p].rk, pairs[p]) /\ mem[p].dhs[2] <= pairs[p] /\ pairs[p] \in Nat
    BY DEF Births, States
  <2> QED
    BY <1>2, <1>3, <2>2, <2>3, NewRootIsNew, Sides
<1>13. ASSUME NEW r, UpTo(p, r, pairs[p]), r \in Root PROVE UpTo(p, r, pairs'[p])
  <2>1. SUFFICES ASSUME NEW i \in 1 .. Len(r), NEW pair \in r[i], pair[1] = p
                 PROVE  pair[2] <= pairs'[p]
    BY DEF UpTo
  <2>2. pair \in Pair /\ pair[2] <= pairs[p]
    BY <1>13, <2>1 DEF UpTo, Root
  <2> QED
    BY <1>7, <2>2 DEF Pair, States
<1>14. Births'
  <2>1. /\ mem'[p].dhs[2] <= pairs'[p] /\ UpTo(p, mem'[p].rk, pairs'[p])
    <3>1. CASE SameSending(mem[p], d.st)
      <4>1. mem[p].dhs[2] <= pairs[p] /\ mem[p].dhs[2] \in Nat /\ UpTo(p, mem[p].rk, pairs[p])
        BY <1>3 DEF Births, Pair
      <4> QED
        BY <1>3, <1>7, <1>13, <3>1, <4>1 DEF SameSending, States
    <3>2. CASE NewSending(mem[p], d.st, m.dh, fresh)
      BY <1>2, <1>7, <1>12, <3>2
    <3> QED
      BY <1>5, <3>1, <3>2
  <2>2. disk'[p].dhs[2] <= pairs'[p] /\ UpTo(p, disk'[p].rk, pairs'[p])
    <3>1. disk[p].dhs[2] <= pairs[p] /\ disk[p].dhs \in Pair /\ disk[p].rk \in Root
      BY DEF Births, States, Sound, IsState
    <3> QED
      BY <1>1, <1>7, <1>13, <3>1 DEF Births, Pair, States
  <2>3. \A x \in SentBy(p) : UpTo(p, x.key.root, pairs'[p])
    BY <1>13 DEF Births, Flow, Genuine, Made, Message, ChainKey, SentBy, Root
  <2> QED
    BY <1>1, <1>7, <2>1, <2>2, <2>3 DEF Births, SentBy
<1>15. Aheads'
  <2>1. Ahead(p, d.st)
    <3>1. CASE SameSending(mem[p], d.st)
      BY <3>1 DEF Aheads, Ahead, SameSending
    <3>2. CASE NewSending(mem[p], d.st, m.dh, fresh)
      BY <1>12, <3>2 DEF Births, Ahead
    <3> QED
      BY <1>5, <3>1, <3>2
  <2> QED
    BY <1>1, <1>7, <2>1 DEF Aheads, Ahead, SentBy
<1>16. AllPassed'
  <2>1. ASSUME NEW q \in Member
        PROVE  /\ \A x \in OpenedTo(q)' : Passed(mem'[q], x.key)
               /\ \A x \in OpenedTo(q)' \ Fresh(q)' : Passed(disk'[q], x.key)
    <3>1. CASE q = p
      <4>1. ASSUME NEW x \in OpenedTo(p)' PROVE Passed(d.st, x.key)
        <5>1. CASE x \in OpenedTo(p)
          BY <1>5, <5>1 DEF AllPassed, Flow, OpenedTo, Genuine, Made, Message
        <5>2. CASE d.ok /\ x = m
          BY <1>5, <5>2
        <5> QED
          BY <1>7, <5>1, <5>2 DEF OpenedTo
      <4>2. \A x \in OpenedTo(p)' \ Fresh(p)' : Passed(disk[p], x.key)
        <5>1. Fresh(p) = {}
          BY <1>1 DEF Fresh
        <5> QED
          BY <1>9, <5>1 DEF AllPassed
      <4> QED
        BY <1>1, <1>7, <3>1, <4>1, <4>2
    <3>2. CASE q # p
      BY <1>1, <1>7, <1>8, <3>2 DEF AllPassed
    <3> QED
      BY <3>1, <3>2
  <2> QED
    BY <2>1 DEF AllPassed
<1> QED
  BY <1>1, <1>6, <1>10, <1>11, <1>14, <1>15, <1>16 DEF KeysAreFresh

-----------------------------------------------------------------------------
\* A session as X3DH leaves it satisfies the first invariant.
LEMMA Initially == Init => IInv
<1> SUFFICES ASSUME Init PROVE IInv
  OBVIOUS
<1>1. /\ Initiator \in Member /\ Responder \in Member /\ Initiator # Responder
      /\ Peer(Initiator) = Responder /\ Peer(Responder) = Initiator
      /\ \A p \in Member : p = Initiator \/ p = Responder
  BY Members, BoundsAssumption
<1> DEFINE a == <<Initiator, 0>>  b == <<Responder, 0>>  rk == Append(<<>>, DH(a, b))
<1>2. a \in Pair /\ b \in Pair /\ a # Null /\ b # Null
  BY <1>1, Absent DEF Pair
<1>3. rk \in Root /\ Len(rk) = 1 /\ rk[1] = {a, b} /\ <<>> \in Root /\ Len(<<>>) = 0
  <2>1. {a, b} \in SUBSET Pair
    BY <1>2
  <2> HIDE DEF a, b
  <2>2. Append(<<>>, {a, b}) = <<{a, b}>>
    OBVIOUS
  <2> QED
    BY <2>1, <2>2 DEF Root, DH
<1>4. /\ Sound(Of(Initiator), mem[Initiator])
      /\ mem[Initiator].dhs = a /\ mem[Initiator].rk = rk
  <2>1. mem[Initiator] = [dhs |-> a, dhr |-> b, rk |-> rk, cks |-> [root |-> rk, step |-> 0],
                          ckr |-> Null, ns |-> 0, nr |-> 0, pn |-> 0, skipped |-> NoSkipped]
    BY <1>1 DEF Init, InitSender, KdfRk, Chain
  <2>2. [root |-> rk, step |-> 0] \in ChainKey
    BY <1>3 DEF ChainKey, Root
  <2>3. DOMAIN NoSkipped = {}
    BY DEF NoSkipped
  <2>4. a[1] = Initiator /\ b[1] = Responder /\ rk[Len(rk)] = DH(b, a)
    BY <1>3 DEF DH
  <2> HIDE DEF rk, a, b
  <2>5. IsState(mem[Initiator])
    BY <1>2, <1>3, <2>1, <2>2, <2>3 DEF IsState
  <2>6. Parity(Of(Initiator), rk)
    BY <1>3, Sides, Members DEF Parity, Side
  <2>7. Receiving(Of(Responder), rk, a)
    BY <1>1, <1>2, <1>3, <2>4, <2>6, Sides DEF Receiving
  <2> QED
    BY <1>1, <1>2, <2>1, <2>3, <2>4, <2>5, <2>6, <2>7, Sides DEF Sound
<1>5. /\ Sound(Of(Responder), mem[Responder])
      /\ mem[Responder].dhs = b /\ mem[Responder].rk = <<>>
  <2>1. mem[Responder] = [dhs |-> b, dhr |-> Null, rk |-> <<>>, cks |-> Null,
                          ckr |-> Null, ns |-> 0, nr |-> 0, pn |-> 0, skipped |-> NoSkipped]
    BY <1>1 DEF Init, InitReceiver
  <2>2. DOMAIN NoSkipped = {}
    BY DEF NoSkipped
  <2>3. b[1] = Responder
    OBVIOUS
  <2> HIDE DEF b
  <2>4. IsState(mem[Responder])
    BY <1>2, <1>3, <2>1, <2>2 DEF IsState
  <2>5. Parity(Of(Responder), <<>>)
    BY <1>1, <1>3, Sides DEF Parity, Side
  <2> QED
    BY <1>1, <2>1, <2>2, <2>3, <2>4, <2>5, Sides DEF Sound
<1>6. Domains
  BY DEF Init, Domains
<1>7. \A p \in Member : pc[p] = "idle" /\ held[p] = Null /\ unlogged[p] = {} /\ log[p] = {}
                       /\ pairs[p] = 0 /\ encrypted[p] = 0 /\ disk[p] = mem[p]
  BY DEF Init, NoMessage
<1>8. mail = {} /\ sent = {} /\ opened = {} /\ failed = {} /\ acked = {} /\ crashes = 0
  BY DEF Init
<1>9. States
  BY <1>1, <1>4, <1>5, <1>7 DEF States
<1>10. Flow
  BY <1>7, <1>8 DEF Flow, OpenedTo, Fresh
<1>11. Births
  <2>1. UpTo(Initiator, rk, 0) /\ a[2] = 0 /\ b[2] = 0
    BY <1>3 DEF UpTo
  <2>2. UpTo(Responder, <<>>, 0)
    BY <1>3 DEF UpTo
  <2> HIDE DEF rk, a, b
  <2> QED
    BY <1>1, <1>4, <1>5, <1>7, <1>8, <2>1, <2>2 DEF Births, SentBy
<1>12. Aheads /\ AllPassed /\ KeysAreFresh
  BY <1>8 DEF Aheads, Ahead, AllPassed, KeysAreFresh, SentBy, OpenedTo
<1> QED
  BY <1>6, <1>8, <1>9, <1>10, <1>11, <1>12, BoundsAssumption DEF IInv

\* Every step keeps the first invariant.
LEMMA Inductive == IInv /\ [Next]_vars => IInv'
<1> SUFFICES ASSUME IInv, [Next]_vars PROVE IInv'
  OBVIOUS
<1>1. CASE UNCHANGED vars
  <2>1. Domains' /\ acked' \subseteq sent
    BY <1>1 DEF vars, IInv, Domains, Flow
  <2> QED
    BY <1>1, <2>1, SameSessions DEF vars
<1>2. ASSUME NEW p \in Member, EncryptMessage(p) PROVE IInv'
  BY <1>2, EncryptMessageKeeps
<1>3. ASSUME NEW p \in Member, SaveBeforeSend(p) PROVE IInv'
  BY <1>3, SaveBeforeSendKeeps
<1>4. ASSUME NEW p \in Member, HandOver(p) PROVE IInv'
  BY <1>4, HandOverKeeps
<1>5. ASSUME NEW p \in Member, NEW m \in mail, Receive(p, m) PROVE IInv'
  BY <1>5, ReceiveKeeps
<1>6. ASSUME NEW p \in Member, NEW m \in mail, Acknowledge(p, m) PROVE IInv'
  BY <1>6, AcknowledgeKeeps
<1>7. ASSUME NEW p \in Member, SaveOpened(p) PROVE IInv'
  BY <1>7, SaveOpenedKeeps
<1>8. ASSUME NEW p \in Member, NEW m \in unlogged[p], LogEvent(p, m) PROVE IInv'
  BY <1>8, LogEventKeeps
<1>9. ASSUME NEW p \in Member, Crash(p) PROVE IInv'
  BY <1>9, CrashKeeps
<1>10. ASSUME NEW p \in Member, Leak(p) PROVE IInv'
  BY <1>10, LeakKeeps
<1> QED
  BY <1>1, <1>2, <1>3, <1>4, <1>5, <1>6, <1>7, <1>8, <1>9, <1>10 DEF Next

\* The first invariant holds in every state.
LEMMA Invariance == Spec => []IInv
BY Initially, Inductive, PTL DEF Spec

\* The counters are numbers, skipped keys are filed under the peer's pairs, a
\* call holds a message exactly while it runs, and nothing is opened or logged
\* that was not handed over (transport.js:231-245, 316-335).
THEOREM TypeCorrect == Spec => []TypeOK
<1>1. IInv => TypeOK
  <2> SUFFICES ASSUME IInv PROVE TypeOK
    OBVIOUS
  <2>1. ASSUME NEW p \in Member
        PROVE  /\ mem[p].ns \in Nat /\ mem[p].nr \in Nat /\ mem[p].pn \in Nat
               /\ \A k \in DOMAIN mem[p].skipped : k[1][1] = Peer(p) /\ k[2] \in Nat
    <3>1. Sound(Of(p), mem[p])
      BY DEF IInv, States
    <3>2. \A k \in DOMAIN mem[p].skipped : k \in Pair \X Nat /\ k[1][1] = Peer(p)
      BY <3>1, Sides DEF Sound, IsState, Receiving
    <3> QED
      BY <3>1, <3>2 DEF Sound, IsState
  <2>2. ASSUME NEW p \in Member
        PROVE  /\ pc[p] \in {"idle", "encrypted", "saved", "opened"}
               /\ (held[p] = NoMessage) = (pc[p] = "idle")
               /\ unlogged[p] \cup log[p] \subseteq opened /\ pairs[p] \in Nat
    BY DEF IInv, Flow, States, OpenedTo, NoMessage
  <2> QED
    BY <2>1, <2>2 DEF TypeOK, IInv, Flow
<1> QED
  BY <1>1, Invariance, PTL

\* No message key seals two messages, whatever is lost in a crash between the
\* encryption and the network (transport.js:231-245).
THEOREM NoKeySealsTwice == Spec => []KeysAreFresh
<1>1. IInv => KeysAreFresh
  BY DEF IInv
<1> QED
  BY <1>1, Invariance, PTL

\* Neither the running app nor its disk can recompute the key of a message it
\* has handed over or finished receiving (ratchet.js:91-128; transport.js:232,
\* 328).
THEOREM OldKeysAreGone == Spec => []ForwardSecrecy
<1>1. IInv => ForwardSecrecy
  <2> SUFFICES ASSUME IInv, NEW p \in Member,
                      NEW m \in unlogged[p] \cup log[p] \cup {x \in sent : x.to # p},
                      NEW st \in {mem[p], disk[p]}
               PROVE  ~Holds(st, m.key)
    BY DEF ForwardSecrecy
  <2>1. Sound(Of(p), st) /\ IsState(st)
    <3>1. Sound(Of(p), mem[p]) /\ Sound(Of(p), disk[p])
      BY DEF IInv, States
    <3> QED
      BY <3>1 DEF Sound
  <2>2. CASE m \in unlogged[p] \cup log[p]
    <3>1. Passed(st, m.key)
      BY <2>2 DEF IInv, Flow, AllPassed
    <3>2. ~Derives(st.cks, m.key)
      BY <2>1, <3>1 DEF Passed, Derives, Sound
    <3> QED
      BY <3>1, <3>2 DEF Passed, Holds
  <2>3. CASE m \in sent /\ m.to # p
    <3>1. /\ Genuine(m) /\ m.to = Peer(p) /\ m.key \in ChainKey
          /\ m.key.root = st.rk => m.key.step < st.ns
      BY <2>3, Members DEF IInv, Flow, Genuine, Made, Message, Aheads, Ahead, SentBy
    <3>2. m.key.root \in Root /\ Parity(Of(p), m.key.root)
      BY <3>1, Members, Sides DEF Genuine, Made, Receiving, ChainKey, Root
    <3>3. ~Derives(st.cks, m.key)
      BY <2>1, <3>1 DEF Derives, Sound, IsState, ChainKey
    <3>4. ~Derives(st.ckr, m.key)
      BY <2>1, <3>2, Parities, Sides DEF Derives, Sound, Receiving
    <3>5. \A k \in DOMAIN st.skipped : st.skipped[k] # m.key
      BY <2>1, <3>2, Parities, Sides DEF Sound, Receiving
    <3> QED
      BY <3>3, <3>4, <3>5 DEF Holds
  <2> QED
    BY <2>2, <2>3
<1> QED
  BY <1>1, Invariance, PTL

-----------------------------------------------------------------------------
\* One pair begins one chain, in memory, on disk and among what was handed over.
RootOf(st, S) == \A x \in S : x.dh = st.dhs => x.key.root = st.rk

OneRoots ==
  /\ \A p \in Member : RootOf(mem[p], SentBy(p)) /\ RootOf(disk[p], SentBy(p))
  /\ \A p \in Member : \A x, y \in SentBy(p) : x.dh = y.dh => x.key.root = y.key.root
  /\ \A p \in Member : pc[p] \in {"encrypted", "saved"} => held[p].dh = mem[p].dhs

Grown == \A p \in Member : Aged(Of(p), mem[p]) /\ Aged(Of(p), disk[p])

Leaked ==
  leak # Null => leak.owner \in Member /\ Sound(Of(leak.owner), leak.st) /\ Aged(Of(leak.owner), leak.st)

AgeInv == OneRoots /\ Grown /\ Leaked

\* X3DH mixes pair 0 of both.
LEMMA InitiallyAged == Init => AgeInv
<1> SUFFICES ASSUME Init PROVE AgeInv
  OBVIOUS
<1>3. Aged(Of(Initiator), mem[Initiator])
  <2> DEFINE a == <<Initiator, 0>>  b == <<Responder, 0>>  rk == Append(<<>>, DH(a, b))
  <2>1. mem[Initiator] = [dhs |-> a, dhr |-> b, rk |-> rk, cks |-> [root |-> rk, step |-> 0],
                          ckr |-> Null, ns |-> 0, nr |-> 0, pn |-> 0, skipped |-> NoSkipped]
    BY Members DEF Init, InitSender, KdfRk, Chain
  <2>2. a \in Pair /\ b \in Pair /\ a # Null /\ b # Null /\ a[2] = 0 /\ b[2] = 0
    BY Members, Absent DEF Pair
  <2>3. rk \in Root /\ Len(rk) = 1 /\ rk[1] = {a, b}
    <3>1. {a, b} \in SUBSET Pair
      BY <2>2
    <3> HIDE DEF a, b
    <3>2. Append(<<>>, {a, b}) = <<{a, b}>>
      OBVIOUS
    <3> QED
      BY <3>1, <3>2 DEF Root, DH
  <2>4. [root |-> rk, step |-> 0] # Null
    <3> HIDE DEF rk
    <3>1. [root |-> rk, step |-> 0] \in ChainKey
      BY <2>3 DEF ChainKey, Root
    <3> QED
      BY <3>1, Absent
  <2> HIDE DEF a, b, rk
  <2>5. UpTo(Initiator, rk, 0)
    BY <2>2, <2>3 DEF UpTo
  <2>6. DOMAIN NoSkipped = {}
    BY DEF NoSkipped
  <2>7. rk[Len(rk)] = DH(a, b)
    BY <2>3 DEF DH
  <2> QED
    <3>1. /\ mem[Initiator].dhs = a /\ mem[Initiator].dhr = b /\ mem[Initiator].rk = rk
          /\ mem[Initiator].cks = [root |-> rk, step |-> 0] /\ mem[Initiator].ckr = Null
          /\ mem[Initiator].skipped = NoSkipped
      BY <2>1
    <3>2. ~(Len(rk) > 1)
      BY <2>3
    <3> QED
      BY <2>2, <2>4, <2>5, <2>6, <2>7, <3>1, <3>2, Sides, Members DEF Aged
<1>4. Aged(Of(Responder), mem[Responder])
  <2>1. mem[Responder] = [dhs |-> <<Responder, 0>>, dhr |-> Null, rk |-> <<>>, cks |-> Null,
                          ckr |-> Null, ns |-> 0, nr |-> 0, pn |-> 0, skipped |-> NoSkipped]
    BY Members DEF Init, InitReceiver
  <2>2. DOMAIN NoSkipped = {}
    BY DEF NoSkipped
  <2>3. UpTo(Responder, <<>>, 0) /\ Len(<<>>) = 0
    BY DEF UpTo
  <2> QED
    BY <2>1, <2>2, <2>3, Sides, Members DEF Aged
<1>5. disk = mem /\ sent = {} /\ leak = Null /\ \A p \in Member : pc[p] = "idle"
  BY DEF Init
<1>6. Grown
  BY <1>3, <1>4, <1>5, Members, BoundsAssumption DEF Grown
<1>7. OneRoots
  BY <1>5 DEF OneRoots, RootOf, SentBy
<1> QED
  BY <1>5, <1>6, <1>7 DEF AgeInv, Leaked

\* What an action of p leaves alone.
OthersKept(p) ==
  \A q \in Member \ {p} :
    mem'[q] = mem[q] /\ disk'[q] = disk[q] /\ pc'[q] = pc[q] /\ held'[q] = held[q]

\* The steps of p that hand nothing over keep the second invariant, if p does.
LEMMA AgedKept ==
  ASSUME IInv, AgeInv, UNCHANGED <<sent, leak>>, NEW p \in Member,
         OthersKept(p),
         Aged(Of(p), mem'[p]), Aged(Of(p), disk'[p]),
         RootOf(mem'[p], SentBy(p)), RootOf(disk'[p], SentBy(p)),
         pc'[p] \in {"encrypted", "saved"} => held'[p].dh = mem'[p].dhs
  PROVE  AgeInv'
<1>1. Leaked'
  BY DEF AgeInv, Leaked
<1>2. Grown'
  BY DEF AgeInv, Grown, OthersKept
<1>3. OneRoots'
  <2>1. \A q \in Member : SentBy(q)' = SentBy(q)
    BY DEF SentBy
  <2> QED
    BY <2>1 DEF AgeInv, OneRoots, OthersKept
<1> QED
  BY <1>1, <1>2, <1>3 DEF AgeInv

\* Every step keeps the second invariant.
LEMMA Aging == IInv /\ AgeInv /\ [Next]_vars => AgeInv'
<1> SUFFICES ASSUME IInv, AgeInv, [Next]_vars PROVE AgeInv'
  OBVIOUS
<1>1. \A p \in Member :
        /\ Sound(Of(p), mem[p]) /\ Sound(Of(p), disk[p]) /\ Aged(Of(p), mem[p]) /\ Aged(Of(p), disk[p])
        /\ RootOf(mem[p], SentBy(p)) /\ RootOf(disk[p], SentBy(p))
        /\ pc[p] \in {"encrypted", "saved"} => held[p].dh = mem[p].dhs
  BY DEF IInv, States, AgeInv, Grown, OneRoots
<1>2. /\ DOMAIN mem = Member /\ DOMAIN disk = Member /\ DOMAIN pc = Member /\ DOMAIN held = Member
      /\ DOMAIN pairs = Member
  BY DEF IInv, Domains
<1>3. ASSUME NEW p \in Member, UNCHANGED <<mem, disk, pc, held, sent, leak>> PROVE AgeInv'
  BY <1>1, <1>3, AgedKept DEF OthersKept
<1>4. CASE UNCHANGED vars
  BY <1>3, <1>4, Members DEF vars
<1>5. ASSUME NEW p \in Member, EncryptMessage(p) PROVE AgeInv'
  <2> DEFINE s == Encrypt(mem[p]).st
             m == Envelope(p, Encrypt(mem[p]).msg)
  <2>1. /\ mem' = [mem EXCEPT ![p] = s] /\ held' = [held EXCEPT ![p] = m] /\ mem[p].cks # Null
        /\ pc' = [pc EXCEPT ![p] = "encrypted"] /\ UNCHANGED <<disk, sent, leak>>
    BY <1>5 DEF EncryptMessage
  <2>2. s.dhs = mem[p].dhs /\ s.rk = mem[p].rk /\ s.dhr = mem[p].dhr /\ s.ckr = mem[p].ckr
        /\ s.skipped = mem[p].skipped /\ s.cks # Null
    BY <1>1, <2>1, Encrypting, Sides
  <2>3. m.dh = mem[p].dhs
    BY DEF Envelope, Encrypt
  <2> HIDE DEF s, m
  <2>4. Aged(Of(p), s)
    BY <1>1, <2>1, <2>2 DEF Aged
  <2>5. /\ mem'[p] = s /\ held'[p] = m /\ disk'[p] = disk[p]
        /\ OthersKept(p)
    BY <1>2, <2>1 DEF OthersKept
  <2> QED
    <3>1. RootOf(s, SentBy(p))
      BY <1>1, <2>2 DEF RootOf
    <3> QED
      BY <1>1, <2>1, <2>2, <2>3, <2>4, <2>5, <3>1, AgedKept
<1>6. ASSUME NEW p \in Member, SaveBeforeSend(p) \/ SaveOpened(p) PROVE AgeInv'
  <2>1. /\ disk' = [disk EXCEPT ![p] = mem[p]] /\ UNCHANGED <<mem, sent, leak>>
        /\ \/ pc[p] = "encrypted" /\ pc' = [pc EXCEPT ![p] = "saved"] /\ held' = held
           \/ pc' = [pc EXCEPT ![p] = "idle"] /\ held' = [held EXCEPT ![p] = NoMessage]
    BY <1>6 DEF SaveBeforeSend, SaveOpened, history
  <2>2. /\ disk'[p] = mem[p] /\ mem'[p] = mem[p]
        /\ OthersKept(p)
        /\ pc'[p] = "idle" \/ held'[p].dh = mem[p].dhs
    BY <1>1, <1>2, <2>1 DEF OthersKept
  <2> QED
    BY <1>1, <2>1, <2>2, AgedKept
<1>7. ASSUME NEW p \in Member, HandOver(p) PROVE AgeInv'
  <2>1. /\ pc[p] = "saved" /\ pc' = [pc EXCEPT ![p] = "idle"]
        /\ held' = [held EXCEPT ![p] = NoMessage]
        /\ sent' = sent \cup {held[p]} /\ UNCHANGED <<mem, disk, leak>>
    BY <1>7 DEF HandOver
  <2>2. /\ held[p].dh = mem[p].dhs /\ held[p].key.root = mem[p].rk /\ disk[p] = mem[p]
        /\ held[p].to = Peer(p)
    <3>1. held[p].dh = mem[p].dhs
      BY <1>1, <2>1
    <3> QED
      BY <2>1, <3>1 DEF IInv, Flow
  <2>3. /\ SentBy(p)' = SentBy(p) \cup {held[p]}
        /\ \A q \in Member \ {p} : SentBy(q)' = SentBy(q)
    BY <2>1, <2>2, Members DEF SentBy
  <2>4. \A q \in Member : pc'[q] \in {"encrypted", "saved"} => held'[q].dh = mem'[q].dhs
    BY <1>1, <1>2, <2>1
  <2>5. \A q \in Member : RootOf(mem'[q], SentBy(q)') /\ RootOf(disk'[q], SentBy(q)')
    BY <1>1, <2>1, <2>2, <2>3 DEF RootOf
  <2>6. \A q \in Member : \A x, y \in SentBy(q)' : x.dh = y.dh => x.key.root = y.key.root
    BY <1>1, <2>2, <2>3 DEF AgeInv, OneRoots, RootOf
  <2>7. OneRoots'
    BY <2>4, <2>5, <2>6 DEF OneRoots
  <2> QED
    BY <2>1, <2>7 DEF AgeInv, Grown, Leaked
<1>8. ASSUME NEW p \in Member, NEW m \in mail, Receive(p, m) PROVE AgeInv'
  <2> DEFINE fresh == <<p, pairs[p] + 1>>
             d == Decrypt(mem[p], m, fresh)
  <2>1. /\ mem' = [mem EXCEPT ![p] = d.st] /\ pc[p] = "idle" /\ m.to = p
        /\ \/ pc' = [pc EXCEPT ![p] = "opened"] /\ held' = [held EXCEPT ![p] = m]
           \/ UNCHANGED <<pc, held>>
        /\ UNCHANGED <<disk, sent, leak>>
    BY <1>8 DEF Receive
  <2>2. /\ Genuine(m) /\ fresh \in Pair /\ fresh[1] = p /\ fresh[2] = pairs[p] + 1
        /\ mem[p].dhs \in Pair /\ mem[p].dhs[2] <= pairs[p] /\ pairs[p] \in Nat
        /\ mem[p].rk \in Root /\ UpTo(p, mem[p].rk, pairs[p])
    <3>1. /\ Genuine(m) /\ pairs[p] \in Nat /\ mem[p].dhs[2] <= pairs[p]
          /\ UpTo(p, mem[p].rk, pairs[p])
      BY DEF IInv, Flow, States, Births
    <3>2. mem[p].dhs \in Pair /\ mem[p].rk \in Root
      BY <1>1 DEF Sound, IsState
    <3> QED
      BY <3>1, <3>2 DEF Pair
  <2>3. d = Decrypt(mem[p], m, fresh)
    OBVIOUS
  <2> HIDE DEF d, fresh
  <2>4. Aged(Of(p), d.st)
    <3>1. mem[p].dhs[2] < fresh[2]
      BY <2>2 DEF Pair
    <3> QED
      BY <1>1, <2>1, <2>2, <2>3, <3>1, DecryptingAges, Sides DEF Genuine
  <2>5. RootOf(d.st, SentBy(p))
    <3> SUFFICES ASSUME NEW x \in SentBy(p), x.dh = d.st.dhs PROVE x.key.root = d.st.rk
      BY DEF RootOf
    <3>1. SameSending(mem[p], d.st) \/ NewSending(mem[p], d.st, m.dh, fresh)
      BY <1>1, <2>1, <2>2, <2>3, Decrypting, Sides DEF Genuine
    <3>2. x.dh[2] <= pairs[p] /\ x.dh \in Pair
      <4>1. /\ Genuine(x) /\ x.to = Peer(p) /\ UpTo(p, x.key.root, pairs[p])
        BY DEF IInv, Flow, Births, SentBy
      <4>2. /\ x.dh \in x.key.root[Len(x.key.root)] /\ Len(x.key.root) \in 1 .. Len(x.key.root)
            /\ x.dh[1] = p /\ x.dh \in Pair
        BY <4>1, Members, Sides DEF Genuine, Made, Receiving, DH, Message, ChainKey
      <4> QED
        BY <4>1, <4>2 DEF UpTo
    <3>3. ~NewSending(mem[p], d.st, m.dh, fresh)
      BY <2>2, <3>2 DEF NewSending, Pair
    <3> QED
      BY <1>1, <3>1, <3>3 DEF SameSending, RootOf
  <2>6. /\ mem'[p] = d.st /\ disk'[p] = disk[p] /\ pc'[p] \in {"opened", "idle"}
        /\ OthersKept(p)
    BY <1>2, <2>1 DEF OthersKept
  <2> QED
    BY <1>1, <2>1, <2>4, <2>5, <2>6, AgedKept
<1>9. ASSUME NEW p \in Member, Crash(p) PROVE AgeInv'
  <2>1. /\ mem' = [mem EXCEPT ![p] = disk[p]] /\ pc' = [pc EXCEPT ![p] = "idle"]
        /\ held' = [held EXCEPT ![p] = NoMessage] /\ UNCHANGED <<disk, sent, leak>>
    BY <1>9 DEF Crash
  <2>2. /\ mem'[p] = disk[p] /\ disk'[p] = disk[p] /\ pc'[p] = "idle"
        /\ OthersKept(p)
    BY <1>2, <2>1 DEF OthersKept
  <2> QED
    BY <1>1, <2>1, <2>2, AgedKept
<1>10. ASSUME NEW p \in Member, Leak(p) PROVE AgeInv'
  <2>1. UNCHANGED <<mem, disk, pc, held, sent>> /\ leak' = [owner |-> p, st |-> mem[p]]
    BY <1>10 DEF Leak
  <2>2. Leaked'
    BY <1>1, <2>1 DEF Leaked
  <2> QED
    BY <2>1, <2>2 DEF AgeInv, OneRoots, Grown, SentBy
<1>11. ASSUME NEW p \in Member, NEW m \in mail, Acknowledge(p, m) PROVE AgeInv'
  BY <1>3, <1>11 DEF Acknowledge
<1>12. ASSUME NEW p \in Member, NEW m \in unlogged[p], LogEvent(p, m) PROVE AgeInv'
  BY <1>3, <1>12 DEF LogEvent, history
<1> QED
  BY <1>4, <1>5, <1>6, <1>7, <1>8, <1>9, <1>10, <1>11, <1>12 DEF Next

\* The first two invariants hold in every state.
LEMMA AgeInvariance == Spec => [](IInv /\ AgeInv)
<1>1. Init => IInv /\ AgeInv
  BY Initially, InitiallyAged
<1>2. IInv /\ AgeInv /\ [Next]_vars => (IInv /\ AgeInv)'
  BY Inductive, Aging
<1> QED
  BY <1>1, <1>2, PTL DEF Spec

\* A leaked session state is of no use once its owner has generated a new
\* ratchet pair: what the owner sends under it, and what its peer answers, is
\* out of reach of whoever holds the copy (ratchet.js:61-75).
THEOREM LeaksHeal == Spec => []Heals
<1>1. IInv /\ AgeInv => Heals
  <2> SUFFICES ASSUME IInv, AgeInv, leak # Null, NEW m \in AfterHealing
               PROVE  ~Holds(leak.st, m.key) /\ ~KnowsRoot(m.key.root)
    BY DEF Heals
  <2> DEFINE o == leak.owner  q == Peer(o)  L == leak.st  root == m.key.root
  <2>1. /\ o \in Member /\ q \in Member /\ q # o /\ Peer(q) = o
        /\ Sound(Of(o), L) /\ Aged(Of(o), L)
    BY Members DEF AgeInv, Leaked
  <2>2. /\ L.rk \in Root /\ Len(L.rk) \in Nat /\ L.dhs \in Pair /\ L.dhs[1] = o /\ Parity(Of(o), L.rk)
        /\ L.dhs[2] \in Nat
    BY <2>1, Sides DEF Sound, IsState, Root, Pair
  <2>3. /\ m \in sent /\ Genuine(m) /\ m.key \in ChainKey /\ root \in Root /\ Len(root) \in Nat
        /\ Len(root) > 0
    BY DEF AfterHealing, IInv, Flow, Genuine, Made, Message, ChainKey, Root, Receiving
  <2>4. KnowsRoot(root) => root = L.rk \/ L.dhs \in root[Len(root)]
    <3>1. SUFFICES ASSUME KnowsRoot(root) PROVE root = L.rk \/ L.dhs \in root[Len(root)]
      OBVIOUS
    <3>2. CASE Len(root) = Len(L.rk)
      BY <2>2, <2>3, <3>1, <3>2, SMTT(20) DEF KnowsRoot, Root
    <3>3. CASE Len(root) > Len(L.rk)
      BY <2>2, <2>3, <3>1, <3>3 DEF KnowsRoot
    <3> QED
      BY <2>2, <2>3, <3>1, <3>2, <3>3 DEF KnowsRoot
  \* The owner's own messages: the younger pair is in the last secret.
  <2>5. CASE m.to = q /\ m.dh # Null /\ m.dh[2] > L.dhs[2]
    <3>1. PICK x \in Pair : x[1] = q /\ root[Len(root)] = {x, m.dh}
      BY <2>1, <2>3, <2>5, Sides DEF Genuine, Made, Receiving, DH
    <3>2. m.dh[1] = o /\ m.dh \in Pair /\ Parity(Of(o), root)
      BY <2>1, <2>3, <2>5, Sides DEF Genuine, Made, Receiving
    <3>3. L.dhs \notin root[Len(root)]
      BY <2>1, <2>2, <2>5, <3>1, <3>2 DEF Pair
    <3>4. root # L.rk
      <4>1. m.dh \in root[Len(root)] /\ Len(root) \in 1 .. Len(root)
        BY <2>3, <3>1
      <4>2. UpTo(o, L.rk, L.dhs[2])
        BY <2>1, Sides DEF Aged
      <4> QED
        BY <2>2, <2>5, <3>2, <4>1, <4>2 DEF UpTo, Pair
    <3>5. ~Derives(L.cks, m.key)
      BY <2>1, <3>4 DEF Derives, Sound
    <3>6. ~Derives(L.ckr, m.key)
      BY <2>1, <2>3, <3>2, Parities, Sides DEF Derives, Sound, Receiving
    <3>7. \A k \in DOMAIN L.skipped : L.skipped[k] # m.key
      BY <2>1, <2>3, <3>2, Parities, Sides DEF Sound, Receiving
    <3> QED
      BY <2>4, <3>3, <3>4, <3>5, <3>6, <3>7 DEF Holds
  \* The peer's answer: the younger pair of the owner is in the last secret.
  <2>6. CASE m.to = o /\ mem[q].dhr # Null /\ mem[q].dhr[2] > L.dhs[2] /\ m.dh = mem[q].dhs
    <3>1. /\ root = mem[q].rk /\ Sound(Of(q), mem[q]) /\ Aged(Of(q), mem[q])
      BY <2>1, <2>3, <2>6 DEF AgeInv, OneRoots, RootOf, Grown, SentBy, IInv, States
    <3>2. root[Len(root)] = {mem[q].dhs, mem[q].dhr}
      BY <2>1, <2>3, <3>1, Sides DEF Aged, DH
    <3>3. /\ mem[q].dhs[1] = q /\ mem[q].dhr[1] = o /\ mem[q].dhr \in Pair /\ Parity(Of(q), root)
      <4>1. mem[q].dhr \in Pair /\ mem[q].dhr # Null
        BY <2>6, <3>1 DEF Sound, IsState
      <4>2. Of(q).me = q /\ Of(q).peer = o
        BY <2>1, Sides
      <4> QED
        BY <3>1, <4>1, <4>2 DEF Sound
    <3>4. L.dhs \notin root[Len(root)]
      BY <2>1, <2>2, <2>6, <3>2, <3>3 DEF Pair
    <3>5. root # L.rk
      BY <2>1, <2>2, <2>3, <3>3, Parities, Sides
    <3>6. ASSUME NEW r \in Root, UpTo(o, r, L.dhs[2]) PROVE r # root
      <4>1. mem[q].dhr \in root[Len(root)] /\ Len(root) \in 1 .. Len(root)
        BY <2>3, <3>2
      <4> QED
        BY <2>2, <2>6, <3>3, <3>6, <4>1 DEF UpTo, Pair
    <3>7. ~Derives(L.cks, m.key)
      BY <2>1, <3>5 DEF Derives, Sound
    <3>8. ~Derives(L.ckr, m.key)
      BY <2>1, <3>6, Sides DEF Derives, Aged, Sound, IsState, ChainKey, Root
    <3>9. \A k \in DOMAIN L.skipped : L.skipped[k] # m.key
      BY <2>1, <3>6, Sides DEF Aged, Sound, IsState, ChainKey, Root
    <3> QED
      BY <2>4, <3>4, <3>5, <3>7, <3>8, <3>9 DEF Holds
  <2> QED
    BY <2>5, <2>6 DEF AfterHealing
<1> QED
  BY <1>1, AgeInvariance, PTL

-----------------------------------------------------------------------------
\* p's root keys only grow: what it handed over, what is on disk and what is in
\* memory are stages of one sequence of roots.
Ordered(p) ==
  /\ Prefix(disk[p].rk, mem[p].rk)
  /\ Len(disk[p].rk) = Len(mem[p].rk) => disk[p].dhs = mem[p].dhs
  /\ \A x \in SentBy(p) : Prefix(x.key.root, disk[p].rk)

\* x comes so long before message `text`, number n of a chain at `len` that
\* follows one of pn messages, that the messages of its own chain after it, the
\* chain in between and the first n of this one fit between the two.
Spaced(x, len, n, pn, text) ==
  /\ Len(x.key.root) = len /\ x.n < n => x.text + (n - x.n) <= text
  /\ Len(x.key.root) = len - 2 => x.n < pn /\ x.text + (pn - x.n) + n <= text
  /\ Len(x.key.root) < len - 2 => x.text + pn + n < text

SpacedFor(st, S, text) ==
  st.ns + st.pn <= text /\ \A x \in S : Spaced(x, Len(st.rk), st.ns, st.pn, text)

SpacedFrom(m, S) ==
  m.n + m.pn <= m.text /\ \A x \in S : Spaced(x, Len(m.key.root), m.n, m.pn, m.text)

Counted(p) ==
  /\ SpacedFor(mem[p], SentBy(p), encrypted[p]) /\ SpacedFor(disk[p], SentBy(p), encrypted[p])
  /\ \A x \in SentBy(p) : x.text < encrypted[p] /\ SpacedFrom(x, SentBy(p))
  /\ \A x, y \in SentBy(p) : x.text = y.text => x = y
  /\ pc[p] \in {"encrypted", "saved"} =>
       /\ held[p].text + 1 = encrypted[p]
       /\ SpacedFrom(held[p], SentBy(p))
       /\ \A x \in SentBy(p) : x.text < held[p].text

OrderInv == \A p \in Member : Ordered(p) /\ Counted(p)

\* A message encrypted meanwhile adds to the distance.
LEMMA SpacedLater ==
  ASSUME NEW x, x.n \in Nat, x.text \in Nat, NEW len \in Nat, NEW n \in Nat, NEW pn \in Nat,
         NEW text \in Nat, Spaced(x, len, n, pn, text)
  PROVE  Spaced(x, len, n, pn, text + 1)
BY SMTT(30) DEF Spaced

\* The next message of the chain comes one later.
LEMMA SpacedNext ==
  ASSUME NEW x, x.n \in Nat, x.text \in Nat, Len(x.key.root) \in Nat, NEW len \in Nat,
         NEW n \in Nat, NEW pn \in Nat, NEW text \in Nat, Spaced(x, len, n, pn, text),
         x.text < text, Len(x.key.root) = len => x.n < n
  PROVE  Spaced(x, len, n + 1, pn, text + 1)
<1> DEFINE k == Len(x.key.root)  a == x.n  t == x.text
<1>1. /\ k \in Nat /\ a \in Nat /\ t \in Nat /\ t < text /\ (k = len => a < n)
      /\ k = len /\ a < n => t + (n - a) <= text
      /\ k = len - 2 => a < pn /\ t + (pn - a) + n <= text
      /\ k < len - 2 => t + pn + n < text
  BY DEF Spaced
<1> HIDE DEF k, a, t
<1>2. /\ k = len /\ a < n + 1 => t + (n + 1 - a) <= text + 1
      /\ k = len - 2 => a < pn /\ t + (pn - a) + (n + 1) <= text + 1
      /\ k < len - 2 => t + pn + (n + 1) < text + 1
  BY <1>1
<1> QED
  BY <1>2 DEF Spaced, k, a, t

\* A chain is closed with n messages on it, and the next one begins.
LEMMA SpacedOver ==
  ASSUME NEW x, x.n \in Nat, x.text \in Nat, Len(x.key.root) \in Nat, NEW len \in Nat,
         NEW n \in Nat, NEW pn \in Nat, NEW text \in Nat, Spaced(x, len, n, pn, text),
         Len(x.key.root) = len => x.n < n, Len(x.key.root) <= len, Len(x.key.root) # len - 1
  PROVE  Spaced(x, len + 2, 0, n, text)
<1> DEFINE k == Len(x.key.root)  a == x.n  t == x.text
<1>1. /\ k \in Nat /\ a \in Nat /\ t \in Nat /\ (k = len => a < n) /\ k <= len /\ k # len - 1
      /\ k = len /\ a < n => t + (n - a) <= text
      /\ k = len - 2 => a < pn /\ t + (pn - a) + n <= text
      /\ k < len - 2 => t + pn + n < text
  BY DEF Spaced
<1> HIDE DEF k, a, t
<1>2. /\ k = len + 2 /\ a < 0 => t + (0 - a) <= text
      /\ k = (len + 2) - 2 => a < n /\ t + (n - a) + 0 <= text
      /\ k < (len + 2) - 2 => t + n + 0 < text
  BY <1>1
<1> QED
  BY <1>2 DEF Spaced, k, a, t

\* The fields of a message p has handed over.
LEMMA SentFields ==
  ASSUME IInv, NEW p \in Member, NEW x \in SentBy(p)
  PROVE  /\ x \in sent /\ x.to = Peer(p) /\ x.n \in Nat /\ x.pn \in Nat /\ x.text \in Nat
         /\ x.key.root \in Root /\ Len(x.key.root) \in Nat /\ x.key.step = x.n
         /\ Parity(Of(p), x.key.root) /\ x.key \in ChainKey /\ Genuine(x)
         /\ Receiving(Of(Peer(p)), x.key.root, x.dh)
<1>1. Genuine(x) /\ x.to = Peer(p) /\ x \in sent
  BY DEF IInv, Flow, SentBy
<1> QED
  BY <1>1, Members, Sides DEF Genuine, Made, Message, ChainKey, Receiving, Root

\* The fields of a sound state.
LEMMA StateFields ==
  ASSUME NEW p \in Member, NEW st, Sound(Of(p), st)
  PROVE  /\ IsState(st) /\ st.rk \in Root /\ Len(st.rk) \in Nat /\ st.dhs \in Pair
         /\ st.ns \in Nat /\ st.nr \in Nat /\ st.pn \in Nat /\ Parity(Of(p), st.rk)
BY DEF Sound, IsState, Root

\* The chain a state sends on and a message of p: the same root if it is as long.
LEMMA OwnRoot ==
  ASSUME IInv, OrderInv, NEW p \in Member, NEW x \in SentBy(p)
  PROVE  /\ Prefix(x.key.root, mem[p].rk) /\ Len(x.key.root) <= Len(mem[p].rk)
         /\ Len(x.key.root) # Len(mem[p].rk) - 1
         /\ Len(x.key.root) = Len(mem[p].rk) => x.key.root = mem[p].rk /\ x.n < mem[p].ns
<1>1. Sound(Of(p), mem[p]) /\ Sound(Of(p), disk[p])
  BY DEF IInv, States
<1>2. mem[p].rk \in Root /\ disk[p].rk \in Root /\ Len(mem[p].rk) \in Nat /\ Parity(Of(p), mem[p].rk)
  BY <1>1, StateFields
<1>3. x.key.root \in Root /\ Len(x.key.root) \in Nat /\ Parity(Of(p), x.key.root) /\ x.key.step = x.n
  BY SentFields
<1>4. Prefix(x.key.root, mem[p].rk)
  <2>1. Prefix(x.key.root, disk[p].rk) /\ Prefix(disk[p].rk, mem[p].rk)
    BY DEF OrderInv, Ordered
  <2> QED
    BY <1>2, <1>3, <2>1, PrefixOrder
<1>5. Len(x.key.root) # Len(mem[p].rk) - 1
  <2>1. \A a, b \in Nat : a % 2 = b % 2 => a # b - 1
    OBVIOUS
  <2> QED
    BY <1>2, <1>3, <2>1 DEF Parity
<1>6. Len(x.key.root) = Len(mem[p].rk) => x.key.root = mem[p].rk
  BY <1>2, <1>3, <1>4, PrefixOrder
<1>7. x.key.root = mem[p].rk => x.n < mem[p].ns
  BY <1>3 DEF IInv, Aheads, Ahead
<1> QED
  BY <1>4, <1>5, <1>6, <1>7 DEF Prefix

\* Nothing is encrypted at first.
LEMMA InitiallySpaced == Init => OrderInv
<1> SUFFICES ASSUME Init, NEW p \in Member PROVE Ordered(p) /\ Counted(p)
  BY DEF OrderInv
<1>1. disk = mem /\ sent = {} /\ pc[p] = "idle" /\ encrypted[p] = 0 /\ SentBy(p) = {}
  BY DEF Init, SentBy
<1>2. mem[p].ns = 0 /\ mem[p].pn = 0 /\ mem[p].rk \in Root
  <2>1. Sound(Of(p), mem[p])
    BY Initially DEF IInv, States
  <2>2. mem[p].ns = 0 /\ mem[p].pn = 0
    <3>1. mem[p] = IF p = Initiator THEN InitSender(<<>>, <<Initiator, 0>>, <<Responder, 0>>)
                                    ELSE InitReceiver(<<>>, <<Responder, 0>>)
      BY DEF Init
    <3> QED
      BY <3>1 DEF InitSender, InitReceiver
  <2> QED
    BY <2>1, <2>2, StateFields
<1> QED
  BY <1>1, <1>2, PrefixOrder DEF Ordered, Counted, SpacedFor

\* The steps of p that hand nothing over.
LEMMA SpacedKept ==
  ASSUME OrderInv, NEW p \in Member, sent' = sent, OthersKept(p),
         \A q \in Member \ {p} : encrypted'[q] = encrypted[q],
         Ordered(p)', Counted(p)'
  PROVE  OrderInv'
<1>1. \A q \in Member : SentBy(q)' = SentBy(q)
  BY DEF SentBy
<1>2. ASSUME NEW q \in Member \ {p} PROVE Ordered(q)' /\ Counted(q)'
  <2>1. Ordered(q)'
    BY <1>1 DEF OrderInv, Ordered, OthersKept
  <2>2. Counted(q)'
    BY <1>1 DEF OrderInv, Counted, OthersKept
  <2> QED
    BY <2>1, <2>2
<1> QED
  BY <1>2 DEF OrderInv

\* Every step keeps the third invariant.
LEMMA Spacing == IInv /\ OrderInv /\ [Next]_vars => OrderInv'
<1> SUFFICES ASSUME IInv, OrderInv, [Next]_vars PROVE OrderInv'
  OBVIOUS
<1>1. \A p \in Member : /\ Ordered(p) /\ Counted(p) /\ Sound(Of(p), mem[p]) /\ Sound(Of(p), disk[p])
                        /\ encrypted[p] \in Nat
  BY DEF IInv, States, OrderInv
<1>2. /\ DOMAIN mem = Member /\ DOMAIN disk = Member /\ DOMAIN pc = Member /\ DOMAIN held = Member
      /\ DOMAIN encrypted = Member
  BY DEF IInv, Domains
<1>3. ASSUME UNCHANGED <<mem, disk, pc, held, sent, encrypted>> PROVE OrderInv'
  BY <1>3 DEF OrderInv, Ordered, Counted, SentBy
<1>4. CASE UNCHANGED vars
  BY <1>3, <1>4 DEF vars
<1>5. ASSUME NEW p \in Member, EncryptMessage(p) PROVE OrderInv'
  <2> DEFINE s == Encrypt(mem[p]).st
             m == Envelope(p, Encrypt(mem[p]).msg)
  <2>1. /\ mem' = [mem EXCEPT ![p] = s] /\ held' = [held EXCEPT ![p] = m] /\ mem[p].cks # Null
        /\ pc' = [pc EXCEPT ![p] = "encrypted"] /\ encrypted' = [encrypted EXCEPT ![p] = @ + 1]
        /\ UNCHANGED <<disk, sent>>
    BY <1>5 DEF EncryptMessage
  <2>2. s.dhs = mem[p].dhs /\ s.rk = mem[p].rk /\ s.ns = mem[p].ns + 1 /\ s.pn = mem[p].pn
    BY <1>1, <2>1, Encrypting, Sides
  <2>3. /\ m.n = mem[p].ns /\ m.pn = mem[p].pn /\ m.text = encrypted[p] /\ m.key = mem[p].cks
        /\ m.key.root = mem[p].rk
    <3>1. m.n = mem[p].ns /\ m.pn = mem[p].pn /\ m.text = encrypted[p] /\ m.key = mem[p].cks
      BY DEF Envelope, Encrypt
    <3>2. mem[p].cks.root = mem[p].rk
      <4>1. mem[p].cks = [root |-> mem[p].rk, step |-> mem[p].ns]
        BY <1>1, <2>1 DEF Sound
      <4> QED
        BY <4>1
    <3> QED
      BY <3>1, <3>2
  <2> HIDE DEF s, m
  <2>4. /\ mem'[p] = s /\ held'[p] = m /\ disk'[p] = disk[p] /\ pc'[p] = "encrypted"
        /\ encrypted'[p] = encrypted[p] + 1 /\ SentBy(p)' = SentBy(p)
        /\ OthersKept(p) /\ \A q \in Member \ {p} : encrypted'[q] = encrypted[q]
    BY <1>2, <2>1 DEF OthersKept, SentBy
  <2>5. Ordered(p)'
    BY <1>1, <2>2, <2>4 DEF Ordered
  <2>6. /\ mem[p].ns \in Nat /\ mem[p].pn \in Nat /\ Len(mem[p].rk) \in Nat
        /\ disk[p].ns \in Nat /\ disk[p].pn \in Nat /\ Len(disk[p].rk) \in Nat
    BY <1>1, StateFields
  <2>7. SpacedFor(s, SentBy(p), encrypted[p] + 1)
    <3>1. s.ns + s.pn <= encrypted[p] + 1
      BY <1>1, <2>2, <2>6, SMTT(20) DEF Counted, SpacedFor
    <3>2. ASSUME NEW x \in SentBy(p)
          PROVE  Spaced(x, Len(s.rk), s.ns, s.pn, encrypted[p] + 1)
      <4>1. Spaced(x, Len(mem[p].rk), mem[p].ns, mem[p].pn, encrypted[p]) /\ x.text < encrypted[p]
        BY <1>1 DEF Counted, SpacedFor
      <4>2. x.n \in Nat /\ x.text \in Nat /\ Len(x.key.root) \in Nat
        BY SentFields
      <4>3. Len(x.key.root) = Len(mem[p].rk) => x.n < mem[p].ns
        BY OwnRoot
      <4> QED
        <5>1. Spaced(x, Len(mem[p].rk), mem[p].ns + 1, mem[p].pn, encrypted[p] + 1)
          BY <1>1, <2>6, <4>1, <4>2, <4>3, SpacedNext
        <5> QED
          BY <2>2, <5>1
    <3> QED
      BY <3>1, <3>2 DEF SpacedFor
  <2>8. SpacedFor(disk[p], SentBy(p), encrypted[p] + 1)
    <3>1. disk[p].ns + disk[p].pn <= encrypted[p] + 1
      BY <1>1, <2>6 DEF Counted, SpacedFor
    <3>2. ASSUME NEW x \in SentBy(p)
          PROVE  Spaced(x, Len(disk[p].rk), disk[p].ns, disk[p].pn, encrypted[p] + 1)
      <4>1. Spaced(x, Len(disk[p].rk), disk[p].ns, disk[p].pn, encrypted[p])
        BY <1>1 DEF Counted, SpacedFor
      <4>2. x.n \in Nat /\ x.text \in Nat
        BY SentFields
      <4> QED
        BY <1>1, <2>6, <4>1, <4>2, SpacedLater
    <3> QED
      BY <3>1, <3>2 DEF SpacedFor
  <2>9. /\ SpacedFrom(m, SentBy(p)) /\ m.text + 1 = encrypted[p] + 1
        /\ \A x \in SentBy(p) : x.text < m.text
    BY <1>1, <2>3, <2>6 DEF Counted, SpacedFor, SpacedFrom
  <2>10. \A x \in SentBy(p) : x.text < encrypted[p] + 1
    BY <1>1, SentFields DEF Counted
  <2>11. Counted(p)'
    BY <1>1, <2>4, <2>7, <2>8, <2>9, <2>10 DEF Counted
  <2> QED
    BY <2>1, <2>4, <2>5, <2>11, SpacedKept
<1>6. ASSUME NEW p \in Member, SaveBeforeSend(p) \/ SaveOpened(p) PROVE OrderInv'
  <2>1. /\ disk' = [disk EXCEPT ![p] = mem[p]] /\ UNCHANGED <<mem, sent, encrypted>>
        /\ \/ pc[p] = "encrypted" /\ pc' = [pc EXCEPT ![p] = "saved"] /\ held' = held
           \/ pc' = [pc EXCEPT ![p] = "idle"] /\ held' = [held EXCEPT ![p] = NoMessage]
    BY <1>6 DEF SaveBeforeSend, SaveOpened, history
  <2>2. /\ mem'[p] = mem[p] /\ disk'[p] = mem[p] /\ encrypted'[p] = encrypted[p]
        /\ SentBy(p)' = SentBy(p) /\ OthersKept(p)
        /\ \/ pc[p] = "encrypted" /\ pc'[p] = "saved" /\ held'[p] = held[p]
           \/ pc'[p] = "idle"
    BY <1>2, <2>1 DEF OthersKept, SentBy
  <2>3. Ordered(p)'
    <3>1. mem[p].rk \in Root
      BY <1>1, StateFields
    <3>2. \A x \in SentBy(p) : Prefix(x.key.root, mem[p].rk)
      BY OwnRoot
    <3> QED
      BY <2>2, <3>1, <3>2, PrefixOrder DEF Ordered
  <2>4. Counted(p)'
    BY <1>1, <2>2 DEF Counted
  <2> QED
    BY <2>1, <2>2, <2>3, <2>4, SpacedKept
<1>7. ASSUME NEW p \in Member, HandOver(p) PROVE OrderInv'
  <2> DEFINE m == held[p]
  <2>1. /\ pc[p] = "saved" /\ pc' = [pc EXCEPT ![p] = "idle"]
        /\ held' = [held EXCEPT ![p] = NoMessage]
        /\ sent' = sent \cup {m} /\ UNCHANGED <<mem, disk, encrypted>>
    BY <1>7 DEF HandOver
  <2>2. /\ m.key.root = mem[p].rk /\ disk[p] = mem[p] /\ m.to = Peer(p) /\ m.n + 1 = mem[p].ns
        /\ Genuine(m) /\ \A x \in SentBy(p) : x.key.root = mem[p].rk => x.n < m.n
    BY <2>1 DEF IInv, Flow
  <2>3. /\ m.text + 1 = encrypted[p] /\ SpacedFrom(m, SentBy(p))
        /\ \A x \in SentBy(p) : x.text < m.text
    BY <1>1, <2>1 DEF Counted
  <2>4. /\ m.n \in Nat /\ m.pn \in Nat /\ m.text \in Nat /\ mem[p].rk \in Root
        /\ Len(mem[p].rk) \in Nat
    BY <1>1, <2>2, StateFields DEF Genuine, Made, Message
  <2> HIDE DEF m
  <2>5. /\ SentBy(p)' = SentBy(p) \cup {m} /\ \A q \in Member \ {p} : SentBy(q)' = SentBy(q)
        /\ pc'[p] = "idle" /\ mem' = mem /\ disk' = disk /\ encrypted' = encrypted
        /\ \A q \in Member \ {p} : pc'[q] = pc[q] /\ held'[q] = held[q]
    BY <1>2, <2>1, <2>2, Members DEF SentBy
  <2>6. Ordered(p)'
    BY <1>1, <2>2, <2>4, <2>5, PrefixOrder DEF Ordered
  <2>7. SpacedFor(mem[p], SentBy(p) \cup {m}, encrypted[p])
    <3>1. Spaced(m, Len(mem[p].rk), mem[p].ns, mem[p].pn, encrypted[p])
      <4>1. Len(m.key.root) = Len(mem[p].rk) /\ m.text + (mem[p].ns - m.n) <= encrypted[p]
        BY <2>2, <2>3, <2>4
      <4>2. \A k \in Nat : k # k - 2 /\ ~(k < k - 2)
        OBVIOUS
      <4> QED
        BY <2>4, <4>1, <4>2 DEF Spaced
    <3> QED
      BY <1>1, <3>1 DEF Counted, SpacedFor
  <2>8. ASSUME NEW x \in SentBy(p) PROVE SpacedFrom(x, SentBy(p) \cup {m})
    <3>1. Spaced(m, Len(x.key.root), x.n, x.pn, x.text)
      <4>1. /\ Len(x.key.root) <= Len(m.key.root) /\ Len(x.key.root) \in Nat /\ x.n \in Nat
            /\ Len(x.key.root) = Len(m.key.root) => x.n < m.n
        BY <2>2, OwnRoot, SentFields
      <4> QED
        BY <2>2, <2>4, <4>1, SMTT(20) DEF Spaced
    <3> QED
      BY <1>1, <3>1 DEF Counted, SpacedFrom
  <2>9. SpacedFrom(m, SentBy(p) \cup {m})
    <3>1. Spaced(m, Len(m.key.root), m.n, m.pn, m.text)
      BY <2>2, <2>4, SMTT(20) DEF Spaced
    <3> QED
      BY <2>3, <3>1 DEF SpacedFrom
  <2>10. /\ \A x \in SentBy(p) \cup {m} : x.text < encrypted[p]
         /\ \A x, y \in SentBy(p) \cup {m} : x.text = y.text => x = y
    <3>1. \A x \in SentBy(p) : x.text \in Nat
      BY SentFields
    <3> QED
      BY <1>1, <2>3, <2>4, <3>1 DEF Counted
  <2>11. Counted(p)'
    BY <2>2, <2>5, <2>7, <2>8, <2>9, <2>10 DEF Counted
  <2>12. ASSUME NEW q \in Member \ {p} PROVE Ordered(q)' /\ Counted(q)'
    BY <1>1, <2>5 DEF Ordered, Counted
  <2> QED
    BY <2>6, <2>11, <2>12 DEF OrderInv
<1>8. ASSUME NEW p \in Member, NEW m \in mail, Receive(p, m) PROVE OrderInv'
  <2> DEFINE fresh == <<p, pairs[p] + 1>>
             d == Decrypt(mem[p], m, fresh)
  <2>1. /\ mem' = [mem EXCEPT ![p] = d.st] /\ pc[p] = "idle" /\ m.to = p
        /\ \/ pc' = [pc EXCEPT ![p] = "opened"] /\ held' = [held EXCEPT ![p] = m]
           \/ UNCHANGED <<pc, held>>
        /\ UNCHANGED <<disk, sent, encrypted>>
    BY <1>8 DEF Receive
  <2>2. Genuine(m) /\ m.dh \in Pair /\ fresh \in Pair /\ fresh[1] = p
    BY DEF IInv, Flow, States, Pair, Genuine, Made, Message
  <2>3. d = Decrypt(mem[p], m, fresh)
    OBVIOUS
  <2> HIDE DEF d, fresh
  <2>4. SameSending(mem[p], d.st) \/ NewSending(mem[p], d.st, m.dh, fresh)
    BY <1>1, <2>1, <2>2, <2>3, Decrypting, Sides DEF Genuine
  <2>5. /\ mem'[p] = d.st /\ disk'[p] = disk[p] /\ encrypted'[p] = encrypted[p]
        /\ SentBy(p)' = SentBy(p) /\ OthersKept(p) /\ pc'[p] \in {"idle", "opened"}
    BY <1>2, <2>1 DEF OthersKept, SentBy
  <2>6. Ordered(p)' /\ SpacedFor(d.st, SentBy(p), encrypted[p])
    <3>1. CASE SameSending(mem[p], d.st)
      BY <1>1, <2>5, <3>1 DEF SameSending, Ordered, Counted, SpacedFor
    <3>2. CASE NewSending(mem[p], d.st, m.dh, fresh)
      <4>1. /\ mem[p].rk \in Root /\ mem[p].dhs \in Pair /\ disk[p].rk \in Root
            /\ Len(mem[p].rk) \in Nat /\ Len(disk[p].rk) \in Nat
            /\ mem[p].ns \in Nat /\ mem[p].pn \in Nat
        BY <1>1, StateFields
      <4>2. d.st.rk = NewRoot(mem[p], m.dh, fresh) /\ d.st.ns = 0 /\ d.st.pn = mem[p].ns
        BY <3>2 DEF NewSending
      <4>3. /\ Len(d.st.rk) = Len(mem[p].rk) + 2 /\ d.st.rk \in Root
            /\ \A i \in 1 .. Len(mem[p].rk) : d.st.rk[i] = mem[p].rk[i]
        BY <2>2, <4>1, <4>2, NewRoots
      <4>4. Prefix(mem[p].rk, d.st.rk)
        <5>1. Len(mem[p].rk) <= Len(d.st.rk)
          BY <4>1, <4>3
        <5> QED
          BY <4>3, <5>1 DEF Prefix
      <4>5. Prefix(disk[p].rk, d.st.rk) /\ Len(disk[p].rk) # Len(d.st.rk)
        <5>1. Prefix(disk[p].rk, mem[p].rk)
          BY <1>1 DEF Ordered
        <5>2. Len(disk[p].rk) <= Len(mem[p].rk)
          BY <5>1 DEF Prefix
        <5> QED
          BY <4>1, <4>3, <4>4, <5>1, <5>2, PrefixOrder
      <4>6. Ordered(p)'
        BY <1>1, <2>5, <4>5 DEF Ordered
      <4>7. ASSUME NEW x \in SentBy(p)
            PROVE  Spaced(x, Len(mem[p].rk) + 2, 0, mem[p].ns, encrypted[p])
        <5>1. Spaced(x, Len(mem[p].rk), mem[p].ns, mem[p].pn, encrypted[p])
          BY <1>1 DEF Counted, SpacedFor
        <5>2. x.n \in Nat /\ x.text \in Nat /\ Len(x.key.root) \in Nat
          BY SentFields
        <5>3. /\ Len(x.key.root) = Len(mem[p].rk) => x.n < mem[p].ns
              /\ Len(x.key.root) <= Len(mem[p].rk) /\ Len(x.key.root) # Len(mem[p].rk) - 1
          BY OwnRoot
        <5> QED
          BY <1>1, <4>1, <5>1, <5>2, <5>3, SpacedOver
      <4>8. 0 + mem[p].ns <= encrypted[p]
        BY <1>1, <4>1 DEF Counted, SpacedFor
      <4> QED
        BY <4>2, <4>3, <4>6, <4>7, <4>8 DEF SpacedFor
    <3> QED
      BY <2>4, <3>1, <3>2
  <2>7. Counted(p)'
    BY <1>1, <2>5, <2>6 DEF Counted
  <2> QED
    BY <2>1, <2>5, <2>6, <2>7, SpacedKept
<1>9. ASSUME NEW p \in Member, Crash(p) PROVE OrderInv'
  <2>1. /\ mem' = [mem EXCEPT ![p] = disk[p]] /\ pc' = [pc EXCEPT ![p] = "idle"]
        /\ held' = [held EXCEPT ![p] = NoMessage] /\ UNCHANGED <<disk, sent, encrypted>>
    BY <1>9 DEF Crash
  <2>2. /\ mem'[p] = disk[p] /\ disk'[p] = disk[p] /\ pc'[p] = "idle"
        /\ encrypted'[p] = encrypted[p] /\ SentBy(p)' = SentBy(p) /\ OthersKept(p)
    BY <1>2, <2>1 DEF OthersKept, SentBy
  <2>3. Ordered(p)'
    <3>1. disk[p].rk \in Root
      BY <1>1, StateFields
    <3> QED
      BY <1>1, <2>2, <3>1, PrefixOrder DEF Ordered
  <2>4. Counted(p)'
    BY <1>1, <2>2 DEF Counted
  <2> QED
    BY <2>1, <2>2, <2>3, <2>4, SpacedKept
<1>10. ASSUME NEW p \in Member, Leak(p) PROVE OrderInv'
  BY <1>3, <1>10 DEF Leak
<1>11. ASSUME NEW p \in Member, NEW m \in mail, Acknowledge(p, m) PROVE OrderInv'
  BY <1>3, <1>11 DEF Acknowledge
<1>12. ASSUME NEW p \in Member, NEW m \in unlogged[p], LogEvent(p, m) PROVE OrderInv'
  BY <1>3, <1>12 DEF LogEvent, history
<1> QED
  BY <1>4, <1>5, <1>6, <1>7, <1>8, <1>9, <1>10, <1>11, <1>12 DEF Next

-----------------------------------------------------------------------------
Fed(p, st) ==
  Linked(st, disk[Peer(p)]) /\ Witnessed(Of(p), st, SentTo(p)) /\ Reached(st, SentTo(p))

Opens(p) ==
  \A m \in SentTo(p) :
    /\ m \notin opened => Readable(mem[p], m)
    /\ m \notin opened \ Fresh(p) => Readable(disk[p], m)

OpenInv == GenuineOpens /\ \A p \in Member : Fed(p, mem[p]) /\ Fed(p, disk[p]) /\ Opens(p)

\* What is on its way to p fits together.
LEMMA Incoming ==
  ASSUME IInv, AgeInv, OrderInv, NEW p \in Member
  PROVE  SentTo(p) = SentBy(Peer(p)) /\ Coherent(Of(p), SentTo(p))
<1> DEFINE q == Peer(p)
<1>1. SentTo(p) = SentBy(q) /\ q \in Member /\ Peer(q) = p
  BY Members DEF SentTo, SentBy
<1>2. \A x \in SentTo(p) : Genuine(x) /\ x.to = p
  BY DEF IInv, Flow, SentTo
<1>3. ASSUME NEW x \in SentTo(p), NEW y \in SentTo(p)
      PROVE  /\ x.key = y.key => x = y
             /\ x.dh = y.dh => x.key.root = y.key.root
             /\ Len(x.key.root) = Len(y.key.root) => x.key.root = y.key.root
             /\ Len(x.key.root) = Len(y.key.root) - 2 => x.n < y.pn
  <2>1. x.key = y.key => x = y
    BY DEF IInv, KeysAreFresh, SentTo
  <2>2. x.dh = y.dh => x.key.root = y.key.root
    BY <1>1 DEF AgeInv, OneRoots
  <2>3. Len(x.key.root) = Len(y.key.root) => x.key.root = y.key.root
    <3>1. /\ x.key.root \in Root /\ y.key.root \in Root /\ mem[q].rk \in Root
      BY <1>1, SentFields, StateFields DEF IInv, States
    <3>2. Prefix(x.key.root, mem[q].rk) /\ Prefix(y.key.root, mem[q].rk)
      BY <1>1, OwnRoot
    <3> QED
      BY <3>1, <3>2, PrefixOrder
  <2>4. Len(x.key.root) = Len(y.key.root) - 2 => x.n < y.pn
    BY <1>1 DEF OrderInv, Counted, SpacedFrom, Spaced
  <2> QED
    BY <2>1, <2>2, <2>3, <2>4
<1> QED
  BY <1>1, <1>2, <1>3, Sides DEF Coherent, Genuine

\* A message of a chain p has not heard of: it is the one on the peer's disk.
LEMMA Onwards ==
  ASSUME IInv, AgeInv, OrderInv, OpenInv, NEW p \in Member
  PROVE  Onward(Of(p), mem[p], SentTo(p))
<1> DEFINE q == Peer(p)  S == mem[p]  D == disk[p]  O == disk[q]
<1>1. SentTo(p) = SentBy(q) /\ q \in Member /\ Peer(q) = p /\ q # p
  BY Members, Incoming
<1>2. SUFFICES ASSUME NEW y \in SentBy(q), Len(y.key.root) > Len(S.rk)
               PROVE  y.key.root = Append(S.rk, DH(S.dhs, y.dh)) /\ y.dh # <<Responder, 0>>
  BY <1>1, Sides DEF Onward
<1>3. /\ Sound(Of(p), S) /\ Sound(Of(p), D) /\ Sound(Of(q), O) /\ Aged(Of(q), O)
  BY <1>1 DEF IInv, States, AgeInv, Grown
<1>4. /\ S.rk \in Root /\ D.rk \in Root /\ O.rk \in Root /\ S.dhs \in Pair /\ S.dhs[1] = p
      /\ Len(S.rk) \in Nat /\ Len(D.rk) \in Nat /\ Len(O.rk) \in Nat
      /\ O.dhs \in Pair /\ O.dhs[1] = q /\ Parity(Of(q), O.rk)
  BY <1>1, <1>3, StateFields, Sides DEF Sound
<1>5. /\ y.key.root \in Root /\ Len(y.key.root) \in Nat /\ Receiving(Of(p), y.key.root, y.dh)
  BY <1>1, <1>2, SentFields
<1>6. /\ Prefix(y.key.root, O.rk) /\ Prefix(D.rk, S.rk) /\ (Len(D.rk) = Len(S.rk) => D.dhs = S.dhs)
      /\ Linked(O, D)
  BY <1>1, <1>2 DEF OrderInv, Ordered, OpenInv, Fed
<1> HIDE DEF q, S, D, O
<1>7. /\ Len(y.key.root) = Len(S.rk) + 1 /\ Len(O.rk) = Len(S.rk) + 1 /\ Len(D.rk) = Len(S.rk)
  <2>1. /\ Len(y.key.root) <= Len(O.rk) /\ Len(O.rk) <= Len(D.rk) + 1 /\ Len(D.rk) <= Len(S.rk)
    BY <1>6 DEF Prefix, Linked
  <2>2. Len(y.key.root) > Len(S.rk)
    BY <1>2 DEF S
  <2>3. \A a, b, c, d \in Nat :
          a <= b /\ b <= c + 1 /\ c <= d /\ a > d => a = d + 1 /\ b = d + 1 /\ c = d
    OBVIOUS
  <2> QED
    BY <1>4, <1>5, <2>1, <2>2, <2>3
<1>8. y.key.root = O.rk /\ D.rk = S.rk /\ D.dhs = S.dhs
  BY <1>4, <1>5, <1>6, <1>7, PrefixOrder
<1>9. S.dhs \in y.key.root[Len(S.rk) + 1] /\ \A i \in 1 .. Len(S.rk) : y.key.root[i] = S.rk[i]
  BY <1>4, <1>6, <1>7, <1>8 DEF Linked
<1>10. y.dh \in Pair /\ y.dh[1] = q
  BY <1>5, Sides DEF Receiving, q
<1>11. y.key.root[Len(S.rk) + 1] = DH(S.dhs, y.dh)
  <2>1. PICK own \in Pair : own[1] = p /\ y.key.root[Len(S.rk) + 1] = DH(own, y.dh)
    BY <1>5, <1>7, Sides DEF Receiving
  <2>2. S.dhs # y.dh
    BY <1>1, <1>4, <1>10
  <2> QED
    BY <1>9, <2>1, <2>2 DEF DH
<1>12. y.key.root = Append(S.rk, DH(S.dhs, y.dh))
  <2> DEFINE r == Append(S.rk, DH(S.dhs, y.dh))
  <2>1. DH(S.dhs, y.dh) \in SUBSET Pair
    BY <1>4, <1>10 DEF DH
  <2>2. /\ r \in Root /\ Len(r) = Len(S.rk) + 1 /\ r[Len(S.rk) + 1] = DH(S.dhs, y.dh)
        /\ \A i \in 1 .. Len(S.rk) : r[i] = S.rk[i]
    <3> HIDE DEF r
    <3>1. r = Append(S.rk, DH(S.dhs, y.dh))
      BY DEF r
    <3> DEFINE z == DH(S.dhs, y.dh)
    <3>2. z \in SUBSET Pair /\ r = Append(S.rk, z)
      BY <2>1, <3>1
    <3> HIDE DEF z
    <3>3. /\ r \in Root /\ Len(r) = Len(S.rk) + 1 /\ r[Len(S.rk) + 1] = z
          /\ \A i \in 1 .. Len(S.rk) : r[i] = S.rk[i]
      BY <1>4, <3>2 DEF Root
    <3> QED
      BY <3>3 DEF z
  <2> HIDE DEF r
  <2>3. Prefix(y.key.root, r)
    BY <1>4, <1>7, <1>9, <1>11, <2>2 DEF Prefix
  <2>4. y.key.root = r
    BY <1>5, <1>7, <2>2, <2>3, PrefixOrder
  <2> QED
    BY <2>4 DEF r
\* The responder has made a pair since its signed prekey: it has answered once.
<1>13. y.dh # <<Responder, 0>>
  <2>1. SUFFICES ASSUME y.dh = <<Responder, 0>> PROVE FALSE
    OBVIOUS
  <2>2. q = Responder
    BY <1>10, <2>1
  <2>3. O.dhs = y.dh
    <3>1. O.cks # Null
      BY <1>1, <1>3, <1>4, <1>7, Sides DEF Aged
    <3>2. Receiving(Of(p), O.rk, O.dhs)
      BY <1>1, <1>3, <3>1, Sides DEF Sound
    <3> QED
      BY <1>5, <1>8, <3>2, OneStart, Sides
  <2>4. Len(O.rk) > 1
    <3>1. Len(O.rk) % 2 = 0 /\ Len(O.rk) > 0
      <4>1. Side(Responder) = 0
        BY Members DEF Side
      <4>2. Len(O.rk) % 2 = Side(q)
        BY <1>1, <1>4, Sides DEF Parity
      <4>3. \A a \in Nat : a + 1 > 0
        OBVIOUS
      <4> QED
        BY <1>4, <1>7, <2>2, <4>1, <4>2, <4>3
    <3>2. \A a \in Nat : a % 2 = 0 /\ a > 0 => a > 1
      OBVIOUS
    <3> QED
      BY <1>4, <3>1, <3>2
  <2> QED
    BY <1>1, <1>3, <2>1, <2>3, <2>4, Sides DEF Aged
<1> QED
  BY <1>12, <1>13

\* If every message to the same member that was opened comes more than k texts
\* before m, or after it, at least k of the earlier ones are missing.
LEMMA ManyMissing ==
  ASSUME IInv, OrderInv, NEW p \in Member, NEW m \in SentTo(p), NEW k \in Nat, k <= m.text,
         \A y \in OpenedTo(p) : y.text < m.text => y.text + k < m.text
  PROVE  Missing(m) \in Int /\ Missing(m) >= k
<1> DEFINE E == {x \in opened : x.to = m.to /\ x.text < m.text}
           T == 0 .. m.text - k - 1
           f == [x \in E |-> x.text]
<1>1. m.to = p /\ m.text \in Nat /\ SentTo(p) = SentBy(Peer(p)) /\ Peer(p) \in Member
  BY Members, SentFields DEF SentTo, SentBy
<1>2. E \subseteq SentBy(Peer(p)) /\ E \subseteq OpenedTo(p)
  BY <1>1 DEF IInv, Flow, OpenedTo, SentTo
<1>3. \A x \in E : x.text \in T
  <2> SUFFICES ASSUME NEW x \in E PROVE x.text \in T
    OBVIOUS
  <2>1. x.text \in Nat /\ x.text + k < m.text
    BY <1>1, <1>2, SentFields
  <2> QED
    BY <1>1, <2>1
<1>4. \A x, y \in E : x.text = y.text => x = y
  BY <1>1, <1>2 DEF OrderInv, Counted
<1>5. f \in Injection(E, T)
  BY <1>3, <1>4 DEF Injection, IsInjective
<1>6. IsFiniteSet(T) /\ Cardinality(T) = m.text - k
  <2> DEFINE b == m.text - k - 1
  <2>1. b \in Int /\ 0 \in Int /\ T = 0 .. b
    BY <1>1
  <2> HIDE DEF T, b
  <2>2. IsFiniteSet(T) /\ Cardinality(T) = IF 0 > b THEN 0 ELSE b - 0 + 1
    BY <2>1, FS_Interval
  <2>3. b = m.text - k - 1 /\ m.text - k >= 0
    BY <1>1 DEF b
  <2> QED
    BY <1>1, <2>1, <2>2, <2>3
<1> HIDE DEF E, T, f
<1>7. IsFiniteSet(E) /\ Cardinality(E) <= Cardinality(T)
  BY <1>5, <1>6, FS_Injection
<1>8. Cardinality(E) \in Nat
  BY <1>7, FS_CardinalityType
<1>9. Missing(m) = m.text - Cardinality(E)
  BY DEF Missing, E
<1> QED
  BY <1>1, <1>6, <1>7, <1>8, <1>9

\* What a message that is open and does not come through has to say for itself.
LEMMA TooFarMisses ==
  ASSUME IInv, AgeInv, OrderInv, OpenInv, NEW p \in Member, NEW m \in SentTo(p), TooFar(mem[p], m)
  PROVE  Missing(m) > MAX_SKIP
<1> DEFINE q == Peer(p)  st == mem[p]  k == MAX_SKIP + 1
<1>1. SentTo(p) = SentBy(q) /\ q \in Member /\ Peer(q) = p /\ Coherent(Of(p), SentTo(p))
  BY Members, Incoming
<1>2. /\ IsState(st) /\ Sound(Of(p), st) /\ Len(st.rk) \in Nat /\ st.nr \in Nat /\ Parity(Of(p), st.rk)
      /\ Witnessed(Of(p), st, SentTo(p)) /\ Onward(Of(p), st, SentTo(p)) /\ st.rk \in Root /\ st.dhs \in Pair
      /\ MAX_SKIP \in Nat /\ k \in Nat
  BY StateFields, Onwards, RatchetAssumption DEF IInv, States, OpenInv, Fed
<1>3. /\ m.n \in Nat /\ m.pn \in Nat /\ m.text \in Nat /\ Len(m.key.root) \in Nat
      /\ m.n + m.pn <= m.text
  BY <1>1, SentFields DEF OrderInv, Counted, SpacedFrom
<1> HIDE DEF q, st, k
<1>4. ASSUME Len(m.key.root) > Len(st.rk) PROVE Len(m.key.root) = Len(st.rk) + 1
  <2>1. m.key.root = Append(st.rk, DH(st.dhs, m.dh)) /\ m.dh \in Pair
    BY <1>1, <1>2, <1>4, MadeFields, Sides DEF Onward
  <2>2. DH(st.dhs, m.dh) \in SUBSET Pair
    BY <1>2, <2>1 DEF DH
  <2> HIDE DEF DH
  <2> QED
    BY <1>2, <2>1, <2>2 DEF Root
<1>5. k <= m.text
  <2>1. k <= m.n \/ k <= m.pn
    <3>1. \A a, b \in Nat : (a + MAX_SKIP < b => k <= b) /\ (MAX_SKIP < b => k <= b)
      BY <1>2 DEF k
    <3> QED
      BY <1>2, <1>3, <3>1 DEF TooFar, st
  <2> QED
    BY <1>2, <1>3, <2>1
<1>6. ASSUME NEW y \in OpenedTo(p), y.text < m.text PROVE y.text + k < m.text
  <2>1. y \in SentTo(p)
    BY DEF IInv, Flow, OpenedTo, SentTo
  <2>2. /\ y.n \in Nat /\ y.text \in Nat /\ Len(y.key.root) \in Nat /\ Len(y.key.root) > 0
        /\ Parity(Of(q), y.key.root) /\ y.key.step = y.n
    BY <1>1, <2>1, SentFields, MadeFields DEF Receiving
  <2>3. Spaced(y, Len(m.key.root), m.n, m.pn, m.text)
    BY <1>1, <2>1 DEF OrderInv, Counted, SpacedFrom
  <2>4. Len(y.key.root) < Len(st.rk) /\ ~Derives(st.ckr, y.key)
    BY DEF IInv, AllPassed, Passed, st
  \* One of the latest chain is among the first nr of it.
  <2>5. ASSUME Len(y.key.root) = Len(st.rk) - 1 PROVE st.ckr # Null /\ y.n < st.nr
    <3>1. st.ckr # Null
      BY <1>2, <2>2, <2>5, Sides DEF Witnessed
    <3>2. PICK x \in SentTo(p) : x.key.root = st.ckr.root
      BY <1>2, <3>1 DEF Witnessed
    <3>3. Len(st.ckr.root) = Len(st.rk) - 1 /\ st.ckr.step = st.nr
      BY <1>2, <3>1 DEF Sound
    <3>4. y.key.root = st.ckr.root
      BY <1>1, <2>1, <2>5, <3>2, <3>3 DEF Coherent
    <3> QED
      BY <1>2, <2>2, <2>4, <3>1, <3>3, <3>4 DEF Derives
  <2>6. CASE OnChain(st, m) /\ st.nr + MAX_SKIP < m.n
    <3>1. st.ckr # Null /\ Len(m.key.root) = Len(st.rk) - 1
      BY <1>2, <2>6 DEF OnChain, Sound
    <3>6. k <= m.n /\ st.nr + k <= m.n
      BY <1>2, <1>3, <2>6 DEF k
    <3>2. CASE Len(y.key.root) = Len(m.key.root)
      <4>1. y.n < st.nr
        BY <2>5, <3>1, <3>2
      <4>2. y.n < m.n /\ y.text + (m.n - y.n) <= m.text
        BY <1>2, <1>3, <2>2, <2>3, <2>6, <3>2, <4>1, SMTT(20) DEF Spaced
      <4> QED
        BY <1>2, <1>3, <2>2, <3>6, <4>1, <4>2, SMTT(20)
    <3>3. CASE Len(y.key.root) = Len(m.key.root) - 2
      <4>1. y.n < m.pn /\ y.text + (m.pn - y.n) + m.n <= m.text
        BY <2>3, <3>3 DEF Spaced
      <4>2. \A t, a, b, n, u \in Nat : a < b /\ t + (b - a) + n <= u /\ k <= n => t + k < u
        BY <1>2
      <4> QED
        BY <1>3, <2>2, <3>6, <4>1, <4>2
    <3>4. CASE Len(y.key.root) < Len(m.key.root) - 2
      <4>1. y.text + m.pn + m.n < m.text
        BY <2>3, <3>4 DEF Spaced
      <4> QED
        BY <1>2, <1>3, <2>2, <3>6, <4>1, SMTT(20)
    <3>5. Len(y.key.root) # Len(m.key.root) - 1
      <4>1. Parity(Of(q), m.key.root)
        BY <1>1, SentFields
      <4>2. \A a, b \in Nat : a % 2 = b % 2 => a # b - 1
        OBVIOUS
      <4> QED
        BY <1>3, <2>2, <4>1, <4>2 DEF Parity
    <3> QED
      <4>1. \A a, b, c \in Nat : a < c /\ b = c - 1 => a = b \/ a = b - 2 \/ a < b - 2 \/ a = b - 1
        OBVIOUS
      <4> QED
        BY <1>2, <1>3, <2>2, <2>4, <3>1, <3>2, <3>3, <3>4, <3>5, <4>1
  <2>7. CASE /\ Len(m.key.root) > Len(st.rk)
             /\ MAX_SKIP < m.n \/ (st.ckr # Null /\ st.nr + MAX_SKIP < m.pn)
    <3>1. Len(m.key.root) = Len(st.rk) + 1
      BY <1>4, <2>7
    <3>4. k <= m.n \/ st.nr + k <= m.pn
      BY <1>2, <1>3, <2>7 DEF k
    <3>2. CASE Len(y.key.root) = Len(m.key.root) - 2
      <4>1. y.n < m.pn /\ y.text + (m.pn - y.n) + m.n <= m.text
        BY <2>3, <3>2 DEF Spaced
      <4>2. y.n < st.nr
        BY <1>2, <1>3, <2>2, <2>5, <3>1, <3>2
      <4>3. \A t, a, b, n, u, r \in Nat :
              a < b /\ a < r /\ t + (b - a) + n <= u /\ (k <= n \/ r + k <= b) => t + k < u
        BY <1>2
      <4> QED
        BY <1>2, <1>3, <2>2, <3>4, <4>1, <4>2, <4>3
    <3>3. CASE Len(y.key.root) < Len(m.key.root) - 2
      <4>1. y.text + m.pn + m.n < m.text
        BY <2>3, <3>3 DEF Spaced
      <4>2. \A t, b, n, u, r \in Nat :
              t + b + n < u /\ (k <= n \/ r + k <= b) => t + k < u
        BY <1>2
      <4> QED
        BY <1>2, <1>3, <2>2, <3>4, <4>1, <4>2
    <3> QED
      <4>1. \A a, b, c \in Nat : a < c /\ b = c + 1 => a = b - 2 \/ a < b - 2
        OBVIOUS
      <4>2. Len(y.key.root) = Len(m.key.root) - 2 \/ Len(y.key.root) < Len(m.key.root) - 2
        BY <1>2, <1>3, <2>2, <2>4, <3>1, <4>1
      <4> QED
        BY <3>2, <3>3, <4>2
  <2> QED
    BY <2>6, <2>7 DEF TooFar, st
<1> QED
  <2>1. Missing(m) \in Int /\ Missing(m) >= k
    BY <1>2, <1>5, <1>6, ManyMissing
  <2> QED
    BY <1>2, <2>1 DEF k

\* The link holds when the peer's disk catches up with its memory.
LEMMA SavedLink ==
  ASSUME IInv, OrderInv, NEW p \in Member, NEW st, st.rk \in Root, Linked(st, disk[p])
  PROVE  Linked(st, mem[p])
<1> DEFINE S == mem[p]  D == disk[p]
<1>1. S.rk \in Root /\ D.rk \in Root /\ Len(S.rk) \in Nat /\ Len(D.rk) \in Nat /\ Len(st.rk) \in Nat
  BY StateFields DEF IInv, States, Root
<1>2. Prefix(D.rk, S.rk) /\ (Len(D.rk) = Len(S.rk) => D.dhs = S.dhs)
  BY DEF OrderInv, Ordered
<1> HIDE DEF S, D
<1>3. Linked(st, D)
  BY DEF D
<1>4. Len(D.rk) <= Len(S.rk) /\ Len(st.rk) <= Len(D.rk) + 1
  BY <1>2, <1>3 DEF Prefix, Linked
<1>5. ASSUME NEW i \in 1 .. Len(st.rk) - 1 PROVE st.rk[i] = S.rk[i]
  <2>1. st.rk[i] = D.rk[i]
    BY <1>3 DEF Linked
  <2>2. i \in 1 .. Len(D.rk)
    BY <1>1, <1>4
  <2> QED
    BY <1>2, <2>1, <2>2 DEF Prefix
<1>6. Len(st.rk) = Len(S.rk) + 1 => S.dhs \in st.rk[Len(st.rk)]
  <2>1. SUFFICES ASSUME Len(st.rk) = Len(S.rk) + 1 PROVE S.dhs \in st.rk[Len(st.rk)]
    OBVIOUS
  <2>2. Len(D.rk) = Len(S.rk)
    BY <1>1, <1>4, <2>1
  <2> QED
    BY <1>2, <1>3, <2>1, <2>2 DEF Linked
<1>7. Len(st.rk) <= Len(S.rk) + 1
  BY <1>1, <1>4
<1>8. Linked(st, S)
  BY <1>5, <1>6, <1>7 DEF Linked
<1> QED
  BY <1>8 DEF S

\* The new root of a state that answers m.
LEMMA NewLink ==
  ASSUME IInv, AgeInv, OrderInv, NEW p \in Member, NEW m \in SentTo(p), NEW fresh \in Pair,
         m.key.root = Append(mem[p].rk, DH(mem[p].dhs, m.dh)),
         NEW s, s.rk = NewRoot(mem[p], m.dh, fresh)
  PROVE  Linked(s, disk[Peer(p)])
<1> DEFINE q == Peer(p)  S == mem[p]  O == disk[q]  len == Len(S.rk)
<1>1. SentTo(p) = SentBy(q) /\ q \in Member /\ Peer(q) = p
  BY Members, Incoming
<1>2. /\ S.rk \in Root /\ S.dhs \in Pair /\ len \in Nat /\ O.rk \in Root /\ Len(O.rk) \in Nat
      /\ Sound(Of(q), O) /\ Aged(Of(q), O)
  BY <1>1, StateFields DEF IInv, States, AgeInv, Grown
<1>3. m.key.root \in Root /\ m.dh \in Pair /\ Receiving(Of(p), m.key.root, m.dh)
  <2>1. m.key.root \in Root /\ Receiving(Of(p), m.key.root, m.dh)
    BY <1>1, SentFields
  <2> QED
    BY <2>1 DEF Receiving
<1>4. Prefix(m.key.root, O.rk)
  BY <1>1 DEF OrderInv, Ordered
<1> HIDE DEF q, O
<1>5. /\ Len(s.rk) = len + 2 /\ \A i \in 1 .. len : s.rk[i] = S.rk[i]
      /\ s.rk[len + 1] = DH(S.dhs, m.dh) /\ s.rk[len + 2] = DH(fresh, m.dh)
  <2>1. s.rk = NewRoot(S, m.dh, fresh)
    OBVIOUS
  <2> HIDE DEF S, len
  <2>2. /\ Len(s.rk) = Len(S.rk) + 2 /\ \A i \in 1 .. Len(S.rk) : s.rk[i] = S.rk[i]
        /\ s.rk[Len(S.rk) + 1] = DH(S.dhs, m.dh) /\ s.rk[Len(S.rk) + 2] = DH(fresh, m.dh)
    BY <1>2, <1>3, <2>1, NewRoots
  <2> QED
    BY <2>2 DEF len
<1>6. /\ Len(m.key.root) = len + 1 /\ \A i \in 1 .. len : m.key.root[i] = S.rk[i]
      /\ m.key.root[len + 1] = DH(S.dhs, m.dh)
  <2> DEFINE z == DH(S.dhs, m.dh)
  <2>1. z \in SUBSET Pair /\ m.key.root = Append(S.rk, z)
    BY <1>2, <1>3 DEF DH
  <2> HIDE DEF z, S
  <2>2. /\ Len(m.key.root) = Len(S.rk) + 1 /\ m.key.root[Len(S.rk) + 1] = z
        /\ \A i \in 1 .. Len(S.rk) : m.key.root[i] = S.rk[i]
    BY <1>2, <2>1 DEF Root
  <2> QED
    BY <2>2 DEF z
<1> HIDE DEF S, len
<1>7. len + 1 <= Len(O.rk) /\ \A i \in 1 .. len + 1 : m.key.root[i] = O.rk[i]
  BY <1>4, <1>6 DEF Prefix
<1>8. \A i \in 1 .. len + 1 : s.rk[i] = O.rk[i]
  <2>1. \A i \in 1 .. len + 1 : i \in 1 .. len \/ i = len + 1
    BY <1>2
  <2>2. \A i \in 1 .. len + 1 : s.rk[i] = m.key.root[i]
    BY <1>5, <1>6, <2>1
  <2> QED
    BY <1>7, <2>2
<1>9. Len(O.rk) = len + 1 => O.dhs \in s.rk[len + 2]
  <2>1. SUFFICES ASSUME Len(O.rk) = len + 1 PROVE O.dhs = m.dh
    BY <1>5 DEF DH
  <2>2. O.rk = m.key.root
    BY <1>2, <1>3, <1>4, <1>6, <2>1, PrefixOrder
  <2>3. O.cks # Null
    <3>1. len + 1 # 0
      BY <1>2
    <3> QED
      BY <1>1, <1>2, <2>1, <3>1, Sides DEF Aged
  <2>4. Receiving(Of(p), m.key.root, O.dhs)
    BY <1>1, <1>2, <2>2, <2>3, Sides DEF Sound
  <2> QED
    BY <1>3, <2>4, OneStart, Sides
<1>10. /\ Len(s.rk) - 1 = len + 1 /\ Len(s.rk) <= Len(O.rk) + 1
       /\ Len(s.rk) = Len(O.rk) + 1 => Len(O.rk) = len + 1
  BY <1>2, <1>5, <1>7
<1>11. Linked(s, O)
  BY <1>5, <1>8, <1>9, <1>10 DEF Linked
<1> QED
  BY <1>11 DEF O, q

\* What is handed over is open to the peer, running or restarted.
LEMMA HandedOverOpens ==
  ASSUME IInv, AgeInv, OrderInv, OpenInv, NEW p \in Member, pc[p] = "saved",
         NEW st, st \in {mem[Peer(p)], disk[Peer(p)]}
  PROVE  Readable(st, held[p])
<1> DEFINE q == Peer(p)  m == held[p]
<1>1. q \in Member /\ Peer(q) = p /\ SentTo(q) = SentBy(p)
  BY Members, Incoming
<1>2. /\ m.key.root = disk[p].rk /\ Genuine(m) /\ m.to = q
      /\ \A x \in SentBy(p) : x.key.root = m.key.root => x.n < m.n
  BY DEF IInv, Flow
<1>3. /\ Sound(Of(q), st) /\ Linked(st, disk[p]) /\ Witnessed(Of(q), st, SentBy(p)) /\ Reached(st, SentBy(p))
  BY <1>1 DEF IInv, States, OpenInv, Fed
<1>4. /\ m.n \in Nat /\ m.key.root \in Root /\ Len(m.key.root) \in Nat /\ Len(m.key.root) > 0
      /\ Parity(Of(p), m.key.root)
  BY <1>1, <1>2, Sides DEF Genuine, Made, Message, ChainKey, Root, Receiving
<1>5. Len(st.rk) \in Nat /\ st.nr \in Nat /\ Parity(Of(q), st.rk)
  BY <1>1, <1>3, StateFields
<1> HIDE DEF q, m
<1>6. SUFFICES ASSUME ~(Len(m.key.root) > Len(st.rk)) PROVE OnChain(st, m)
  BY DEF Readable, m
<1>7. Len(m.key.root) = Len(st.rk) - 1
  <2>1. Len(m.key.root) # Len(st.rk)
    <3>1. Side(q) # Side(p)
      BY <1>1, Members DEF Side
    <3>2. Of(q).side = Side(q) /\ Of(p).side = Side(p)
      BY <1>1, Sides
    <3> QED
      BY <1>4, <1>5, <3>1, <3>2 DEF Parity
  <2>2. Len(st.rk) <= Len(m.key.root) + 1
    BY <1>2, <1>3 DEF Linked
  <2> QED
    BY <1>4, <1>5, <1>6, <2>1, <2>2
<1>8. st.ckr # Null
  <2>1. \A a, b \in Nat : a > 0 /\ a = b - 1 => ~(b <= 1)
    OBVIOUS
  <2> QED
    BY <1>1, <1>3, <1>4, <1>5, <1>7, <2>1, Sides DEF Witnessed
<1>9. m.key.root = st.ckr.root
  <2>1. PICK x \in SentBy(p) : x.key.root = st.ckr.root
    BY <1>3, <1>8 DEF Witnessed
  <2>2. Len(st.ckr.root) = Len(st.rk) - 1
    BY <1>3, <1>8 DEF Sound
  <2>3. x.key.root \in Root /\ Prefix(x.key.root, m.key.root)
    BY <1>2, SentFields DEF OrderInv, Ordered
  <2> QED
    BY <1>4, <1>7, <2>1, <2>2, <2>3, PrefixOrder
<1>10. st.nr <= m.n
  <2>1. CASE st.nr = 0
    BY <1>4, <2>1
  <2>2. CASE st.nr > 0
    <3>1. PICK x \in SentBy(p) : x.key.root = st.ckr.root /\ x.n = st.nr - 1
      BY <1>3, <1>8, <2>2 DEF Reached
    <3>2. x.n < m.n
      BY <1>2, <1>9, <3>1
    <3> QED
      BY <1>4, <1>5, <3>1, <3>2
  <2> QED
    BY <1>5, <2>1, <2>2
<1> QED
  BY <1>8, <1>9, <1>10 DEF OnChain

\* The initiator is one root ahead of the responder's disk at first.
LEMMA InitiallyFed == Init => OpenInv
<1> SUFFICES ASSUME Init PROVE OpenInv
  OBVIOUS
<1>1. disk = mem /\ sent = {} /\ failed = {} /\ \A p \in Member : SentTo(p) = {}
  BY DEF Init, SentTo
<1>2. /\ mem[Initiator] = InitSender(<<>>, <<Initiator, 0>>, <<Responder, 0>>)
      /\ mem[Responder] = InitReceiver(<<>>, <<Responder, 0>>)
  BY Members DEF Init
<1>3. /\ mem[Initiator].rk = Append(<<>>, DH(<<Initiator, 0>>, <<Responder, 0>>))
      /\ mem[Initiator].ckr = Null /\ mem[Initiator].dhr = <<Responder, 0>>
      /\ mem[Initiator].skipped = NoSkipped
  BY <1>2 DEF InitSender, KdfRk
<1>4. /\ mem[Responder].rk = <<>> /\ mem[Responder].ckr = Null /\ mem[Responder].dhr = Null
      /\ mem[Responder].dhs = <<Responder, 0>> /\ mem[Responder].skipped = NoSkipped
  BY <1>2 DEF InitReceiver
<1>5. /\ Len(mem[Initiator].rk) = 1 /\ <<Responder, 0>> \in mem[Initiator].rk[1]
      /\ Len(mem[Responder].rk) = 0
  <2> DEFINE z == DH(<<Initiator, 0>>, <<Responder, 0>>)
  <2>1. mem[Initiator].rk = Append(<<>>, z) /\ <<Responder, 0>> \in z
    BY <1>3 DEF DH
  <2> HIDE DEF z
  <2>2. Append(<<>>, z) = <<z>>
    OBVIOUS
  <2>3. Len(<<z>>) = 1 /\ <<z>>[1] = z /\ Len(<<>>) = 0
    OBVIOUS
  <2> QED
    BY <1>4, <2>1, <2>2, <2>3
<1>6. DOMAIN NoSkipped = {}
  BY DEF NoSkipped
<1>7. ASSUME NEW p \in Member PROVE Witnessed(Of(p), mem[p], {}) /\ Reached(mem[p], {})
  BY <1>3, <1>4, <1>5, <1>6, <1>7, Members, Sides, SMTT(60) DEF Witnessed, Reached
<1>8. Linked(mem[Initiator], mem[Responder]) /\ Linked(mem[Responder], mem[Initiator])
  BY <1>4, <1>5 DEF Linked
<1> QED
  BY <1>1, <1>7, <1>8, Members, BoundsAssumption DEF OpenInv, GenuineOpens, Fed, Opens

\* A step of p that writes no disk and hands nothing over.
LEMMA FedKept ==
  ASSUME IInv, OpenInv, NEW p \in Member, UNCHANGED <<disk, sent>>, OthersKept(p),
         GenuineOpens',
         \A q \in Member \ {p} : OpenedTo(q)' = OpenedTo(q),
         Linked(mem'[p], disk[Peer(p)]), Witnessed(Of(p), mem'[p], SentTo(p)), Reached(mem'[p], SentTo(p)),
         Opens(p)'
  PROVE  OpenInv'
<1>1. \A q \in Member : SentTo(q)' = SentTo(q)
  BY DEF SentTo
<1>2. ASSUME NEW q \in Member \ {p} PROVE Fed(q, mem[q])' /\ Fed(q, disk[q])' /\ Opens(q)'
  <2>1. Fed(q, mem[q])' /\ Fed(q, disk[q])'
    BY <1>1 DEF OpenInv, Fed, OthersKept
  <2>2. Fresh(q)' = Fresh(q)
    BY DEF Fresh, OthersKept
  <2>3. mem'[q] = mem[q] /\ disk'[q] = disk[q] /\ Opens(q)
    BY DEF OpenInv, OthersKept
  <2>4. ASSUME NEW m \in SentTo(q)
        PROVE  m \in opened' <=> m \in opened
    BY <2>4 DEF SentTo, OpenedTo
  <2>5. Opens(q)'
    BY <1>1, <2>2, <2>3, <2>4 DEF Opens
  <2> QED
    BY <2>1, <2>5
<1>3. Fed(p, mem[p])' /\ Fed(p, disk[p])'
  BY <1>1 DEF OpenInv, Fed
<1> QED
  BY <1>2, <1>3 DEF OpenInv

\* Unless envelopes are redelivered, every step keeps the fourth invariant.
LEMMA Feeding ==
  ASSUME Redelivers = FALSE, IInv, AgeInv, OrderInv, OpenInv, [Next]_vars
  PROVE  OpenInv'
<1>1. \A p \in Member : /\ Fed(p, mem[p]) /\ Fed(p, disk[p]) /\ Opens(p)
                        /\ Sound(Of(p), mem[p]) /\ Sound(Of(p), disk[p])
  BY DEF IInv, States, OpenInv
<1>2. /\ DOMAIN mem = Member /\ DOMAIN disk = Member /\ DOMAIN pc = Member /\ DOMAIN held = Member
  BY DEF IInv, Domains
<1>3. ASSUME UNCHANGED <<mem, disk, pc, held, sent, opened, failed>> PROVE OpenInv'
  BY <1>3 DEF OpenInv, GenuineOpens, Fed, Opens, SentTo, Fresh
<1>4. CASE UNCHANGED vars
  BY <1>3, <1>4 DEF vars
<1>5. ASSUME NEW p \in Member, EncryptMessage(p) PROVE OpenInv'
  <2> DEFINE s == Encrypt(mem[p]).st
  <2>1. /\ mem' = [mem EXCEPT ![p] = s] /\ mem[p].cks # Null /\ pc[p] = "idle"
        /\ \E m : held' = [held EXCEPT ![p] = m]
        /\ pc' = [pc EXCEPT ![p] = "encrypted"] /\ UNCHANGED <<disk, sent, opened, failed>>
    BY <1>5 DEF EncryptMessage
  <2>2. /\ s.rk = mem[p].rk /\ s.dhr = mem[p].dhr /\ s.ckr = mem[p].ckr /\ s.nr = mem[p].nr
        /\ s.skipped = mem[p].skipped
    BY <1>1, <2>1, Encrypting, Sides
  <2> HIDE DEF s
  <2>3. /\ mem'[p] = s /\ disk'[p] = disk[p] /\ OthersKept(p) /\ Fresh(p)' = Fresh(p)
        /\ SentTo(p)' = SentTo(p)
    BY <1>2, <2>1 DEF OthersKept, Fresh, SentTo
  <2>4. Linked(s, disk[Peer(p)]) /\ Witnessed(Of(p), s, SentTo(p)) /\ Reached(s, SentTo(p))
    BY <1>1, <2>2 DEF Fed, Linked, Witnessed, Reached
  <2>5. \A y \in SentTo(p) : Readable(mem[p], y) => Readable(s, y)
    BY <2>2 DEF Readable, OnChain
  <2>6. Opens(p)'
    BY <1>1, <2>1, <2>3, <2>5 DEF Opens
  <2>7. GenuineOpens'
    BY <2>1 DEF OpenInv, GenuineOpens
  <2>8. \A q \in Member : OpenedTo(q)' = OpenedTo(q)
    BY <2>1 DEF OpenedTo
  <2> QED
    BY <2>1, <2>3, <2>4, <2>6, <2>7, <2>8, FedKept
<1>6. ASSUME NEW p \in Member, SaveBeforeSend(p) \/ SaveOpened(p) PROVE OpenInv'
  <2>1. /\ disk' = [disk EXCEPT ![p] = mem[p]] /\ UNCHANGED <<mem, sent, opened, failed>>
        /\ \/ pc' = [pc EXCEPT ![p] = "saved"] /\ held' = held
           \/ pc' = [pc EXCEPT ![p] = "idle"] /\ held' = [held EXCEPT ![p] = NoMessage]
    BY <1>6 DEF SaveBeforeSend, SaveOpened, history
  <2>2. /\ disk'[p] = mem[p] /\ Fresh(p)' = {}
        /\ \A q \in Member \ {p} : disk'[q] = disk[q] /\ Fresh(q)' = Fresh(q)
        /\ \A q \in Member : SentTo(q)' = SentTo(q)
    BY <1>2, <2>1 DEF Fresh, SentTo
  <2>3. Opens(p)'
    BY <1>1, <2>1, <2>2 DEF Opens
  <2>4. \A q \in Member \ {p} : Opens(q)'
    BY <1>1, <2>1, <2>2 DEF Opens
  <2>5. Fed(p, mem[p])' /\ Fed(p, disk[p])'
    <3>1. Peer(p) \in Member \ {p}
      BY Members
    <3> QED
      BY <1>1, <2>1, <2>2, <3>1 DEF Fed
  <2>6. ASSUME NEW q \in Member \ {p} PROVE Fed(q, mem[q])' /\ Fed(q, disk[q])'
    <3>1. Peer(q) = p
      BY Members
    <3>2. mem[q].rk \in Root /\ disk[q].rk \in Root
      BY <1>1, StateFields
    <3>3. Linked(mem[q], mem[p]) /\ Linked(disk[q], mem[p])
      BY <1>1, <3>1, <3>2, SavedLink DEF Fed
    <3> QED
      BY <1>1, <2>1, <2>2, <3>1, <3>3 DEF Fed
  <2> QED
    BY <2>1, <2>3, <2>4, <2>5, <2>6 DEF OpenInv, GenuineOpens
<1>7. ASSUME NEW p \in Member, HandOver(p) PROVE OpenInv'
  <2> DEFINE m == held[p]
  <2>1. /\ pc[p] = "saved" /\ pc' = [pc EXCEPT ![p] = "idle"]
        /\ held' = [held EXCEPT ![p] = NoMessage]
        /\ sent' = sent \cup {m} /\ UNCHANGED <<mem, disk, opened, failed>>
    BY <1>7 DEF HandOver
  <2>2. m.to = Peer(p)
    BY <2>1 DEF IInv, Flow
  <2>3. ASSUME NEW q \in Member, q = Peer(p) PROVE Readable(mem[q], m) /\ Readable(disk[q], m)
    BY <2>1, <2>3, HandedOverOpens
  <2> HIDE DEF m
  <2>4. /\ \A q \in Member : Fresh(q)' = Fresh(q) /\ SentTo(q) \subseteq SentTo(q)'
        /\ \A q \in Member : \A x \in SentTo(q)' : x \in SentTo(q) \/ (x = m /\ q = Peer(p))
    <3>1. \A q \in Member : Fresh(q)' = Fresh(q)
      <4>1. /\ pc[p] = "saved" /\ pc'[p] = "idle"
            /\ \A q \in Member \ {p} : pc'[q] = pc[q] /\ held'[q] = held[q]
        BY <1>2, <2>1
      <4> QED
        BY <4>1 DEF Fresh
    <3>2. \A q \in Member : SentTo(q) \subseteq SentTo(q)'
      BY <2>1 DEF SentTo
    <3>3. \A q \in Member : \A x \in SentTo(q)' : x \in SentTo(q) \/ (x = m /\ q = Peer(p))
      BY <2>1, <2>2 DEF SentTo
    <3> QED
      BY <3>1, <3>2, <3>3
  <2>5. ASSUME NEW q \in Member PROVE Fed(q, mem[q])' /\ Fed(q, disk[q])'
    <3>1. ASSUME NEW st, Witnessed(Of(q), st, SentTo(q)), Reached(st, SentTo(q))
          PROVE  Witnessed(Of(q), st, SentTo(q)') /\ Reached(st, SentTo(q)')
      BY <2>4, <3>1 DEF Witnessed, Reached
    <3> QED
      BY <1>1, <2>1, <3>1 DEF Fed
  <2>6. ASSUME NEW q \in Member PROVE Opens(q)'
    BY <1>1, <2>1, <2>3, <2>4 DEF Opens
  <2> QED
    BY <2>1, <2>5, <2>6 DEF OpenInv, GenuineOpens
<1>8. ASSUME NEW p \in Member, NEW m \in mail, Receive(p, m) PROVE OpenInv'
  <2> DEFINE fresh == <<p, pairs[p] + 1>>
             d == Decrypt(mem[p], m, fresh)
             f == [msg |-> m, known |-> m \in opened, missing |-> Missing(m)]
  <2>1. /\ mem' = [mem EXCEPT ![p] = d.st] /\ pc[p] = "idle" /\ m.to = p /\ m \notin opened
        /\ \/ /\ d.ok /\ pc' = [pc EXCEPT ![p] = "opened"] /\ held' = [held EXCEPT ![p] = m]
              /\ opened' = opened \cup {m} /\ failed' = failed
           \/ ~d.ok /\ failed' = failed \cup {f} /\ UNCHANGED <<pc, held, opened>>
        /\ UNCHANGED <<disk, sent>>
    BY <1>8 DEF Receive
  <2>2. Genuine(m) /\ m \in SentTo(p) /\ m.dh \in Pair /\ fresh \in Pair /\ fresh[1] = p
    BY <2>1 DEF IInv, Flow, States, Pair, Genuine, Made, Message, SentTo
  <2>3. d = Decrypt(mem[p], m, fresh) /\ f.missing = Missing(m)
    OBVIOUS
  <2> HIDE DEF d, fresh, f
  <2>4. SameSending(mem[p], d.st) \/ NewSending(mem[p], d.st, m.dh, fresh)
    BY <1>1, <2>1, <2>2, <2>3, Decrypting, Sides DEF Genuine
  <2>5. Coherent(Of(p), SentTo(p)) /\ Onward(Of(p), mem[p], SentTo(p)) /\ Readable(mem[p], m)
    BY <1>1, <2>1, <2>2, Incoming, Onwards DEF Opens
  <2>6. /\ Witnessed(Of(p), d.st, SentTo(p)) /\ Reached(d.st, SentTo(p))
        /\ \A y \in SentTo(p) : Readable(mem[p], y) /\ (d.ok => y # m) => Readable(d.st, y)
        /\ ~d.ok => TooFar(mem[p], m)
        /\ d.st.rk # mem[p].rk => m.key.root = Append(mem[p].rk, DH(mem[p].dhs, m.dh))
    BY <1>1, <2>2, <2>3, <2>5, DecryptingOpens, Sides DEF Fed
  <2>7. Linked(d.st, disk[Peer(p)])
    <3>1. CASE SameSending(mem[p], d.st)
      BY <1>1, <3>1 DEF SameSending, Fed, Linked
    <3>2. CASE NewSending(mem[p], d.st, m.dh, fresh)
      <4>1. d.st.rk = NewRoot(mem[p], m.dh, fresh)
        BY <3>2 DEF NewSending
      <4>2. d.st.rk # mem[p].rk
        BY <1>1, <2>2, <4>1, NewRoots, StateFields
      <4> QED
        BY <2>2, <2>6, <4>1, <4>2, NewLink
    <3> QED
      BY <2>4, <3>1, <3>2
  <2>8. /\ mem'[p] = d.st /\ disk'[p] = disk[p] /\ OthersKept(p) /\ SentTo(p)' = SentTo(p)
        /\ \A q \in Member \ {p} : OpenedTo(q)' = OpenedTo(q)
        /\ Fresh(p) = {} /\ opened \subseteq opened' /\ opened' \ Fresh(p)' \subseteq opened
        /\ opened \subseteq opened' \ Fresh(p)'
        /\ d.ok => m \in opened'
    BY <1>2, <2>1 DEF OthersKept, SentTo, OpenedTo, Fresh
  <2>9. Opens(p)'
    BY <1>1, <2>6, <2>8 DEF Opens
  <2>10. GenuineOpens'
    <3>1. CASE failed' = failed
      BY <3>1 DEF OpenInv, GenuineOpens
    <3>2. CASE ~d.ok /\ failed' = failed \cup {f}
      <4>1. f.missing > MAX_SKIP
        BY <2>2, <2>3, <2>6, <3>2, TooFarMisses
      <4> QED
        BY <3>2, <4>1 DEF OpenInv, GenuineOpens
    <3> QED
      BY <2>1, <3>1, <3>2
  <2> QED
    BY <2>1, <2>6, <2>7, <2>8, <2>9, <2>10, FedKept
<1>9. ASSUME NEW p \in Member, Crash(p) PROVE OpenInv'
  <2>1. /\ mem' = [mem EXCEPT ![p] = disk[p]] /\ pc' = [pc EXCEPT ![p] = "idle"]
        /\ held' = [held EXCEPT ![p] = NoMessage] /\ opened' = opened \ {held[p]}
        /\ UNCHANGED <<disk, sent, failed>>
    BY <1>9 DEF Crash
  <2>2. /\ mem'[p] = disk[p] /\ disk'[p] = disk[p] /\ OthersKept(p) /\ SentTo(p)' = SentTo(p)
        /\ Fresh(p)' = {}
    BY <1>2, <2>1 DEF OthersKept, SentTo, Fresh
  \* The message in the call that is lost was either just opened or never handed over.
  <2>3. pc[p] # "opened" => held[p] \notin opened
    <3>1. pc[p] = "idle" => held[p] \notin opened
      BY BoundsAssumption DEF IInv, Flow, Genuine, Made
    <3>2. pc[p] \in {"encrypted", "saved"} => held[p] \notin opened
      BY DEF IInv, Flow, SentBy, Genuine, Made, Message
    <3> QED
      BY <3>1, <3>2 DEF IInv, Flow
  <2>4. opened \ Fresh(p) \subseteq opened'
    BY <2>1, <2>3 DEF Fresh
  <2>5. Opens(p)'
    BY <1>1, <2>2, <2>4 DEF Opens
  <2>6. \A q \in Member \ {p} : OpenedTo(q)' = OpenedTo(q)
    <3>1. pc[p] = "opened" => held[p].to = p
      BY DEF IInv, Flow, OpenedTo
    <3> QED
      BY <2>1, <2>3, <3>1 DEF OpenedTo
  <2>7. GenuineOpens'
    BY <2>1 DEF OpenInv, GenuineOpens
  <2> QED
    BY <1>1, <2>1, <2>2, <2>5, <2>6, <2>7, FedKept DEF Fed
<1>10. ASSUME NEW p \in Member, Leak(p) PROVE OpenInv'
  BY <1>3, <1>10 DEF Leak
<1>11. ASSUME NEW p \in Member, NEW m \in mail, Acknowledge(p, m) PROVE OpenInv'
  BY <1>3, <1>11 DEF Acknowledge
<1>12. ASSUME NEW p \in Member, NEW m \in unlogged[p], LogEvent(p, m) PROVE OpenInv'
  BY <1>3, <1>12 DEF LogEvent, history
<1> QED
  BY <1>4, <1>5, <1>6, <1>7, <1>8, <1>9, <1>10, <1>11, <1>12 DEF Next

\* Unless an envelope that was opened is handed over again, a genuine message
\* opens, in whatever order it arrives and wherever either app died, or more
\* than MAX_SKIP messages before it never arrived (ratchet.js:77-128;
\* transport.js:231-245, 316-335).
THEOREM GenuineMessagesOpen ==
  ASSUME Redelivers = FALSE
  PROVE  Spec => []GenuineOpens
<1>1. Init => IInv /\ AgeInv /\ OrderInv /\ OpenInv
  BY Initially, InitiallyAged, InitiallySpaced, InitiallyFed
<1>2. IInv /\ AgeInv /\ OrderInv /\ OpenInv /\ [Next]_vars
        => (IInv /\ AgeInv /\ OrderInv /\ OpenInv)'
  BY Inductive, Aging, Spacing, Feeding
<1>3. IInv /\ AgeInv /\ OrderInv /\ OpenInv => GenuineOpens
  BY DEF OpenInv
<1> QED
  BY <1>1, <1>2, <1>3, PTL DEF Spec
=============================================================================
