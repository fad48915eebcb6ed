--------------------------- MODULE RatchetSession ---------------------------
(***************************************************************************)
(* Two members with an established session (client/crypto/ratchet.js)      *)
(* talking through client/net/transport.js over a network that reorders    *)
(* and loses.  Sending is encrypt, then persist the session, then hand the *)
(* envelope over; receiving is decrypt, then persist, then hand the        *)
(* message to the event log while the envelope is acknowledged.  The app   *)
(* may die between any two of those steps and come back with what was      *)
(* persisted.                                                              *)
(*                                                                         *)
(* One call of send or _onEnvelope runs at a time in each app; calls that  *)
(* overlap at their awaits on one session are not in this module.          *)
(***************************************************************************)
EXTENDS DoubleRatchet, FiniteSets

CONSTANTS
  Initiator, Responder,
  Redelivers,   \* may an envelope that was opened be handed over again?  It is
                \* when its acknowledgement was lost, or when a second reading
                \* of the inbox starts before the first one acknowledges, and
                \* when its sender saw the POST fail though it had arrived.
  Leaks,        \* may a copy of one session state get out?
  MaxSend,      \* bound: how many messages each member encrypts
  MaxMishaps    \* bound: times an app dies or a copy gets out

Peer(p) == CHOOSE q \in Member : q # p

Message == [to : Member, text : Nat, dh : Pair, pn : Nat, n : Nat, key : ChainKey]

ASSUME BoundsAssumption ==
  /\ MaxSend \in [Member -> Nat] /\ MaxMishaps \in Nat
  /\ Redelivers \in BOOLEAN /\ Leaks \in BOOLEAN
  /\ Member = {Initiator, Responder} /\ Initiator # Responder
  /\ Null \notin Message

VARIABLES
  mem,       \* mem[p]: the entry of Transport.sessions for the peer
  disk,      \* disk[p]: what Store.saveSession wrote last
  pc,        \* pc[p]: where the running call of p stands, "idle" if none
  held,      \* held[p]: the message that call works on
  mail,      \* envelopes handed over and not acknowledged
  unlogged,  \* unlogged[p]: opened messages whose appendEvent has not finished
  log,       \* log[p]: messages in the event log
  pairs,     \* pairs[p]: ratchet key pairs p has generated
  \* History, read by the properties and the bounds only.
  encrypted, \* encrypted[p]: how many messages p has encrypted
  sent,      \* every message handed over
  opened,    \* messages their recipient decrypted, as far as its session knows
  failed,    \* [msg, known, missing]: a message that did not open, whether it
             \* had before, and how many of its sender's earlier ones had not
  acked,     \* messages acknowledged
  crashes,   \* how many times an app has died
  leak       \* the session state that got out, with its owner

vars == <<mem, disk, pc, held, mail, unlogged, log, pairs,
          encrypted, sent, opened, failed, acked, crashes, leak>>
history == <<encrypted, sent, opened, failed, acked, crashes, leak>>

NoMessage == Null

TypeOK ==
  /\ \A p \in Member :
       /\ mem[p].ns \in Nat /\ mem[p].nr \in Nat /\ mem[p].pn \in Nat
       /\ \A k \in DOMAIN mem[p].skipped : k[1][1] = Peer(p) /\ k[2] \in Nat
       /\ pc[p] \in {"idle", "encrypted", "saved", "opened"}
       /\ (held[p] = NoMessage) = (pc[p] = "idle")
       /\ unlogged[p] \cup log[p] \subseteq opened
       /\ pairs[p] \in Nat
  /\ mail \cup opened \cup acked \cup {f.msg : f \in failed} \subseteq sent
  /\ crashes \in 0 .. MaxMishaps

\* The session as X3DH leaves it: the responder's first ratchet pair is its
\* signed prekey, pair 0 of each member.
Init ==
  /\ mem = [p \in Member |->
              IF p = Initiator
                THEN InitSender(<<>>, <<Initiator, 0>>, <<Responder, 0>>)
                ELSE InitReceiver(<<>>, <<Responder, 0>>)]
  /\ disk = mem
  /\ pc = [p \in Member |-> "idle"]
  /\ held = [p \in Member |-> NoMessage]
  /\ mail = {} /\ sent = {} /\ opened = {} /\ failed = {} /\ acked = {}
  /\ unlogged = [p \in Member |-> {}]
  /\ log = [p \in Member |-> {}]
  /\ pairs = [p \in Member |-> 0]
  /\ encrypted = [p \in Member |-> 0]
  /\ crashes = 0
  /\ leak = Null

-----------------------------------------------------------------------------
Envelope(p, msg) ==
  [to |-> Peer(p), text |-> encrypted[p], dh |-> msg.dh, pn |-> msg.pn, n |-> msg.n, key |-> msg.key]

\* send: Ratchet.encrypt.  Without a sending chain the call throws.
EncryptMessage(p) ==
  /\ pc[p] = "idle" /\ mem[p].cks # Null /\ encrypted[p] < MaxSend[p]
  /\ LET e == Encrypt(mem[p])
     IN /\ mem' = [mem EXCEPT ![p] = e.st]
        /\ held' = [held EXCEPT ![p] = Envelope(p, e.msg)]
  /\ pc' = [pc EXCEPT ![p] = "encrypted"]
  /\ encrypted' = [encrypted EXCEPT ![p] = @ + 1]
  /\ UNCHANGED <<disk, mail, unlogged, log, pairs, sent, opened, failed, acked, crashes, leak>>

\* The definitions named Bug... are not the code: each is a mistake that could
\* have been made at the definition that follows it, and breaks a property.
BugSaveBeforeSend(p) ==
  /\ pc[p] = "encrypted"
  /\ pc' = [pc EXCEPT ![p] = "saved"]
  /\ UNCHANGED <<mem, disk, held, mail, unlogged, log, pairs, history>>

\* send: the session is persisted before anything leaves.
SaveBeforeSend(p) ==
  /\ pc[p] = "encrypted"
  /\ disk' = [disk EXCEPT ![p] = mem[p]]
  /\ pc' = [pc EXCEPT ![p] = "saved"]
  /\ UNCHANGED <<mem, held, mail, unlogged, log, pairs, history>>

\* send: the envelope goes to the peer's channel or mailbox.
HandOver(p) ==
  /\ pc[p] = "saved"
  /\ mail' = mail \cup {held[p]}
  /\ sent' = sent \cup {held[p]}
  /\ pc' = [pc EXCEPT ![p] = "idle"]
  /\ held' = [held EXCEPT ![p] = NoMessage]
  /\ UNCHANGED <<mem, disk, unlogged, log, pairs, encrypted, opened, failed, acked, crashes, leak>>

\* The earlier messages of m's sender that were encrypted and never opened.
Missing(m) ==
  m.text - Cardinality({x \in opened : x.to = m.to /\ x.text < m.text})

\* _onEnvelope: Ratchet.decrypt.  A message that does not open is acknowledged
\* all the same.
Receive(p, m) ==
  /\ pc[p] = "idle" /\ m \in mail /\ m.to = p
  /\ m \in opened => Redelivers
  /\ LET d == Decrypt(mem[p], m, <<p, pairs[p] + 1>>)
     IN /\ mem' = [mem EXCEPT ![p] = d.st]
        /\ pairs' = [pairs EXCEPT ![p] = IF d.st.dhs = mem[p].dhs THEN @ ELSE @ + 1]
        /\ \/ /\ d.ok
              /\ pc' = [pc EXCEPT ![p] = "opened"]
              /\ held' = [held EXCEPT ![p] = m]
              /\ opened' = opened \cup {m}
              /\ UNCHANGED <<mail, failed, acked>>
           \/ /\ ~d.ok
              /\ mail' = mail \ {m}
              /\ acked' = acked \cup {m}
              /\ failed' = failed \cup
                   {[msg |-> m, known |-> m \in opened, missing |-> Missing(m)]}
              /\ UNCHANGED <<pc, held, opened>>
  /\ UNCHANGED <<disk, unlogged, log, encrypted, sent, crashes, leak>>

\* _onEnvelope: the session is persisted and the listeners are called; the
\* event log is written on its own time.
SaveOpened(p) ==
  /\ pc[p] = "opened"
  /\ disk' = [disk EXCEPT ![p] = mem[p]]
  /\ unlogged' = [unlogged EXCEPT ![p] = @ \cup {held[p]}]
  /\ pc' = [pc EXCEPT ![p] = "idle"]
  /\ held' = [held EXCEPT ![p] = NoMessage]
  /\ UNCHANGED <<mem, mail, log, pairs, history>>

\* onMessage's listener: appendEvent is done.
LogEvent(p, m) ==
  /\ m \in unlogged[p]
  /\ unlogged' = [unlogged EXCEPT ![p] = @ \ {m}]
  /\ log' = [log EXCEPT ![p] = @ \cup {m}]
  /\ UNCHANGED <<mem, disk, pc, held, mail, pairs, history>>

\* drainInbox acknowledges what was handed to the listeners.
Acknowledge(p, m) ==
  /\ m \in mail /\ m.to = p /\ m \in unlogged[p] \cup log[p]
  /\ mail' = mail \ {m}
  /\ acked' = acked \cup {m}
  /\ UNCHANGED <<mem, disk, pc, held, unlogged, log, pairs, encrypted, sent, opened, failed, crashes, leak>>

Mishaps == crashes + (IF leak = Null THEN 0 ELSE 1)

\* The app dies and is opened again: Transport.session reloads what was saved.
Crash(p) ==
  /\ Mishaps < MaxMishaps
  /\ mem' = [mem EXCEPT ![p] = disk[p]]
  /\ pc' = [pc EXCEPT ![p] = "idle"]
  /\ held' = [held EXCEPT ![p] = NoMessage]
  /\ unlogged' = [unlogged EXCEPT ![p] = {}]
  /\ opened' = opened \ {held[p]}
  /\ crashes' = crashes + 1
  /\ UNCHANGED <<disk, mail, log, pairs, encrypted, sent, failed, acked, leak>>

\* Somebody gets a copy of a session state.
Leak(p) ==
  /\ Leaks /\ leak = Null /\ Mishaps < MaxMishaps
  /\ leak' = [owner |-> p, st |-> mem[p]]
  /\ UNCHANGED <<mem, disk, pc, held, mail, unlogged, log, pairs,
                 encrypted, sent, opened, failed, acked, crashes>>

Next ==
  \E p \in Member :
    \/ EncryptMessage(p) \/ SaveBeforeSend(p) \/ HandOver(p)
    \/ \E m \in mail : Receive(p, m) \/ Acknowledge(p, m)
    \/ SaveOpened(p)
    \/ \E m \in unlogged[p] : LogEvent(p, m)
    \/ Crash(p)
    \/ Leak(p)

Spec == Init /\ [][Next]_vars

-----------------------------------------------------------------------------
(* A genuine message opens, in whatever order it arrives and wherever      *)
(* either app died, unless it was opened before or more than MAX_SKIP      *)
(* messages before it never arrived (ratchet.js:104-128, the README's and  *)
(* ratchet.js:6's out-of-order delivery).  It is so as long as nothing     *)
(* that was opened is handed over again (Redelivers): a second delivery    *)
(* costs the chain a step, and the next genuine message with it.           *)
GenuineOpens == \A f \in failed : f.known \/ f.missing > MAX_SKIP

(* No message key seals two messages, not even after a crash between the   *)
(* encryption and the network: the session is saved before anything is     *)
(* handed over (transport.js:231-245).                                     *)
KeysAreFresh == \A x, y \in sent : x.key = y.key => x = y

(* Neither the running app nor its disk can recompute the key of a message *)
(* it has handed over or finished receiving (ratchet.js:4, 91-128;         *)
(* transport.js:232, 328).                                                 *)
ForwardSecrecy ==
  \A p \in Member :
    \A m \in unlogged[p] \cup log[p] \cup {x \in sent : x.to # p} :
      ~Holds(mem[p], m.key) /\ ~Holds(disk[p], m.key)

\* A root key the holder of the leaked state can compute: the leaked one, and
\* any that extends it only with secrets of the leaked pair.
KnowsRoot(rk) ==
  /\ Len(leak.st.rk) <= Len(rk)
  /\ SubSeq(rk, 1, Len(leak.st.rk)) = leak.st.rk
  /\ \A i \in Len(leak.st.rk) + 1 .. Len(rk) : leak.st.dhs \in rk[i]

\* The messages the owner of the leaked state sent under a younger ratchet pair,
\* and those its peer sent under the pair it generated in answer to one.
AfterHealing ==
  LET o == leak.owner  q == Peer(o)
      Young(pair) == pair # Null /\ pair[2] > leak.st.dhs[2]
  IN {m \in sent : \/ m.to = q /\ Young(m.dh)
                   \/ m.to = o /\ Young(mem[q].dhr) /\ m.dh = mem[q].dhs}

(* A leaked session state stops being of use once its owner has generated  *)
(* a new ratchet pair: what the owner sends under it, and what its peer    *)
(* answers to that, is out of reach (ratchet.js:5, 61-75).                 *)
Heals ==
  leak # Null =>
    \A m \in AfterHealing : ~Holds(leak.st, m.key) /\ ~KnowsRoot(m.key.root)

(* ratchet.js:6: the skipped message keys are bounded by MAX_SKIP.         *)
SkippedBound == \A p \in Member : Cardinality(DOMAIN mem[p].skipped) <= MAX_SKIP

(* The relay "deletes it the moment it is delivered" (README.md:20), and   *)
(* the device is the only copy (store.js:1): an acknowledged message that  *)
(* opened is in the event log or on its way there.                         *)
DeliveredIsKept ==
  \A m \in acked \cap opened : m \in unlogged[m.to] \cup log[m.to]
=============================================================================
