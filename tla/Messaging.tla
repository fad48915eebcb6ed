------------------------------ MODULE Messaging ------------------------------
(***************************************************************************)
(* How members come to share a session, and what becomes of the first      *)
(* messages: X3DH (client/crypto/x3dh.js) run by Transport.send and        *)
(* Transport._onEnvelope, the Double Ratchet on top of it, the relay's     *)
(* queues and the local outbox (client/net/transport.js, client/db/        *)
(* store.js).                                                              *)
(*                                                                         *)
(* Calls of one app do not overlap here, the step from the saved session   *)
(* to the network apart; RatchetSession takes the ratchet's own steps      *)
(* apart.  A POST that fails has not reached the relay: one that has, and  *)
(* is repeated from the outbox, is a redelivery, which RatchetSession has. *)
(* Every member has published a bundle with the one-time prekeys           *)
(* 1 .. Prekeys; who writes to whom first is a parameter.                  *)
(***************************************************************************)
EXTENDS DoubleRatchet, FiniteSets, SequencesExt

CONSTANTS
  Starts,      \* the pairs <<a, b>> such that a writes to b unasked
  Prekeys,     \* one-time prekeys in a published bundle
  Offline,     \* may a POST /v1/send fail, so that the outbox is used?
  MaxSend,     \* bound: messages one member encrypts
  MaxRestart   \* bound: restarts of one app

ASSUME MessagingBounds ==
  /\ Starts \subseteq Member \X Member /\ \A s \in Starts : s[1] # s[2]
  /\ Prekeys \in Nat /\ MaxSend \in Nat /\ MaxRestart \in Nat
  /\ Offline \in BOOLEAN

VARIABLES
  sessions,  \* sessions[h][p]: the ratchet state h uses for p, Null if none
  saved,     \* saved[h][p]: the one in h's store
  opks,      \* opks[h]: the one-time prekeys h still has in memory
  pairs,     \* pairs[h]: the key pairs h has generated
  sending,   \* sending[h]: the envelope of the running send, Null if none
  outbox,    \* outbox[h]: envelopes waiting for a connection
  mail,      \* mail[h]: the queue of h at the relay
  \* History, read by the properties and the bounds only.
  encrypted, \* encrypted[h]: how many messages h has encrypted
  opened,    \* envelopes that opened
  dropped,   \* envelopes that did not, and were acknowledged all the same
  opkUses,   \* [by, opk, for, run]: the one-time prekeys that went into a session,
             \* with the X3DH run and the run of the app
  restarts   \* restarts[h]: how often h's app was restarted

vars == <<sessions, saved, opks, pairs, sending, outbox, mail,
          encrypted, opened, dropped, opkUses, restarts>>

\* The signed prekey; the one-time prekeys are the pairs 1 .. Prekeys.
Spk(h) == <<h, 0>>

TypeOK ==
  /\ \A h, p \in Member :
       saved[h][p] # Null => sessions[h][p] # Null /\ saved[h][p].rk # <<>>
  /\ \A h \in Member :
       /\ opks[h] \subseteq 1 .. Prekeys
       /\ sending[h] # Null => sending[h].from = h
       /\ \A b \in outbox[h] : b.from = h
       /\ \A b \in ToSet(mail[h]) : b.to = h
  /\ \A u \in opkUses : u.opk \in 1 .. Prekeys
  /\ restarts \in [Member -> 0 .. MaxRestart]

Init ==
  /\ sessions = [h \in Member |-> [p \in Member |-> Null]]
  /\ saved = sessions
  /\ opks = [h \in Member |-> 1 .. Prekeys]
  /\ pairs = [h \in Member |-> Prekeys]
  /\ sending = [h \in Member |-> Null]
  /\ outbox = [h \in Member |-> {}]
  /\ mail = [h \in Member |-> <<>>]
  /\ encrypted = [h \in Member |-> 0]
  /\ opened = {} /\ dropped = {} /\ opkUses = {}
  /\ restarts = [h \in Member |-> 0]

-----------------------------------------------------------------------------
\* The secret of an X3DH run: both sides compute it from the initiator's
\* ephemeral pair, the responder's signed prekey, and the one-time prekey if
\* there is one.
Secret(prekey, responder) ==
  <<{<<prekey.from, prekey.ek>>, Spk(responder)}
      \cup (IF prekey.opk = Null THEN {} ELSE {<<responder, prekey.opk>>})>>

\* initiate always takes the first one-time prekey of the published bundle.
Initiate(h, p) ==
  LET prekey == [from |-> h, ek |-> pairs[h] + 1,
                 opk |-> IF Prekeys > 0 THEN 1 ELSE Null]
  IN [prekey |-> prekey,
      state |-> InitSender(Secret(prekey, p), <<h, pairs[h] + 2>>, Spk(p))]

\* The definitions named Bug... are not the code: each is a mistake that could
\* have been made at the definition that follows it, and breaks a property.
BugPersisted(h, p, st) == saved

\* persist.
Persisted(h, p, st) == [saved EXCEPT ![h][p] = st]

\* send, up to and including the saving of the session.  Without a session it
\* runs X3DH first, and the envelope carries the prekey message.
Send(h, p) ==
  /\ sending[h] = Null /\ encrypted[h] < MaxSend
  /\ LET x == Initiate(h, p)
         new == sessions[h][p] = Null
         st == IF new THEN x.state ELSE sessions[h][p]
         e == Encrypt(st)
     IN /\ new => <<h, p>> \in Starts
        /\ st.cks # Null
        /\ sessions' = [sessions EXCEPT ![h][p] = e.st]
        /\ saved' = Persisted(h, p, e.st)
        /\ pairs' = [pairs EXCEPT ![h] = IF new THEN @ + 2 ELSE @]
        /\ sending' = [sending EXCEPT ![h] =
             [from |-> h, to |-> p, nr |-> encrypted[h],
              prekey |-> IF new THEN x.prekey ELSE Null, msg |-> e.msg]]
  /\ encrypted' = [encrypted EXCEPT ![h] = @ + 1]
  /\ UNCHANGED <<opks, outbox, mail, opened, dropped, opkUses, restarts>>

BugQueued(b) == [mail EXCEPT ![b.from] = Append(@, b)]

\* The relay appends to the queue of the recipient the request names.
Queued(b) == [mail EXCEPT ![b.to] = Append(@, b)]

\* The relay accepts the envelope.
Posted(h) ==
  /\ sending[h] # Null
  /\ mail' = Queued(sending[h])
  /\ sending' = [sending EXCEPT ![h] = Null]
  /\ UNCHANGED <<sessions, saved, opks, pairs, outbox, encrypted, opened, dropped,
                 opkUses, restarts>>

\* The relay is out of reach, or refuses: the envelope waits in the outbox.
Held(h) ==
  /\ Offline /\ sending[h] # Null
  /\ outbox' = [outbox EXCEPT ![h] = @ \cup {sending[h]}]
  /\ sending' = [sending EXCEPT ![h] = Null]
  /\ UNCHANGED <<sessions, saved, opks, pairs, mail, encrypted, opened, dropped,
                 opkUses, restarts>>

\* flushOutbox hands an envelope over.  The outbox is listed by identifiers
\* drawn at random, hence in no particular order.
Flush(h, b) ==
  /\ b \in outbox[h]
  /\ outbox' = [outbox EXCEPT ![h] = @ \ {b}]
  /\ mail' = Queued(b)
  /\ UNCHANGED <<sessions, saved, opks, pairs, sending, encrypted, opened, dropped,
                 opkUses, restarts>>

-----------------------------------------------------------------------------
\* Without a session, an envelope is of use only with a prekey message whose
\* one-time prekey is still there.
Usable(h, b) ==
  \/ sessions[h][b.from] # Null
  \/ b.prekey # Null /\ b.prekey.opk \in opks[h] \cup {Null}

\* _onEnvelope gives up before the ratchet is involved.
DropUnusable(h) ==
  /\ mail[h] # <<>> /\ ~Usable(h, Head(mail[h]))
  /\ dropped' = dropped \cup {Head(mail[h])}
  /\ mail' = [mail EXCEPT ![h] = Tail(@)]
  /\ UNCHANGED <<sessions, saved, opks, pairs, sending, outbox, encrypted, opened,
                 opkUses, restarts>>

BugBurnt(h, prekey) == opks[h]

\* respond takes the one-time prekey out of the identity in memory.
Burnt(h, prekey) == opks[h] \ {prekey.opk}

\* The session an envelope is opened with: the one there is, whatever the
\* envelope says, or one made from its prekey message.
SessionFor(h, b) ==
  IF sessions[h][b.from] # Null
    THEN sessions[h][b.from] ELSE InitReceiver(Secret(b.prekey, h), Spk(h))

BugSavedAfter(h, b, d) == saved

\* The session is saved only when the message opened.
SavedAfter(h, b, d) ==
  IF d.ok THEN Persisted(h, b.from, d.st) ELSE saved

\* _onEnvelope: the session, Ratchet.decrypt, and the acknowledgement, which
\* follows either way.
Open(h) ==
  /\ mail[h] # <<>> /\ Usable(h, Head(mail[h]))
  /\ LET b == Head(mail[h])
         new == sessions[h][b.from] = Null
         d == Decrypt(SessionFor(h, b), b.msg, <<h, pairs[h] + 1>>)
     IN /\ sessions' = [sessions EXCEPT ![h][b.from] = d.st]
        /\ saved' = SavedAfter(h, b, d)
        /\ pairs' = [pairs EXCEPT ![h] = IF d.st.dhs = <<h, @ + 1>> THEN @ + 1 ELSE @]
        /\ opened' = IF d.ok THEN opened \cup {b} ELSE opened
        /\ dropped' = IF d.ok THEN dropped ELSE dropped \cup {b}
        /\ opks' = IF new THEN [opks EXCEPT ![h] = Burnt(h, b.prekey)] ELSE opks
        /\ opkUses' = IF new /\ b.prekey.opk # Null
                        THEN opkUses \cup {[by |-> h, opk |-> b.prekey.opk,
                                            for |-> <<b.prekey.from, b.prekey.ek>>,
                                            run |-> restarts[h]]}
                        ELSE opkUses
  /\ mail' = [mail EXCEPT ![h] = Tail(@)]
  /\ UNCHANGED <<sending, outbox, encrypted, restarts>>

\* The app is closed and opened again.  The identity is read as it was written
\* when it was created.
Restart(h) ==
  /\ restarts[h] < MaxRestart
  /\ sessions' = [sessions EXCEPT ![h] = saved[h]]
  /\ opks' = [opks EXCEPT ![h] = 1 .. Prekeys]
  /\ sending' = [sending EXCEPT ![h] = Null]
  /\ restarts' = [restarts EXCEPT ![h] = @ + 1]
  /\ UNCHANGED <<saved, pairs, outbox, mail, encrypted, opened, dropped, opkUses>>

Next ==
  \E h \in Member :
    \/ \E p \in Member \ {h} : Send(h, p)
    \/ Posted(h) \/ Held(h) \/ \E b \in outbox[h] : Flush(h, b)
    \/ DropUnusable(h) \/ Open(h)
    \/ Restart(h)

Spec == Init /\ [][Next]_vars

-----------------------------------------------------------------------------
\* The X3DH run a ratchet state descends from.
Origin(st) == st.rk[1]

(* Two members with a session each to the other share it: both descend     *)
(* from one X3DH run (x3dh.js:50-108, transport.js:219-229, 320-325).      *)
(* It is so when at most one of the two writes to the other unasked        *)
(* (Starts): when both do, each may be left with a session of its own.     *)
PeersAgree ==
  \A h, p \in Member :
    sessions[h][p] # Null /\ sessions[p][h] # Null =>
      Origin(sessions[h][p]) = Origin(sessions[p][h])

(* An envelope is lost on its recipient only when the one that carries the *)
(* prekey message of its session has not opened yet, whatever was          *)
(* restarted or reordered in between (transport.js:215-233, 310-332).      *)
DropsAreOrphans ==
  [][\A d \in dropped' \ dropped :
       ~\E b \in opened : b.prekey # Null /\ b.msg.key.root[1] = d.msg.key.root[1]]_vars

(* A one-time prekey goes into one session, as long as the app that holds  *)
(* it runs: burning it does not outlive a restart (x3dh.js:96-101).        *)
OpksAreSingleUse ==
  \A u, v \in opkUses : u.by = v.by /\ u.opk = v.opk /\ u.run = v.run => u = v

(* "single use - burn it" (x3dh.js:100): no two sessions come from one     *)
(* one-time prekey.                                                        *)
OpksAreBurnt ==
  \A u, v \in opkUses : u.by = v.by /\ u.opk = v.opk => u.for = v.for

(* The first message to a member opens, even when the member was offline   *)
(* (transport.js:223-224).                                                 *)
FirstMessagesOpen == \A d \in dropped : d.prekey = Null

(* The prekey message reaches its recipient: whoever sent more than one    *)
(* message to a member has not lost all but the first                      *)
(* (ratchet.js:6, crypto.test.mjs:96-102).                                 *)
OutOfOrderOpens ==
  \A d \in dropped :
    ~\E b \in UNION {ToSet(mail[h]) : h \in Member} \cup UNION {outbox[h] : h \in Member} :
       b.prekey # Null /\ b.msg.key.root[1] = d.msg.key.root[1]
=============================================================================
