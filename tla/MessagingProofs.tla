--------------------------- MODULE MessagingProofs ---------------------------
(***************************************************************************)
(* What holds of how sessions begin and go on, for any members, any        *)
(* prekeys, and any order of sends, deliveries and restarts:               *)
(*                                                                         *)
(*   - a one-time prekey goes into one session of a run of the app;        *)
(*   - members who write to each other in one direction first share one    *)
(*     session;                                                            *)
(*   - every envelope for which there is a session opens, and the ones     *)
(*     that are thrown away belong to a session whose prekey message       *)
(*     nobody has opened.                                                  *)
(*                                                                         *)
(* The invariant of the second, PeerInv, names the session that the member *)
(* who began it has saved: everything the two have of each other, in       *)
(* memory, in the store and in envelopes, comes from that one.  The calls  *)
(* of the ratchet matter for their origin only, which each of them keeps.  *)
(*                                                                         *)
(* The invariant of the third, TalkInv, adds what the two can read:        *)
(* whatever is in a send's hand, in an outbox or in a queue, and was not   *)
(* opened, is open to the session at the other end.  A call of send or     *)
(* _onEnvelope is one call of encrypt or decrypt on one conversation,      *)
(* which RatchetLemmas answers for; the rest moves envelopes.              *)
(***************************************************************************)
EXTENDS Messaging, RatchetLemmas, TLAPS

opkVars == <<opks, opkUses, restarts>>

OpkTypes ==
  /\ opks \in [Member -> SUBSET (1 .. Prekeys)]
  /\ restarts \in [Member -> 0 .. MaxRestart]
  /\ \A u \in opkUses : u.by \in Member /\ u.opk \in 1 .. Prekeys /\ u.run \in Nat

\* A use belongs to a run of the app that has begun; one of the present run
\* has burnt its prekey.
UsesAreBurnt ==
  \A u \in opkUses : /\ u.run <= restarts[u.by]
                     /\ u.run = restarts[u.by] => u.opk \notin opks[u.by]

OpkInv == OpkTypes /\ UsesAreBurnt /\ OpksAreSingleUse

LEMMA Starting == Init => OpkInv
BY MessagingBounds DEF MessagingBounds, Init, OpkInv, OpkTypes, UsesAreBurnt, OpksAreSingleUse

-----------------------------------------------------------------------------
\* What opening an envelope does to the prekeys: nothing, or one that is there
\* is burnt and its use noted down.
Burns(h, opk, for) ==
  /\ opk \in opks[h]
  /\ opks' = [opks EXCEPT ![h] = @ \ {opk}]
  /\ opkUses' = opkUses \cup {[by |-> h, opk |-> opk, for |-> for, run |-> restarts[h]]}
  /\ restarts' = restarts

LEMMA OpenBurns ==
  ASSUME OpkTypes, NEW h \in Member, Open(h)
  PROVE  \/ \E opk \in 1 .. Prekeys :
               Burns(h, opk, <<Head(mail[h]).prekey.from, Head(mail[h]).prekey.ek>>)
         \/ opkUses' = opkUses /\ restarts' = restarts
            /\ opks' = [opks EXCEPT ![h] = @ \ {Null}]
         \/ UNCHANGED opkVars
<1> DEFINE b == Head(mail[h])
           new == sessions[h][b.from] = Null
<1>1. /\ opks' = IF new THEN [opks EXCEPT ![h] = opks[h] \ {b.prekey.opk}] ELSE opks
      /\ opkUses' = IF new /\ b.prekey.opk # Null
                      THEN opkUses \cup {[by |-> h, opk |-> b.prekey.opk,
                                          for |-> <<b.prekey.from, b.prekey.ek>>,
                                          run |-> restarts[h]]}
                      ELSE opkUses
      /\ restarts' = restarts
  BY DEF Open, Burnt
<1>2. new => b.prekey.opk \in opks[h] \cup {Null}
  BY DEF Open, Usable
<1>3. CASE ~new
  BY <1>1, <1>3 DEF opkVars
<1>4. CASE new /\ b.prekey.opk = Null
  BY <1>1, <1>4
<1>5. CASE new /\ b.prekey.opk # Null
  <2>1. b.prekey.opk \in opks[h] /\ b.prekey.opk \in 1 .. Prekeys
    BY <1>2, <1>5 DEF OpkTypes
  <2>2. Burns(h, b.prekey.opk, <<b.prekey.from, b.prekey.ek>>)
    BY <1>1, <1>5, <2>1 DEF Burns
  <2> QED
    BY <2>1, <2>2
<1> QED
  BY <1>3, <1>4, <1>5

LEMMA BurningKeeps ==
  ASSUME OpkInv, NEW h \in Member, NEW opk \in 1 .. Prekeys, NEW for, Burns(h, opk, for)
  PROVE  OpkInv'
<1> DEFINE use == [by |-> h, opk |-> opk, for |-> for, run |-> restarts[h]]
<1>1. opks' \in [Member -> SUBSET (1 .. Prekeys)] /\ restarts' \in [Member -> 0 .. MaxRestart]
  BY DEF Burns, OpkInv, OpkTypes
<1>2. restarts[h] \in Nat
  BY DEF OpkInv, OpkTypes
<1>3. opkUses' = opkUses \cup {use}
  BY DEF Burns
<1>4. use.by = h /\ use.opk = opk /\ use.run = restarts[h]
  OBVIOUS
<1> HIDE DEF use
<1>5. opk \notin opks'[h] /\ \A g \in Member : opks'[g] \subseteq opks[g]
  BY DEF Burns, OpkInv, OpkTypes
<1>6. OpkTypes'
  BY <1>1, <1>2, <1>3, <1>4 DEF OpkTypes, OpkInv
<1>7. UsesAreBurnt'
  <2>1. restarts' = restarts
    BY DEF Burns
  <2> QED
    BY <1>2, <1>3, <1>4, <1>5, <2>1 DEF UsesAreBurnt, OpkTypes, OpkInv
<1>8. OpksAreSingleUse'
  <2>1. \A u \in opkUses : ~(u.by = use.by /\ u.opk = use.opk /\ u.run = use.run)
    BY <1>4 DEF Burns, UsesAreBurnt, OpkInv
  <2> QED
    BY <1>3, <2>1 DEF OpksAreSingleUse, OpkInv
<1> QED
  BY <1>6, <1>7, <1>8 DEF OpkInv

\* A restart brings every prekey back, and begins a run nothing was used in.
LEMMA RestartKeeps ==
  ASSUME OpkInv, NEW h \in Member, Restart(h)
  PROVE  OpkInv'
<1>1. /\ opks' = [opks EXCEPT ![h] = 1 .. Prekeys]
      /\ restarts' = [restarts EXCEPT ![h] = @ + 1]
      /\ restarts[h] < MaxRestart /\ opkUses' = opkUses
  BY DEF Restart
<1>2. OpkTypes'
  BY <1>1, MessagingBounds DEF MessagingBounds, OpkInv, OpkTypes
<1>3. UsesAreBurnt'
  <2> SUFFICES ASSUME NEW u \in opkUses
               PROVE  /\ u.run <= restarts'[u.by]
                      /\ u.run = restarts'[u.by] => u.opk \notin opks'[u.by]
    BY <1>1 DEF UsesAreBurnt
  <2>1. u.by \in Member /\ u.run \in Nat /\ restarts[u.by] \in Nat /\ u.run <= restarts[u.by]
    BY DEF OpkInv, OpkTypes, UsesAreBurnt
  <2>2. CASE u.by = h
    <3>1. restarts'[u.by] = restarts[u.by] + 1
      BY <1>1, <2>1, <2>2 DEF OpkInv, OpkTypes
    <3> QED
      BY <2>1, <3>1
  <2>3. CASE u.by # h
    <3>1. restarts'[u.by] = restarts[u.by] /\ opks'[u.by] = opks[u.by]
      BY <1>1, <2>1, <2>3 DEF OpkInv, OpkTypes
    <3> QED
      BY <2>1, <3>1 DEF OpkInv, UsesAreBurnt
  <2> QED
    BY <2>2, <2>3
<1>4. OpksAreSingleUse'
  BY <1>1 DEF OpkInv, OpksAreSingleUse
<1> QED
  BY <1>2, <1>3, <1>4 DEF OpkInv

LEMMA NoOpkKeeps ==
  ASSUME OpkInv, NEW h \in Member, opkUses' = opkUses, restarts' = restarts,
         opks' = [opks EXCEPT ![h] = @ \ {Null}]
  PROVE  OpkInv'
<1>1. \A g \in Member : opks'[g] \subseteq opks[g]
  BY DEF OpkInv, OpkTypes
<1>2. OpkTypes'
  BY DEF OpkInv, OpkTypes
<1>3. UsesAreBurnt'
  BY <1>1 DEF OpkInv, UsesAreBurnt, OpkTypes
<1> QED
  BY <1>2, <1>3 DEF OpkInv, OpksAreSingleUse

LEMMA StutterKeeps == OpkInv /\ UNCHANGED opkVars => OpkInv'
BY DEF OpkInv, opkVars, OpkTypes, UsesAreBurnt, OpksAreSingleUse

\* Only opening an envelope and a restart touch the prekeys.
LEMMA Elsewhere ==
  ASSUME Next
  PROVE  UNCHANGED opkVars \/ \E h \in Member : Open(h) \/ Restart(h)
<1>1. PICK h \in Member : \/ \E p \in Member \ {h} : Send(h, p)
                          \/ Posted(h) \/ Held(h) \/ \E b \in outbox[h] : Flush(h, b)
                          \/ DropUnusable(h) \/ Open(h) \/ Restart(h)
  BY DEF Next
<1>2. ASSUME NEW p \in Member, Send(h, p) PROVE UNCHANGED opkVars
  BY <1>2 DEF Send, opkVars
<1>3. ASSUME NEW b \in outbox[h], Flush(h, b) PROVE UNCHANGED opkVars
  BY <1>3 DEF Flush, opkVars
<1>4. Posted(h) \/ Held(h) \/ DropUnusable(h) => UNCHANGED opkVars
  BY DEF Posted, Held, DropUnusable, opkVars
<1> QED
  BY <1>1, <1>2, <1>3, <1>4

LEMMA OpkInvariant == Spec => []OpkInv
<1>1. OpkInv /\ [Next]_vars => OpkInv'
  <2> SUFFICES ASSUME OpkInv, [Next]_vars PROVE OpkInv'
    OBVIOUS
  <2>1. CASE UNCHANGED vars
    BY <2>1, StutterKeeps DEF vars, opkVars
  <2>2. CASE Next
    <3>1. CASE UNCHANGED opkVars
      BY <3>1, StutterKeeps
    <3>2. CASE \E g \in Member : Open(g)
      <4> PICK g \in Member : Open(g)
        BY <3>2
      <4>1. OpkTypes
        BY DEF OpkInv
      <4> QED
        BY <4>1, OpenBurns, BurningKeeps, NoOpkKeeps, StutterKeeps
    <3>3. CASE \E g \in Member : Restart(g)
      BY <3>3, RestartKeeps
    <3> QED
      BY <2>2, <3>1, <3>2, <3>3, Elsewhere DEF Next
  <2> QED
    BY <2>1, <2>2
<1> QED
  BY Starting, <1>1, PTL DEF Spec

(* A one-time prekey goes into one session of a run of the app, in         *)
(* whatever order envelopes arrive and apps restart (x3dh.js:96-101).      *)
THEOREM PrekeysAreSingleUse == Spec => []OpksAreSingleUse
<1>1. OpkInv => OpksAreSingleUse
  BY DEF OpkInv
<1> QED
  BY OpkInvariant, <1>1, PTL

-----------------------------------------------------------------------------
\* A root key: the X3DH secret, and whatever was mixed into it.
IsRoot(rk) == rk # <<>> /\ \E S : rk \in Seq(S)

IsSession(st) ==
  /\ st = [dhs |-> st.dhs, dhr |-> st.dhr, rk |-> st.rk, cks |-> st.cks, ckr |-> st.ckr,
           ns |-> st.ns, nr |-> st.nr, pn |-> st.pn, skipped |-> st.skipped]
  /\ IsRoot(st.rk)

Continues(st, new) == IsSession(new) /\ Origin(new) = Origin(st)

\* Mixing a secret into a root key does not change where it comes from.
LEMMA Mixing ==
  ASSUME NEW rk, IsRoot(rk), NEW secret
  PROVE  IsRoot(KdfRk(rk, secret)) /\ KdfRk(rk, secret)[1] = rk[1]
<1>1. PICK S : rk \in Seq(S)
  BY DEF IsRoot
<1>2. rk \in Seq(S \cup {secret}) /\ Len(rk) \in Nat /\ Len(rk) > 0
  BY <1>1 DEF IsRoot
<1>3. /\ Append(rk, secret) \in Seq(S \cup {secret})
      /\ Append(rk, secret) # <<>> /\ Append(rk, secret)[1] = rk[1]
  BY <1>2
<1> QED
  BY <1>3 DEF IsRoot, KdfRk

\* What X3DH computes is a root key nothing was mixed into.
LEMMA SecretIsRoot ==
  ASSUME NEW prekey, NEW h
  PROVE  IsRoot(Secret(prekey, h))
<1> DEFINE secret == {<<prekey.from, prekey.ek>>, Spk(h)}
                       \cup (IF prekey.opk = Null THEN {} ELSE {<<h, prekey.opk>>})
<1>1. <<secret>> \in Seq({secret}) /\ <<secret>> # <<>>
  OBVIOUS
<1> QED
  BY <1>1 DEF IsRoot, Secret

\* initSender and initReceiver start from the secret they are given
\* (ratchet.js:27-59).
LEMMA SenderIsSession ==
  ASSUME NEW sk, IsRoot(sk), NEW dhs, NEW pub
  PROVE  IsSession(InitSender(sk, dhs, pub)) /\ Origin(InitSender(sk, dhs, pub)) = sk[1]
BY Mixing DEF InitSender, IsSession, Origin

LEMMA ReceiverIsSession ==
  ASSUME NEW sk, IsRoot(sk), NEW pair
  PROVE  IsSession(InitReceiver(sk, pair)) /\ Origin(InitReceiver(sk, pair)) = sk[1]
BY DEF InitReceiver, IsSession, Origin

\* Each call of the ratchet goes on from the session it is given
\* (ratchet.js:61-102).
LEMMA EncryptContinues ==
  ASSUME NEW st, IsSession(st)
  PROVE  Continues(st, Encrypt(st).st)
<1>1. Encrypt(st).st = [st EXCEPT !.cks = KdfCk(st.cks), !.ns = st.ns + 1]
  BY DEF Encrypt, IsSession
<1>2. Encrypt(st).st = [dhs |-> st.dhs, dhr |-> st.dhr, rk |-> st.rk, cks |-> KdfCk(st.cks),
                        ckr |-> st.ckr, ns |-> st.ns + 1, nr |-> st.nr, pn |-> st.pn,
                        skipped |-> st.skipped]
  BY <1>1 DEF IsSession
<1> QED
  BY <1>2 DEF Continues, IsSession, Origin

LEMMA SkippingContinues ==
  ASSUME NEW st, IsSession(st), NEW until
  PROVE  Continues(st, SkipMessageKeys(st, until))
<1> DEFINE s == SkipMessageKeys(st, until)
           new == {<<st.dhr, n>> : n \in st.nr .. until - 1}
           keys == [k \in new \cup DOMAIN st.skipped |->
                      IF k \in new THEN [st.ckr EXCEPT !.step = @ + (k[2] - st.nr)]
                                   ELSE st.skipped[k]]
           ckr == [st.ckr EXCEPT !.step = @ + (until - st.nr)]
<1>1. CASE st.ckr = Null \/ until <= st.nr
  BY <1>1 DEF SkipMessageKeys, Continues
<1>2. CASE ~(st.ckr = Null \/ until <= st.nr)
  <2>1. s = [st EXCEPT !.skipped = keys, !.ckr.step = @ + (until - st.nr), !.nr = until]
    BY <1>2 DEF SkipMessageKeys, IsSession
  <2>2. s = [st EXCEPT !.skipped = keys, !.ckr = ckr, !.nr = until]
    BY <2>1 DEF IsSession
  <2> HIDE DEF keys, ckr
  <2>3. s = [dhs |-> st.dhs, dhr |-> st.dhr, rk |-> st.rk, cks |-> st.cks, ckr |-> ckr,
             ns |-> st.ns, nr |-> until, pn |-> st.pn, skipped |-> keys]
    BY <2>2 DEF IsSession
  <2> QED
    BY <2>3 DEF Continues, IsSession, Origin
<1> QED
  BY <1>1, <1>2

LEMMA RatchetingContinues ==
  ASSUME NEW st, IsSession(st), NEW dh, NEW fresh
  PROVE  Continues(st, DhRatchet(st, dh, fresh))
<1> DEFINE rk1 == KdfRk(st.rk, DH(st.dhs, dh))
           rk2 == KdfRk(rk1, DH(fresh, dh))
<1>1. IsRoot(rk2) /\ rk2[1] = st.rk[1]
  <2>1. IsRoot(rk1) /\ rk1[1] = st.rk[1]
    BY Mixing DEF IsSession
  <2> HIDE DEF rk1
  <2> QED
    BY <2>1, Mixing
<1> HIDE DEF rk1, rk2
<1>2. DhRatchet(st, dh, fresh)
        = [st EXCEPT !.pn = st.ns, !.ns = 0, !.nr = 0, !.dhr = dh,
                     !.ckr = Chain(rk1), !.dhs = fresh, !.rk = rk2, !.cks = Chain(rk2)]
  BY DEF DhRatchet, rk1, rk2
<1>3. DhRatchet(st, dh, fresh)
        = [dhs |-> fresh, dhr |-> dh, rk |-> rk2, cks |-> Chain(rk2), ckr |-> Chain(rk1),
           ns |-> 0, nr |-> 0, pn |-> st.ns, skipped |-> st.skipped]
  BY <1>2 DEF IsSession
<1> QED
  BY <1>1, <1>3 DEF Continues, IsSession, Origin

LEMMA InChainContinues ==
  ASSUME NEW st, IsSession(st), NEW msg
  PROVE  Continues(st, DecryptInChain(st, msg).st)
<1> DEFINE s == SkipMessageKeys(st, msg.n)
<1>1. Continues(st, s) /\ Continues(st, st)
  BY SkippingContinues DEF Continues
<1>2. CASE TooManySkipped(st, msg.n) \/ s.ckr = Null
  BY <1>1, <1>2 DEF DecryptInChain
<1>3. CASE ~(TooManySkipped(st, msg.n) \/ s.ckr = Null)
  <2>1. DecryptInChain(st, msg).st = [s EXCEPT !.ckr = KdfCk(@), !.nr = @ + 1]
    BY <1>3 DEF DecryptInChain
  <2> HIDE DEF s
  <2>2. DecryptInChain(st, msg).st = [s EXCEPT !.ckr = KdfCk(s.ckr), !.nr = s.nr + 1]
    BY <1>1, <2>1 DEF Continues, IsSession
  <2>3. DecryptInChain(st, msg).st
          = [dhs |-> s.dhs, dhr |-> s.dhr, rk |-> s.rk, cks |-> s.cks, ckr |-> KdfCk(s.ckr),
             ns |-> s.ns, nr |-> s.nr + 1, pn |-> s.pn, skipped |-> s.skipped]
    BY <1>1, <2>2 DEF Continues, IsSession
  <2> QED
    BY <1>1, <2>3 DEF Continues, IsSession, Origin
<1> QED
  BY <1>2, <1>3

\* decrypt, whether it throws or not, leaves a state of the same X3DH run.
LEMMA DecryptContinues ==
  ASSUME NEW st, IsSession(st), NEW msg, NEW fresh
  PROVE  Continues(st, Decrypt(st, msg, fresh).st)
<1>1. CASE <<msg.dh, msg.n>> \in DOMAIN st.skipped
  <2> DEFINE k == <<msg.dh, msg.n>>
             rest == [j \in DOMAIN st.skipped \ {k} |-> st.skipped[j]]
  <2>1. Decrypt(st, msg, fresh) = DecryptSkipped(st, msg)
    BY <1>1 DEF Decrypt
  <2>2. CASE st.skipped[k] # msg.key
    BY <2>1, <2>2 DEF DecryptSkipped, Continues
  <2>3. CASE st.skipped[k] = msg.key
    <3>1. DecryptSkipped(st, msg).st = [st EXCEPT !.skipped = rest]
      BY <2>3 DEF DecryptSkipped, IsSession
    <3> HIDE DEF rest
    <3>2. DecryptSkipped(st, msg).st
            = [dhs |-> st.dhs, dhr |-> st.dhr, rk |-> st.rk, cks |-> st.cks, ckr |-> st.ckr,
               ns |-> st.ns, nr |-> st.nr, pn |-> st.pn, skipped |-> rest]
      BY <3>1 DEF IsSession
    <3> QED
      BY <2>1, <3>2 DEF Continues, IsSession, Origin
  <2> QED
    BY <2>2, <2>3
<1>2. CASE <<msg.dh, msg.n>> \notin DOMAIN st.skipped /\ st.dhr = msg.dh
  BY <1>2, InChainContinues DEF Decrypt
<1>3. CASE <<msg.dh, msg.n>> \notin DOMAIN st.skipped /\ st.dhr # msg.dh
  <2>1. CASE TooManySkipped(st, msg.pn)
    BY <1>3, <2>1 DEF Decrypt, Continues
  <2>2. CASE ~TooManySkipped(st, msg.pn)
    <3> DEFINE s1 == SkipMessageKeys(st, msg.pn)
               s2 == DhRatchet(s1, msg.dh, fresh)
    <3>1. Decrypt(st, msg, fresh) = DecryptInChain(s2, msg)
      BY <1>3, <2>2 DEF Decrypt
    <3>2. Continues(st, s1)
      BY SkippingContinues
    <3> HIDE DEF s1
    <3>3. Continues(s1, s2)
      BY <3>2, RatchetingContinues DEF Continues
    <3> HIDE DEF s2
    <3>4. Continues(s2, DecryptInChain(s2, msg).st)
      BY <3>3, InChainContinues DEF Continues
    <3> QED
      BY <3>1, <3>2, <3>3, <3>4 DEF Continues
  <2> QED
    BY <2>1, <2>2
<1> QED
  BY <1>1, <1>2, <1>3

-----------------------------------------------------------------------------
\* The absent value is no session: null is no object.
NullIsNoSession ==
  \A dhs, dhr, rk, cks, ckr, ns, nr, pn, skipped :
    Null # [dhs |-> dhs, dhr |-> dhr, rk |-> rk, cks |-> cks, ckr |-> ckr,
            ns |-> ns, nr |-> nr, pn |-> pn, skipped |-> skipped]

\* Of two members at most one writes to the other unasked.
OneDirection == \A s \in Starts : <<s[2], s[1]>> \notin Starts

\* A table with an entry for every two members, and one entry of it replaced.
IsTable(t) == t = [h \in Member |-> [p \in Member |-> t[h][p]]]

Put(t, h, p, v) == [t EXCEPT ![h][p] = v]

Replaced(t, h, p, v, new) ==
  /\ IsTable(new)
  /\ new[h][p] = v
  /\ \A g, q \in Member : ~(g = h /\ q = p) => new[g][q] = t[g][q]

Tables == IsTable(sessions) /\ IsTable(saved)

Queues == \E S : mail \in [Member -> Seq(S)]

\* A prekey message is the one the sender's session began with.
Sealed(e) ==
  /\ e.from \in Member /\ e.to \in Member /\ e.from # e.to
  /\ e.prekey # Null => /\ <<e.from, e.to>> \in Starts /\ saved[e.from][e.to] # Null
                        /\ Secret(e.prekey, e.to)[1] = Origin(saved[e.from][e.to])

\* Envelopes are in the hands of a send, in an outbox, or in a queue.
Letters ==
  /\ sending = [h \in Member |-> sending[h]] /\ outbox = [h \in Member |-> outbox[h]]
  /\ \A h \in Member :
       /\ sending[h] # Null => Sealed(sending[h]) /\ sending[h].from = h
       /\ \A e \in outbox[h] : Sealed(e) /\ e.from = h
       /\ \A e \in ToSet(mail[h]) : Sealed(e) /\ e.to = h

\* A session that was saved is in memory, further on perhaps.
SavedIsOpen ==
  \A h, p \in Member :
    /\ sessions[h][p] # Null => IsSession(sessions[h][p])
    /\ saved[h][p] # Null => /\ IsSession(saved[h][p]) /\ sessions[h][p] # Null
                             /\ Origin(saved[h][p]) = Origin(sessions[h][p])

\* A member's session with a peer is one it began and saved, or comes from the
\* secret of the one the peer began and saved.
Descends ==
  \A h, p \in Member :
    sessions[h][p] # Null =>
      \/ <<h, p>> \in Starts /\ saved[h][p] # Null
      \/ /\ <<p, h>> \in Starts /\ saved[p][h] # Null
         /\ Origin(sessions[h][p]) = Origin(saved[p][h])

PeerInv == Tables /\ Queues /\ Letters /\ SavedIsOpen /\ Descends

\* What is saved stays, and comes from where it came from.
SavedGrows ==
  \A g, q \in Member :
    saved[g][q] # Null => saved'[g][q] # Null /\ Origin(saved'[g][q]) = Origin(saved[g][q])

\* Replacing an entry of a table leaves the others.
LEMMA Entry ==
  ASSUME NEW t, IsTable(t), NEW h \in Member, NEW p \in Member, NEW v
  PROVE  Replaced(t, h, p, v, Put(t, h, p, v))
<1> DEFINE t2 == Put(t, h, p, v)
<1>1. t = [g \in Member |-> [q \in Member |-> t[g][q]]]
  BY DEF IsTable
<1>2. t2 = [t EXCEPT ![h][p] = v]
  BY DEF Put
<1> HIDE DEF t2
<1>3. \A g \in Member : t[g] = [q \in Member |-> t[g][q]]
  BY <1>1
<1>4. t2 = [g \in Member |-> IF g = h THEN [t[h] EXCEPT ![p] = v] ELSE t[g]]
  BY <1>1, <1>2
<1>5. [t[h] EXCEPT ![p] = v] = [q \in Member |-> IF q = p THEN v ELSE t[h][q]]
  BY <1>3
<1>6. \A q \in Member : t2[h][q] = IF q = p THEN v ELSE t[h][q]
  BY <1>4, <1>5
<1>7. \A g \in Member : g # h => t2[g] = t[g]
  BY <1>4
<1>8. \A g \in Member : t2[g] = [q \in Member |-> t2[g][q]]
  <2> SUFFICES ASSUME NEW g \in Member PROVE t2[g] = [q \in Member |-> t2[g][q]]
    OBVIOUS
  <2>1. CASE g = h
    BY <1>4, <1>5, <2>1
  <2>2. CASE g # h
    BY <1>3, <1>7, <2>2
  <2> QED
    BY <2>1, <2>2
<1>9. t2 = [g \in Member |-> t2[g]]
  BY <1>4
<1>10. t2 = [g \in Member |-> [q \in Member |-> t2[g][q]]]
  BY <1>8, <1>9
<1>11. \A g, q \in Member : ~(g = h /\ q = p) => t2[g][q] = t[g][q]
  BY <1>6, <1>7
<1> QED
  BY <1>6, <1>10, <1>11 DEF Replaced, IsTable, t2

\* The one thing a call does to the sessions: it goes on from the one there is,
\* or begins one, and the store follows or stays.
Advances(h, p, st) ==
  /\ sessions' = [sessions EXCEPT ![h][p] = st]
  /\ saved' = saved \/ saved' = [saved EXCEPT ![h][p] = st]
  /\ IsSession(st)
  /\ sessions[h][p] # Null => Origin(st) = Origin(sessions[h][p])

\* Such a call keeps what is saved within what is in memory.
LEMMA AdvancesKeeps ==
  ASSUME NullIsNoSession, Tables, SavedIsOpen, NEW h \in Member, NEW p \in Member, NEW st,
         Advances(h, p, st)
  PROVE  /\ Tables' /\ SavedIsOpen' /\ SavedGrows /\ st # Null
         /\ Replaced(sessions, h, p, st, sessions')
         /\ saved' = saved \/ Replaced(saved, h, p, st, saved')
<1>1. st # Null
  BY DEF NullIsNoSession, Advances, IsSession
<1>2. Replaced(sessions, h, p, st, sessions')
  <2>1. sessions' = Put(sessions, h, p, st)
    BY DEF Advances, Put
  <2> QED
    BY <2>1, Entry DEF Tables
<1>3. \/ saved' = saved
      \/ Replaced(saved, h, p, st, saved')
  <2>1. saved' = saved \/ saved' = Put(saved, h, p, st)
    BY DEF Advances, Put
  <2> QED
    BY <2>1, Entry DEF Tables
<1>4. SavedIsOpen'
  <2> SUFFICES ASSUME NEW g \in Member, NEW q \in Member
               PROVE  /\ sessions'[g][q] # Null => IsSession(sessions'[g][q])
                      /\ saved'[g][q] # Null =>
                           /\ IsSession(saved'[g][q]) /\ sessions'[g][q] # Null
                           /\ Origin(saved'[g][q]) = Origin(sessions'[g][q])
    BY DEF SavedIsOpen, Origin, IsSession
  <2>1. CASE g = h /\ q = p
    <3>1. sessions'[g][q] = st /\ IsSession(st)
      BY <1>2, <2>1 DEF Advances, Replaced
    <3>2. CASE saved'[g][q] = st
      BY <1>1, <3>1, <3>2
    <3>3. CASE saved' = saved
      BY <1>1, <2>1, <3>1, <3>3 DEF SavedIsOpen, Advances
    <3> QED
      BY <1>3, <2>1, <3>2, <3>3 DEF Replaced
  <2>2. CASE ~(g = h /\ q = p)
    <3>1. sessions'[g][q] = sessions[g][q] /\ saved'[g][q] = saved[g][q]
      BY <1>2, <1>3, <2>2 DEF Replaced
    <3> QED
      BY <3>1 DEF SavedIsOpen
  <2> QED
    BY <2>1, <2>2
<1>5. Tables'
  BY <1>2, <1>3 DEF Tables, Replaced
<1>6. SavedGrows
  <2> SUFFICES ASSUME NEW g \in Member, NEW q \in Member, saved[g][q] # Null
               PROVE  saved'[g][q] # Null /\ Origin(saved'[g][q]) = Origin(saved[g][q])
    BY DEF SavedGrows
  <2>1. CASE saved' = saved
    BY <2>1
  <2>2. CASE Replaced(saved, h, p, st, saved')
    <3>1. CASE g = h /\ q = p
      <4>1. Origin(saved[h][p]) = Origin(sessions[h][p]) /\ sessions[h][p] # Null
        BY <3>1 DEF SavedIsOpen
      <4>2. saved'[g][q] = st
        BY <2>2, <3>1 DEF Replaced
      <4> QED
        BY <1>1, <3>1, <4>1, <4>2 DEF Advances
    <3>2. CASE ~(g = h /\ q = p)
      BY <2>2, <3>2 DEF Replaced
    <3> QED
      BY <3>1, <3>2
  <2> QED
    BY <1>3, <2>1, <2>2
<1> QED
  BY <1>1, <1>2, <1>3, <1>4, <1>5, <1>6

\* A session that begins is saved by its initiator, or comes from what the
\* initiator saved.
LEMMA DescendsKeeps ==
  ASSUME Descends, SavedGrows, NEW h \in Member, NEW p \in Member, NEW st,
         Replaced(sessions, h, p, st, sessions'),
         IF sessions[h][p] # Null
           THEN Origin(st) = Origin(sessions[h][p])
           ELSE \/ <<h, p>> \in Starts /\ saved'[h][p] # Null
                \/ /\ <<p, h>> \in Starts /\ saved[p][h] # Null
                   /\ Origin(st) = Origin(saved[p][h])
  PROVE  Descends'
<1> SUFFICES ASSUME NEW g \in Member, NEW q \in Member, sessions'[g][q] # Null
             PROVE  \/ <<g, q>> \in Starts /\ saved'[g][q] # Null
                    \/ /\ <<q, g>> \in Starts /\ saved'[q][g] # Null
                       /\ Origin(sessions'[g][q]) = Origin(saved'[q][g])
  BY DEF Descends, Origin
<1>1. CASE g = h /\ q = p
  <2>1. sessions'[g][q] = st
    BY <1>1 DEF Replaced
  <2>2. CASE sessions[h][p] # Null
    <3>1. \/ <<h, p>> \in Starts /\ saved[h][p] # Null
          \/ /\ <<p, h>> \in Starts /\ saved[p][h] # Null
             /\ Origin(sessions[h][p]) = Origin(saved[p][h])
      BY <2>2 DEF Descends
    <3> QED
      BY <1>1, <2>1, <2>2, <3>1 DEF SavedGrows
  <2>3. CASE sessions[h][p] = Null
    BY <1>1, <2>1, <2>3 DEF SavedGrows
  <2> QED
    BY <2>2, <2>3
<1>2. CASE ~(g = h /\ q = p)
  <2>1. sessions'[g][q] = sessions[g][q]
    BY <1>2 DEF Replaced
  <2>2. \/ <<g, q>> \in Starts /\ saved[g][q] # Null
        \/ /\ <<q, g>> \in Starts /\ saved[q][g] # Null
           /\ Origin(sessions[g][q]) = Origin(saved[q][g])
    BY <2>1 DEF Descends
  <2> QED
    BY <2>1, <2>2 DEF SavedGrows
<1> QED
  BY <1>1, <1>2

\* An envelope stays the one its sender's session began with.
LEMMA SealedKeeps ==
  ASSUME SavedGrows, NEW e, Sealed(e)
  PROVE  Sealed(e)'
BY DEF Sealed, SavedGrows, Origin, Secret

\* Appending to a queue, and taking its head.
LEMMA Enqueueing ==
  ASSUME Queues, NEW b, b.to \in Member, mail' = Queued(b)
  PROVE  /\ Queues'
         /\ \A h \in Member : \A e \in ToSet(mail'[h]) :
              e \in ToSet(mail[h]) \/ (e = b /\ h = b.to)
<1>1. PICK S : mail \in [Member -> Seq(S)]
  BY DEF Queues
<1>2. mail' = [mail EXCEPT ![b.to] = Append(mail[b.to], b)]
  BY <1>1 DEF Queued
<1>3. \A s \in Seq(S) : /\ Append(s, b) \in Seq(S \cup {b}) /\ s \in Seq(S \cup {b})
                        /\ \A i \in DOMAIN Append(s, b) :
                             Append(s, b)[i] = b \/ (i \in DOMAIN s /\ Append(s, b)[i] = s[i])
  OBVIOUS
<1>4. mail' \in [Member -> Seq(S \cup {b})]
  <2>1. mail' = [h \in Member |-> IF h = b.to THEN Append(mail[b.to], b) ELSE mail[h]]
    BY <1>1, <1>2
  <2>2. \A h \in Member : mail[h] \in Seq(S)
    BY <1>1
  <2> DEFINE T == Seq(S \cup {b})
  <2>3. \A h \in Member : mail[h] \in T /\ Append(mail[h], b) \in T
    BY <1>3, <2>2
  <2> HIDE DEF T
  <2>4. mail' \in [Member -> T]
    BY <2>1, <2>3
  <2> QED
    BY <2>4 DEF T
<1>5. ASSUME NEW h \in Member, NEW e \in ToSet(mail'[h])
      PROVE  e \in ToSet(mail[h]) \/ (e = b /\ h = b.to)
  <2>1. CASE h = b.to
    <3>1. mail'[h] = Append(mail[h], b) /\ mail[h] \in Seq(S)
      BY <1>1, <1>2, <2>1
    <3> QED
      BY <1>3, <1>5, <2>1, <3>1 DEF ToSet
  <2>2. CASE h # b.to
    BY <1>1, <1>2, <1>5, <2>2
  <2> QED
    BY <2>1, <2>2
<1>6. Queues'
  BY <1>4 DEF Queues
<1> QED
  BY <1>5, <1>6

LEMMA Dequeueing ==
  ASSUME Queues, NEW h \in Member, mail[h] # <<>>, mail' = [mail EXCEPT ![h] = Tail(@)]
  PROVE  /\ Queues' /\ Head(mail[h]) \in ToSet(mail[h])
         /\ \A g \in Member : ToSet(mail'[g]) \subseteq ToSet(mail[g])
<1>1. PICK S : mail \in [Member -> Seq(S)]
  BY DEF Queues
<1>2. \A s \in Seq(S) : s # <<>> =>
        /\ Tail(s) \in Seq(S) /\ 1 \in DOMAIN s /\ Head(s) = s[1]
        /\ \A i \in DOMAIN Tail(s) : i + 1 \in DOMAIN s /\ Tail(s)[i] = s[i + 1]
  OBVIOUS
<1>3. mail' \in [Member -> Seq(S)]
  BY <1>1, <1>2
<1>4. ToSet(mail'[h]) \subseteq ToSet(mail[h])
  <2>1. mail'[h] = Tail(mail[h]) /\ mail[h] \in Seq(S)
    BY <1>1
  <2> QED
    BY <1>2, <2>1 DEF ToSet
<1>5. Head(mail[h]) \in ToSet(mail[h])
  BY <1>1, <1>2 DEF ToSet
<1> QED
  BY <1>1, <1>3, <1>4, <1>5 DEF Queues

-----------------------------------------------------------------------------
\* Nobody has a session, and nothing is on its way.
LEMMA PeersBegin == Init => PeerInv
<1> SUFFICES ASSUME Init PROVE PeerInv
  OBVIOUS
<1>1. /\ sessions = [h \in Member |-> [p \in Member |-> Null]] /\ saved = sessions
      /\ sending = [h \in Member |-> Null] /\ outbox = [h \in Member |-> {}]
      /\ mail = [h \in Member |-> <<>>]
  BY DEF Init
<1>2. \A h, p \in Member : sessions[h][p] = Null /\ saved[h][p] = Null
  BY <1>1
<1>3. Tables
  BY <1>1 DEF Tables, IsTable
<1>4. Queues
  <2>1. <<>> \in Seq({})
    OBVIOUS
  <2>2. mail \in [Member -> Seq({})]
    BY <1>1, <2>1
  <2> QED
    BY <2>2 DEF Queues
<1>5. Letters
  BY <1>1 DEF Letters, ToSet
<1> QED
  BY <1>2, <1>3, <1>4, <1>5 DEF PeerInv, SavedIsOpen, Descends

\* A step that leaves the sessions alone, and moves envelopes without making one.
Moves ==
  /\ UNCHANGED <<sessions, saved>> /\ Queues'
  /\ sending' = [h \in Member |-> sending'[h]] /\ outbox' = [h \in Member |-> outbox'[h]]
  /\ \A h \in Member :
       /\ sending'[h] = sending[h] \/ sending'[h] = Null
       /\ \A e \in outbox'[h] : Sealed(e) /\ e.from = h
       /\ \A e \in ToSet(mail'[h]) : Sealed(e) /\ e.to = h

\* Moving envelopes disturbs nothing.
LEMMA MovesKeeps ==
  ASSUME PeerInv, Moves
  PROVE  PeerInv'
<1>1. ASSUME NEW e, Sealed(e) PROVE Sealed(e)'
  <2>1. SavedGrows
    BY DEF Moves, SavedGrows
  <2> QED
    BY <1>1, <2>1, SealedKeeps
<1>2. Letters'
  BY <1>1 DEF PeerInv, Letters, Moves
<1> QED
  BY <1>2 DEF PeerInv, Moves, Tables, SavedIsOpen, Descends, IsTable, IsSession, Origin

\* The relay takes an envelope, or the outbox does (transport.js:248-260).
LEMMA PostedMoves ==
  ASSUME PeerInv, NEW h \in Member, Posted(h)
  PROVE  Moves
<1>1. Sealed(sending[h]) /\ sending[h].from = h /\ sending[h].to \in Member
  BY DEF Posted, PeerInv, Letters, Sealed
<1>2. /\ Queues'
      /\ \A g \in Member : \A e \in ToSet(mail'[g]) :
           e \in ToSet(mail[g]) \/ (e = sending[h] /\ g = sending[h].to)
  BY <1>1, Enqueueing DEF Posted, PeerInv
<1> QED
  BY <1>1, <1>2 DEF Moves, Posted, PeerInv, Letters

LEMMA HeldMoves ==
  ASSUME PeerInv, NEW h \in Member, Held(h)
  PROVE  Moves
<1>1. Sealed(sending[h]) /\ sending[h].from = h
  BY DEF Held, PeerInv, Letters
<1> QED
  BY <1>1 DEF Moves, Held, PeerInv, Letters, Queues

\* flushOutbox hands an envelope over (transport.js:267-282).
LEMMA FlushMoves ==
  ASSUME PeerInv, NEW h \in Member, NEW b \in outbox[h], Flush(h, b)
  PROVE  Moves
<1>1. Sealed(b) /\ b.from = h /\ b.to \in Member
  <2>1. Sealed(b) /\ b.from = h
    BY DEF PeerInv, Letters
  <2> QED
    BY <2>1 DEF Sealed
<1>2. /\ Queues'
      /\ \A g \in Member : \A e \in ToSet(mail'[g]) :
           e \in ToSet(mail[g]) \/ (e = b /\ g = b.to)
  BY <1>1, Enqueueing DEF Flush, PeerInv
<1>3. /\ UNCHANGED <<sessions, saved, sending>> /\ outbox' = [outbox EXCEPT ![h] = @ \ {b}]
  BY DEF Flush
<1>4. /\ sending = [g \in Member |-> sending[g]]
      /\ \A g \in Member : /\ \A e \in outbox[g] : Sealed(e) /\ e.from = g
                           /\ \A e \in ToSet(mail[g]) : Sealed(e) /\ e.to = g
      /\ outbox = [g \in Member |-> outbox[g]]
  BY DEF PeerInv, Letters
<1>5. outbox' = [g \in Member |-> outbox'[g]] /\ \A g \in Member : outbox'[g] \subseteq outbox[g]
  BY <1>3, <1>4
<1>6. \A g \in Member : \A e \in ToSet(mail'[g]) : Sealed(e) /\ e.to = g
  BY <1>1, <1>2, <1>4
<1> QED
  BY <1>2, <1>3, <1>4, <1>5, <1>6 DEF Moves

\* An envelope without a use is acknowledged (transport.js:316-323).
LEMMA DropMoves ==
  ASSUME PeerInv, NEW h \in Member, DropUnusable(h)
  PROVE  Moves
<1>1. Queues' /\ \A g \in Member : ToSet(mail'[g]) \subseteq ToSet(mail[g])
  BY Dequeueing DEF DropUnusable, PeerInv
<1> QED
  BY <1>1 DEF Moves, DropUnusable, PeerInv, Letters

-----------------------------------------------------------------------------
\* send goes on with the session there is or begins one, and saves it
\* (transport.js:215-233).
LEMMA SendKeeps ==
  ASSUME NullIsNoSession, PeerInv, NEW h \in Member, NEW p \in Member \ {h}, Send(h, p)
  PROVE  PeerInv'
<1> DEFINE x == Initiate(h, p)
           new == sessions[h][p] = Null
           st == IF new THEN x.state ELSE sessions[h][p]
           e == Encrypt(st)
           letter == [from |-> h, to |-> p, nr |-> encrypted[h],
                      prekey |-> IF new THEN x.prekey ELSE Null, msg |-> e.msg]
<1>1. /\ new => <<h, p>> \in Starts
      /\ sessions' = [sessions EXCEPT ![h][p] = e.st]
      /\ saved' = [saved EXCEPT ![h][p] = e.st]
      /\ sending' = [sending EXCEPT ![h] = letter]
      /\ UNCHANGED <<outbox, mail>>
  BY DEF Send, Persisted
<1>2. PICK v : /\ v.from = h /\ v.to = p /\ v.prekey = (IF new THEN x.prekey ELSE Null)
               /\ sending' = [sending EXCEPT ![h] = v]
  <2>1. /\ letter.from = h /\ letter.to = p
        /\ letter.prekey = IF new THEN x.prekey ELSE Null
    OBVIOUS
  <2> HIDE DEF letter, x
  <2> QED
    BY <1>1, <2>1
<1>3. new => IsSession(x.state) /\ Origin(x.state) = Secret(x.prekey, p)[1]
  <2>1. x.state = InitSender(Secret(x.prekey, p), <<h, pairs[h] + 2>>, Spk(p))
    BY DEF Initiate
  <2> HIDE DEF x
  <2> QED
    BY <2>1, SecretIsRoot, SenderIsSession
<1> HIDE DEF letter, x
<1>4. IsSession(st)
  BY <1>3 DEF PeerInv, SavedIsOpen
<1> HIDE DEF st
<1>5. Continues(st, e.st)
  BY <1>4, EncryptContinues
<1> HIDE DEF e
<1>6. sessions[h][p] # Null => Origin(e.st) = Origin(sessions[h][p])
  BY <1>5 DEF Continues, st
<1>7. Advances(h, p, e.st)
  BY <1>1, <1>5, <1>6 DEF Advances, Continues
<1>8. /\ Tables' /\ SavedIsOpen' /\ SavedGrows /\ e.st # Null
      /\ Replaced(sessions, h, p, e.st, sessions')
  BY <1>7, AdvancesKeeps DEF PeerInv
<1>9. saved'[h][p] = e.st
  <2>1. saved' = Put(saved, h, p, e.st) /\ IsTable(saved)
    BY <1>1 DEF Put, PeerInv, Tables
  <2> QED
    BY <2>1, Entry DEF Replaced
<1>10. Descends'
  BY <1>1, <1>6, <1>8, <1>9, DescendsKeeps DEF PeerInv
<1>11. Sealed(v)'
  <2>1. new => Secret(x.prekey, p)[1] = Origin(e.st)
    BY <1>3, <1>5 DEF Continues, st
  <2>2. CASE new
    <3>1. v.prekey = x.prekey
      BY <1>2, <2>2
    <3> QED
      BY <1>1, <1>2, <1>8, <1>9, <2>1, <2>2, <3>1 DEF Sealed
  <2>3. CASE ~new
    BY <1>2, <2>3 DEF Sealed
  <2> QED
    BY <2>2, <2>3
<1>12. Letters'
  BY <1>1, <1>2, <1>8, <1>11, SealedKeeps DEF PeerInv, Letters
<1> QED
  BY <1>1, <1>8, <1>10, <1>12 DEF PeerInv, Queues

\* _onEnvelope goes on with the session there is or begins the one of the prekey
\* message, and saves it if the message opened (transport.js:320-328).
LEMMA OpenKeeps ==
  ASSUME NullIsNoSession, PeerInv, NEW h \in Member, Open(h)
  PROVE  PeerInv'
<1>1. PICK b : b = Head(mail[h])
  OBVIOUS
<1> DEFINE p == b.from
           old == SessionFor(h, b)
           d == Decrypt(old, b.msg, <<h, pairs[h] + 1>>)
<1>2. /\ Usable(h, b) /\ mail[h] # <<>> /\ mail' = [mail EXCEPT ![h] = Tail(@)]
      /\ sessions' = [sessions EXCEPT ![h][b.from] = d.st] /\ saved' = SavedAfter(h, b, d)
      /\ UNCHANGED <<sending, outbox>>
  BY <1>1 DEF Open
<1>3. /\ Queues' /\ b \in ToSet(mail[h])
      /\ \A g \in Member : ToSet(mail'[g]) \subseteq ToSet(mail[g])
  BY <1>1, <1>2, Dequeueing DEF PeerInv
<1>4. Sealed(b) /\ b.to = h /\ p \in Member
  <2>1. Sealed(b) /\ b.to = h
    BY <1>3 DEF PeerInv, Letters
  <2> QED
    BY <2>1 DEF Sealed
<1>5. /\ IsSession(old)
      /\ IF sessions[h][p] # Null
           THEN Origin(old) = Origin(sessions[h][p])
           ELSE /\ <<p, h>> \in Starts /\ saved[p][h] # Null
                /\ Origin(old) = Origin(saved[p][h])
  <2>1. CASE sessions[h][p] # Null
    BY <1>4, <2>1 DEF SessionFor, PeerInv, SavedIsOpen
  <2>2. CASE sessions[h][p] = Null
    <3>1. old = InitReceiver(Secret(b.prekey, h), Spk(h))
      BY <2>2 DEF SessionFor
    <3>2. IsSession(old) /\ Origin(old) = Secret(b.prekey, h)[1]
      BY <3>1, SecretIsRoot, ReceiverIsSession
    <3>3. b.prekey # Null
      BY <1>2, <2>2 DEF Usable
    <3> QED
      BY <1>4, <2>2, <3>2, <3>3 DEF Sealed
  <2> QED
    BY <2>1, <2>2
<1> HIDE DEF old
<1>6. Continues(old, d.st)
  BY <1>5, DecryptContinues
<1>7. saved' = saved \/ saved' = [saved EXCEPT ![h][p] = d.st]
  BY <1>2 DEF SavedAfter, Persisted
<1> HIDE DEF d
<1>8. Advances(h, p, d.st)
  BY <1>2, <1>5, <1>6, <1>7 DEF Advances, Continues
<1> HIDE DEF p
<1>9. /\ Tables' /\ SavedIsOpen' /\ SavedGrows
      /\ Replaced(sessions, h, p, d.st, sessions')
  BY <1>4, <1>8, AdvancesKeeps DEF PeerInv
<1>10. Descends'
  <2>1. IF sessions[h][p] # Null
          THEN Origin(d.st) = Origin(sessions[h][p])
          ELSE /\ <<p, h>> \in Starts /\ saved[p][h] # Null
               /\ Origin(d.st) = Origin(saved[p][h])
    BY <1>5, <1>6 DEF Continues
  <2> QED
    BY <1>4, <1>9, <2>1, DescendsKeeps DEF PeerInv
<1>11. Letters'
  BY <1>2, <1>3, <1>9, SealedKeeps DEF PeerInv, Letters
<1> QED
  BY <1>3, <1>9, <1>10, <1>11 DEF PeerInv

\* A restart goes back to what was saved, which has the same origin.
LEMMA RestartKeepsPeers ==
  ASSUME PeerInv, NEW h \in Member, Restart(h)
  PROVE  PeerInv'
<1>1. /\ sessions' = [sessions EXCEPT ![h] = saved[h]] /\ saved' = saved
      /\ sending' = [sending EXCEPT ![h] = Null] /\ UNCHANGED <<outbox, mail>>
  BY DEF Restart
<1>2. \A g, q \in Member : sessions'[g][q] = IF g = h THEN saved[g][q] ELSE sessions[g][q]
  BY <1>1 DEF PeerInv, Tables, IsTable
<1>3. Tables'
  BY <1>1 DEF PeerInv, Tables, IsTable
<1>4. SavedIsOpen'
  <2> SUFFICES ASSUME NEW g \in Member, NEW q \in Member
               PROVE  /\ sessions'[g][q] # Null => IsSession(sessions'[g][q])
                      /\ saved'[g][q] # Null =>
                           /\ IsSession(saved'[g][q]) /\ sessions'[g][q] # Null
                           /\ Origin(saved'[g][q]) = Origin(sessions'[g][q])
    BY DEF SavedIsOpen, Origin, IsSession
  <2> QED
    BY <1>1, <1>2 DEF PeerInv, SavedIsOpen
<1>5. Descends'
  <2> SUFFICES ASSUME NEW g \in Member, NEW q \in Member, sessions'[g][q] # Null
               PROVE  \/ <<g, q>> \in Starts /\ saved'[g][q] # Null
                      \/ /\ <<q, g>> \in Starts /\ saved'[q][g] # Null
                         /\ Origin(sessions'[g][q]) = Origin(saved'[q][g])
    BY DEF Descends, Origin
  <2>1. sessions[g][q] # Null /\ Origin(sessions'[g][q]) = Origin(sessions[g][q])
    BY <1>2 DEF PeerInv, SavedIsOpen
  <2> QED
    BY <1>1, <2>1 DEF PeerInv, Descends
<1>6. Letters'
  <2>1. SavedGrows
    BY <1>1 DEF SavedGrows
  <2>2. sending' = [g \in Member |-> sending'[g]]
        /\ \A g \in Member : sending'[g] = sending[g] \/ sending'[g] = Null
    BY <1>1 DEF PeerInv, Letters
  <2> QED
    BY <1>1, <2>1, <2>2, SealedKeeps DEF PeerInv, Letters
<1> QED
  BY <1>1, <1>3, <1>4, <1>5, <1>6 DEF PeerInv, Queues

\* The three kinds of step together: sessions advance, envelopes move, apps restart.
LEMMA PeerInvariant ==
  ASSUME NullIsNoSession PROVE Spec => []PeerInv
<1>1. PeerInv /\ [Next]_vars => PeerInv'
  <2> SUFFICES ASSUME PeerInv, [Next]_vars PROVE PeerInv'
    OBVIOUS
  <2>1. CASE UNCHANGED vars
    <3>1. Moves
      BY <2>1 DEF vars, Moves, PeerInv, Letters, Queues
    <3> QED
      BY <3>1, MovesKeeps
  <2>2. CASE Next
    <3> PICK h \in Member : \/ \E p \in Member \ {h} : Send(h, p)
                            \/ Posted(h) \/ Held(h) \/ \E b \in outbox[h] : Flush(h, b)
                            \/ DropUnusable(h) \/ Open(h) \/ Restart(h)
      BY <2>2 DEF Next
    <3>1. CASE \E p \in Member \ {h} : Send(h, p)
      BY <3>1, SendKeeps
    <3>2. CASE Posted(h) \/ Held(h) \/ DropUnusable(h)
      BY <3>2, PostedMoves, HeldMoves, DropMoves, MovesKeeps
    <3>3. CASE \E b \in outbox[h] : Flush(h, b)
      BY <3>3, FlushMoves, MovesKeeps
    <3>4. CASE Open(h)
      BY <3>4, OpenKeeps
    <3>5. CASE Restart(h)
      BY <3>5, RestartKeepsPeers
    <3> QED
      BY <3>1, <3>2, <3>3, <3>4, <3>5
  <2> QED
    BY <2>1, <2>2
<1> QED
  BY PeersBegin, <1>1, PTL DEF Spec

(* A session that was saved is in memory, a prekey in memory is one of the *)
(* published, and an envelope is where its addresses say (transport.js:    *)
(* 215-261, 310-332).                                                      *)
THEOREM TypeCorrect ==
  ASSUME NullIsNoSession PROVE Spec => []TypeOK
<1>1. OpkInv /\ PeerInv => TypeOK
  <2> SUFFICES ASSUME OpkInv, PeerInv PROVE TypeOK
    OBVIOUS
  <2>1. \A h, p \in Member :
          saved[h][p] # Null => sessions[h][p] # Null /\ saved[h][p].rk # <<>>
    BY DEF PeerInv, SavedIsOpen, IsSession, IsRoot
  <2>2. \A h \in Member :
          /\ opks[h] \subseteq 1 .. Prekeys
          /\ sending[h] # Null => sending[h].from = h
          /\ \A b \in outbox[h] : b.from = h
          /\ \A b \in ToSet(mail[h]) : b.to = h
    BY DEF PeerInv, Letters, OpkInv, OpkTypes
  <2> QED
    BY <2>1, <2>2 DEF TypeOK, OpkInv, OpkTypes
<1> QED
  BY OpkInvariant, PeerInvariant, <1>1, PTL

(* Two members of whom one writes to the other first share one session, as *)
(* long as both have one, whatever is restarted, lost or reordered         *)
(* (x3dh.js:50-108, transport.js:219-229, 320-325).                        *)
THEOREM PeersShareSessions ==
  ASSUME NullIsNoSession, OneDirection PROVE Spec => []PeersAgree
<1>1. PeerInv => PeersAgree
  <2> SUFFICES ASSUME PeerInv, NEW h \in Member, NEW p \in Member,
                      sessions[h][p] # Null, sessions[p][h] # Null
               PROVE  Origin(sessions[h][p]) = Origin(sessions[p][h])
    BY DEF PeersAgree
  <2>1. \A g, q \in Member : <<g, q>> \in Starts => <<q, g>> \notin Starts
    BY DEF OneDirection
  <2>2. CASE <<h, p>> \in Starts
    <3>1. saved[h][p] # Null /\ Origin(sessions[p][h]) = Origin(saved[h][p])
      BY <2>1, <2>2 DEF PeerInv, Descends
    <3> QED
      BY <3>1 DEF PeerInv, SavedIsOpen
  <2>3. CASE <<h, p>> \notin Starts
    <3>1. saved[p][h] # Null /\ Origin(sessions[h][p]) = Origin(saved[p][h])
      BY <2>3 DEF PeerInv, Descends
    <3> QED
      BY <3>1 DEF PeerInv, SavedIsOpen
  <2> QED
    BY <2>2, <2>3
<1> QED
  BY PeerInvariant, <1>1, PTL

-----------------------------------------------------------------------------
\* A conversation has begun when the session of the one who writes first is there.
\* The tables, letters and counters are arguments from here on: what a step does to
\* a conversation does not depend on where the envelopes are.
Wrote(t, a, b) == <<a, b>> \in Starts /\ t[a][b] # Null

\* The ends of the conversations that have begun.
Engaged(t) ==
  {e \in End :
     /\ e.base = 1
     /\ e.side = 0 => Wrote(t, e.me, e.peer) /\ e.first = Spk(e.peer)
     /\ e.side = 1 => Wrote(t, e.peer, e.me) /\ e.first = Spk(e.me)}

\* The session at an end; before the first message opened, the one it will make.
At(t, e) ==
  IF t[e.me][e.peer] # Null
    THEN t[e.me][e.peer] ELSE InitReceiver(<<Origin(t[e.peer][e.me])>>, e.first)

\* What an end has said in the letters L.
Said(L, e) == {l.msg : l \in {x \in L : x.from = e.me /\ x.to = e.peer}}

\* Each end can open what the other has said in L, and it has not opened, in G.
EndTogether(t, L, G, pr, en, e) ==
  /\ Own(e, At(t, e), Said(L, e), pr[e.me], en[e.me])
  /\ Heard(e, At(t, e), At(t, Other(e)), Said(L, Other(e)), Said(G, Other(e)))

Together(t, L, G, pr, en) == \A e \in Engaged(t) : EndTogether(t, L, G, pr, en, e)

\* What an X3DH secret tells of the two it was made for.
IsOrigin(a, b, s) ==
  /\ s \subseteq Pair /\ Spk(b) \in s /\ \E pair \in s : pair[1] = a
  /\ \A pair \in s : pair[1] = b \/ (pair[1] = a /\ pair[2] > 0)

Counters ==
  /\ pairs \in [Member -> Nat] /\ encrypted \in [Member -> Nat]
  /\ \A h \in Member : pairs[h] >= Prekeys /\ encrypted[h] <= MaxSend

Origins ==
  \A a, b \in Member : Wrote(sessions, a, b) => IsOrigin(a, b, Origin(sessions[a][b]))

\* The envelopes that are on their way, and those and the opened ones.
InHand(snd) == {snd[h] : h \in {g \in Member : snd[g] # Null}}

InBoxes(boxes) == UNION {boxes[h] : h \in Member}

OnTheirWay(snd, out, queues) ==
  InHand(snd) \cup InBoxes(out) \cup InBoxes([h \in Member |-> ToSet(queues[h])])

Written == OnTheirWay(sending, outbox, mail) \cup opened

\* An envelope belongs to a conversation, and one that opened left a session.
Belongs(t, l) ==
  /\ l.from \in Member /\ l.to \in Member /\ l.from # l.to
  /\ Wrote(t, l.from, l.to) \/ Wrote(t, l.to, l.from)
  /\ l.prekey # Null => /\ Wrote(t, l.from, l.to)
                        /\ Secret(l.prekey, l.to) = <<Origin(t[l.from][l.to])>>

Addressed ==
  /\ \A l \in Written : Belongs(sessions, l) /\ l.nr \in Nat /\ l.nr < encrypted[l.from]
  /\ \A l \in opened : sessions[l.to][l.from] # Null

\* An envelope is in one place, once.
OnePlace ==
  \A h \in Member :
    /\ sending[h] # Null =>
         /\ sending[h] \notin opened
         /\ \A g \in Member : sending[h] \notin outbox[g] /\ sending[h] \notin ToSet(mail[g])
    /\ \A l \in outbox[h] : l \notin opened /\ \A g \in Member : l \notin ToSet(mail[g])
    /\ \A l \in ToSet(mail[h]) : l \notin opened
    /\ \A i, j \in 1 .. Len(mail[h]) : mail[h][i] = mail[h][j] => i = j

\* No two envelopes carry the same message.
Distinct(L) == \A l, m \in L : l.from = m.from /\ l.to = m.to /\ l.msg = m.msg => l = m

TalkInv ==
  /\ PeerInv /\ sessions = saved
  /\ Counters /\ Origins /\ Addressed /\ OnePlace /\ Distinct(Written)
  /\ Together(sessions, Written, opened, pairs, encrypted)

-----------------------------------------------------------------------------
\* The two ends of a conversation.
LEMMA BothEngaged ==
  ASSUME NEW t, NEW e \in Engaged(t)
  PROVE  /\ e \in End /\ Other(e) \in Engaged(t) /\ Other(Other(e)) = e
         /\ Other(e).me = e.peer /\ Other(e).peer = e.me /\ Other(e).side = 1 - e.side
         /\ e.me \in Member /\ e.peer \in Member /\ e.me # e.peer
         /\ e.base = 1 /\ e.first \in Pair /\ e.first[2] = 0
         /\ \/ e.side = 0 /\ Wrote(t, e.me, e.peer) /\ e.first = Spk(e.peer)
            \/ e.side = 1 /\ Wrote(t, e.peer, e.me) /\ e.first = Spk(e.me)
<1>1. e \in End /\ e.base = 1
  BY DEF Engaged
<1>2. /\ Other(e) \in End /\ Other(Other(e)) = e
      /\ Other(e).me = e.peer /\ Other(e).peer = e.me /\ Other(e).side = 1 - e.side
      /\ Other(e).first = e.first /\ Other(e).base = e.base
      /\ e.me \in Member /\ e.peer \in Member /\ e.me # e.peer
      /\ e.side \in {0, 1} /\ e.first \in Pair
  BY <1>1, Ends
<1>3. \/ e.side = 0 /\ Wrote(t, e.me, e.peer) /\ e.first = Spk(e.peer)
      \/ e.side = 1 /\ Wrote(t, e.peer, e.me) /\ e.first = Spk(e.me)
  BY <1>2 DEF Engaged
<1>4. e.first[2] = 0
  BY <1>3 DEF Spk
<1>5. (e.side = 0 => 1 - e.side = 1) /\ (e.side = 1 => 1 - e.side = 0)
  OBVIOUS
<1>6. Other(e) \in Engaged(t)
  <2>1. Other(e).side = 0 => Wrote(t, Other(e).me, Other(e).peer) /\ Other(e).first = Spk(Other(e).peer)
    BY <1>2, <1>3, <1>5
  <2>2. Other(e).side = 1 => Wrote(t, Other(e).peer, Other(e).me) /\ Other(e).first = Spk(Other(e).me)
    BY <1>2, <1>3, <1>5
  <2> QED
    BY <1>1, <1>2, <2>1, <2>2 DEF Engaged
<1> QED
  BY <1>1, <1>2, <1>3, <1>4, <1>6

\* A member has one end of a conversation with a peer.
LEMMA OneEnd ==
  ASSUME OneDirection, NEW t, NEW e \in Engaged(t), NEW f \in Engaged(t),
         f.me = e.me, f.peer = e.peer
  PROVE  f = e
<1>1. /\ e \in End /\ e.base = 1 /\ f \in End /\ f.base = 1
      /\ \/ e.side = 0 /\ Wrote(t, e.me, e.peer) /\ e.first = Spk(e.peer)
         \/ e.side = 1 /\ Wrote(t, e.peer, e.me) /\ e.first = Spk(e.me)
      /\ \/ f.side = 0 /\ Wrote(t, f.me, f.peer) /\ f.first = Spk(f.peer)
         \/ f.side = 1 /\ Wrote(t, f.peer, f.me) /\ f.first = Spk(f.me)
  BY BothEngaged
<1>2. ~(Wrote(t, e.me, e.peer) /\ Wrote(t, e.peer, e.me))
  <2>1. SUFFICES ASSUME <<e.me, e.peer>> \in Starts, <<e.peer, e.me>> \in Starts PROVE FALSE
    BY DEF Wrote
  <2> QED
    BY <2>1 DEF OneDirection
<1>3. e.side = f.side /\ e.first = f.first
  BY <1>1, <1>2
<1>4. /\ e = [me |-> e.me, peer |-> e.peer, side |-> e.side, first |-> e.first, base |-> e.base]
      /\ f = [me |-> f.me, peer |-> f.peer, side |-> f.side, first |-> f.first, base |-> f.base]
  BY <1>1 DEF End
<1> QED
  BY <1>1, <1>3, <1>4

\* A session that goes on at one end leaves the ends what they are.
LEMMA ReplacingAt ==
  ASSUME OneDirection, NEW t, NEW e \in Engaged(t), NEW st, st # Null,
         t[e.me][e.peer] # Null => Origin(st) = Origin(t[e.me][e.peer]),
         NEW t2, Replaced(t, e.me, e.peer, st, t2)
  PROVE  /\ Engaged(t2) = Engaged(t)
         /\ At(t2, e) = st /\ At(t2, Other(e)) = At(t, Other(e))
         /\ \A f \in Engaged(t) : f # e /\ f # Other(e) => At(t2, f) = At(t, f)
<1>1. /\ e \in End /\ Other(e) \in Engaged(t) /\ Other(e).me = e.peer /\ Other(e).peer = e.me
      /\ e.me \in Member /\ e.peer \in Member /\ e.me # e.peer
      /\ Other(e).first = e.first
      /\ \/ e.side = 0 /\ Wrote(t, e.me, e.peer)
         \/ e.side = 1 /\ Wrote(t, e.peer, e.me)
  BY BothEngaged, Ends
<1>2. /\ t2[e.me][e.peer] = st
      /\ \A g, q \in Member : ~(g = e.me /\ q = e.peer) => t2[g][q] = t[g][q]
  BY DEF Replaced
<1>3. ASSUME NEW a \in Member, NEW b \in Member PROVE Wrote(t2, a, b) = Wrote(t, a, b)
  <2>1. CASE ~(a = e.me /\ b = e.peer)
    BY <1>2, <2>1 DEF Wrote
  <2>2. CASE a = e.me /\ b = e.peer
    <3>1. <<e.me, e.peer>> \in Starts => t[e.me][e.peer] # Null
      <4>1. CASE Wrote(t, e.me, e.peer)
        BY <4>1 DEF Wrote
      <4>2. CASE Wrote(t, e.peer, e.me)
        <5>1. <<e.peer, e.me>> \in Starts
          BY <4>2 DEF Wrote
        <5>2. <<e.me, e.peer>> \notin Starts
          BY <5>1 DEF OneDirection
        <5> QED
          BY <5>2
      <4> QED
        BY <1>1, <4>1, <4>2
    <3> QED
      BY <1>2, <2>2, <3>1 DEF Wrote
  <2> QED
    BY <2>1, <2>2
<1>4. Engaged(t2) = Engaged(t)
  <2>1. \A f \in End : f.me \in Member /\ f.peer \in Member
    BY Ends
  <2> QED
    BY <1>3, <2>1 DEF Engaged
<1>5. At(t2, e) = st
  BY <1>2 DEF At
<1>6. At(t2, Other(e)) = At(t, Other(e))
  <2>1. t2[e.peer][e.me] = t[e.peer][e.me]
    BY <1>1, <1>2
  <2>2. CASE t[e.peer][e.me] # Null
    BY <1>1, <2>1, <2>2 DEF At
  <2>3. CASE t[e.peer][e.me] = Null
    <3>1. t[e.me][e.peer] # Null
      BY <1>1, <2>3 DEF Wrote
    <3> QED
      BY <1>1, <1>2, <2>1, <2>3, <3>1 DEF At
  <2> QED
    BY <2>2, <2>3
<1>7. ASSUME NEW f \in Engaged(t), f # e, f # Other(e) PROVE At(t2, f) = At(t, f)
  <2>1. /\ f.me \in Member /\ f.peer \in Member /\ Other(f) \in Engaged(t) /\ Other(Other(f)) = f
        /\ Other(f).me = f.peer /\ Other(f).peer = f.me
    BY BothEngaged
  <2>2. ~(f.me = e.me /\ f.peer = e.peer)
    BY <1>7, OneEnd
  <2>3. ~(f.peer = e.me /\ f.me = e.peer)
    <3>1. SUFFICES ASSUME f.peer = e.me, f.me = e.peer PROVE FALSE
      OBVIOUS
    <3>2. Other(f) = e
      BY <2>1, <3>1, OneEnd
    <3> QED
      BY <1>7, <2>1, <3>2
  <2>4. t2[f.me][f.peer] = t[f.me][f.peer] /\ t2[f.peer][f.me] = t[f.peer][f.me]
    BY <1>2, <2>1, <2>2, <2>3
  <2> QED
    BY <2>4 DEF At
<1> QED
  BY <1>4, <1>5, <1>6, <1>7

\* One more letter is one more message of its end.
LEMMA SaidMore ==
  ASSUME NEW L, NEW l, NEW e
  PROVE  /\ l.from = e.me /\ l.to = e.peer => Said(L \cup {l}, e) = Said(L, e) \cup {l.msg}
         /\ ~(l.from = e.me /\ l.to = e.peer) => Said(L \cup {l}, e) = Said(L, e)
BY DEF Said

LEMMA SaidLess ==
  ASSUME NEW L, NEW less \in SUBSET L, NEW e
  PROVE  Said(less, e) \subseteq Said(L, e)
BY DEF Said

\* Letters that are lost unopened leave the two ends together.
LEMMA TogetherLess ==
  ASSUME NEW t, NEW L, NEW G, NEW pr \in [Member -> Nat], NEW en \in [Member -> Nat],
         Together(t, L, G, pr, en), NEW less \in SUBSET L, G \subseteq less
  PROVE  Together(t, less, G, pr, en)
<1> SUFFICES ASSUME NEW e \in Engaged(t)
             PROVE  /\ Own(e, At(t, e), Said(less, e), pr[e.me], en[e.me])
                    /\ Heard(e, At(t, e), At(t, Other(e)), Said(less, Other(e)), Said(G, Other(e)))
  BY DEF Together, EndTogether
<1>1. e \in End /\ pr[e.me] \in Nat /\ en[e.me] \in Nat
  BY BothEngaged
<1>2. /\ Own(e, At(t, e), Said(L, e), pr[e.me], en[e.me])
      /\ Heard(e, At(t, e), At(t, Other(e)), Said(L, Other(e)), Said(G, Other(e)))
  BY DEF Together, EndTogether
<1>3. /\ Said(less, e) \in SUBSET Said(L, e) /\ Said(less, Other(e)) \in SUBSET Said(L, Other(e))
      /\ Said(G, Other(e)) \subseteq Said(less, Other(e))
  BY SaidLess
<1>4. pr[e.me] <= pr[e.me] /\ en[e.me] <= en[e.me]
  BY <1>1
<1>5. Own(e, At(t, e), Said(less, e), pr[e.me], en[e.me])
  BY <1>1, <1>2, <1>3, <1>4, OwnLater
<1> QED
  BY <1>2, <1>3, <1>5, HeardLess

\* The end e and its other apart, nothing has happened but that time went on.
Later(pr, pr2) == \A h \in Member : pr[h] <= pr2[h]

SameElsewhere(t, L, G, t2, L2, G2, e) ==
  \A g \in Engaged(t2) : g # e /\ g # Other(e) =>
    /\ g \in Engaged(t) /\ At(t2, g) = At(t, g)
    /\ Said(L2, g) = Said(L, g) /\ Said(G2, g) = Said(G, g)

\* What happens in one conversation leaves the others together.
LEMMA OneConversation ==
  ASSUME NEW t, NEW L, NEW G, NEW pr \in [Member -> Nat], NEW en \in [Member -> Nat],
         Together(t, L, G, pr, en),
         NEW t2, NEW L2, NEW G2, NEW pr2 \in [Member -> Nat], NEW en2 \in [Member -> Nat],
         Later(pr, pr2), Later(en, en2),
         NEW e \in Engaged(t2), SameElsewhere(t, L, G, t2, L2, G2, e),
         EndTogether(t2, L2, G2, pr2, en2, e), EndTogether(t2, L2, G2, pr2, en2, Other(e))
  PROVE  Together(t2, L2, G2, pr2, en2)
<1> SUFFICES ASSUME NEW f \in Engaged(t2), f # e, f # Other(e)
             PROVE  EndTogether(t2, L2, G2, pr2, en2, f)
  BY DEF Together
<1>1. /\ f \in End /\ f.me \in Member /\ Other(f) \in Engaged(t2) /\ Other(Other(f)) = f
      /\ Other(Other(e)) = e
  BY BothEngaged
<1>2. Other(f) # e /\ Other(f) # Other(e)
  BY <1>1
<1>3. /\ f \in Engaged(t)
      /\ At(t2, f) = At(t, f) /\ At(t2, Other(f)) = At(t, Other(f))
      /\ Said(L2, f) = Said(L, f) /\ Said(L2, Other(f)) = Said(L, Other(f))
      /\ Said(G2, Other(f)) = Said(G, Other(f))
  BY <1>1, <1>2 DEF SameElsewhere
<1>4. /\ Own(f, At(t, f), Said(L, f), pr[f.me], en[f.me])
      /\ Heard(f, At(t, f), At(t, Other(f)), Said(L, Other(f)), Said(G, Other(f)))
  BY <1>3 DEF Together, EndTogether
<1>5. /\ pr[f.me] \in Nat /\ pr2[f.me] \in Nat /\ en[f.me] \in Nat /\ en2[f.me] \in Nat
      /\ pr[f.me] <= pr2[f.me] /\ en[f.me] <= en2[f.me]
  BY <1>1 DEF Later
<1>6. Own(f, At(t, f), Said(L, f), pr2[f.me], en2[f.me])
  BY <1>1, <1>4, <1>5, OwnLater
<1> QED
  BY <1>3, <1>4, <1>6 DEF EndTogether

\* A session is not the absent value.
LEMMA SoundIsSession ==
  ASSUME NullIsNoSession, NEW e, NEW st, Sound(e, st)
  PROVE  st # Null
BY DEF NullIsNoSession, Sound, IsState

\* The two ends of a conversation, spelled out.
LEMMA BothTogether ==
  ASSUME NEW t, NEW L, NEW G, NEW pr, NEW en, Together(t, L, G, pr, en), NEW e \in Engaged(t)
  PROVE  /\ Own(e, At(t, e), Said(L, e), pr[e.me], en[e.me])
         /\ Own(Other(e), At(t, Other(e)), Said(L, Other(e)), pr[e.peer], en[e.peer])
         /\ Heard(e, At(t, e), At(t, Other(e)), Said(L, Other(e)), Said(G, Other(e)))
         /\ Heard(Other(e), At(t, Other(e)), At(t, e), Said(L, e), Said(G, e))
<1>1. /\ Other(e) \in Engaged(t) /\ Other(Other(e)) = e /\ Other(e).me = e.peer
  BY BothEngaged
<1>2. EndTogether(t, L, G, pr, en, e) /\ EndTogether(t, L, G, pr, en, Other(e))
  BY <1>1 DEF Together
<1> QED
  BY <1>1, <1>2 DEF EndTogether

\* One letter more, of the end e: what the others said is what it was.
LEMMA OneLetter ==
  ASSUME OneDirection, NEW t, NEW e \in Engaged(t), NEW l, l.from = e.me, l.to = e.peer, NEW L
  PROVE  /\ Adds(Said(L, e), l.msg, Said(L \cup {l}, e))
         /\ \A f \in Engaged(t) : f # e => Said(L \cup {l}, f) = Said(L, f)
<1>1. Adds(Said(L, e), l.msg, Said(L \cup {l}, e))
  BY SaidMore DEF Adds
<1>2. ASSUME NEW f \in Engaged(t), f # e PROVE Said(L \cup {l}, f) = Said(L, f)
  <2>1. ~(l.from = f.me /\ l.to = f.peer)
    BY <1>2, OneEnd
  <2> QED
    BY <2>1, SaidMore
<1> QED
  BY <1>1, <1>2

\* What send and encrypt have in hand: the session st of the end e, what encrypt makes
\* of it, the letter, and the count.
Writes(t, e, st, r, l, en, t2, en2) ==
  /\ st = t[e.me][e.peer] /\ st # Null /\ st.cks # Null /\ r = Encrypt(st)
  /\ l.from = e.me /\ l.to = e.peer /\ l.msg = r.msg
  /\ Replaced(t, e.me, e.peer, r.st, t2)
  /\ Later(en, en2) /\ en2[e.me] = en[e.me] + 1

\* send, on a session there is: the two ends stay together, and no message of the
\* end is like the one it makes.
LEMMA SendingTogether ==
  ASSUME NullIsNoSession, OneDirection,
         NEW t, NEW L, NEW G, NEW pr \in [Member -> Nat], NEW en \in [Member -> Nat],
         Together(t, L, G, pr, en), NEW e \in Engaged(t), NEW en2 \in [Member -> Nat],
         NEW st, NEW r, NEW l, NEW t2, Writes(t, e, st, r, l, en, t2, en2)
  PROVE  /\ Together(t2, L \cup {l}, G, pr, en2)
         /\ r.st # Null /\ Origin(r.st) = Origin(st)
         /\ Engaged(t2) = Engaged(t) /\ r.msg \notin Said(L, e)
<1>0. /\ st = t[e.me][e.peer] /\ st # Null /\ st.cks # Null /\ r = Encrypt(st)
      /\ l.from = e.me /\ l.to = e.peer /\ l.msg = r.msg
      /\ Later(en, en2) /\ en2[e.me] = en[e.me] + 1
  BY DEF Writes
<1>r. Replaced(t, e.me, e.peer, r.st, t2)
  BY DEF Writes
<1>1. /\ e \in End /\ Other(e) \in End /\ Other(e) \in Engaged(t) /\ Other(Other(e)) = e
      /\ e.me \in Member /\ e.peer \in Member /\ e.me # e.peer /\ Other(e) # e
      /\ Other(e).me = e.peer /\ Other(e).peer = e.me
  BY BothEngaged
<1>2. PICK o : o = Other(e)
  OBVIOUS
<1>3. PICK other : other = At(t, o)
  OBVIOUS
<1>4. PICK out : out = Said(L, e)
  OBVIOUS
<1>5. PICK in : in = Said(L, o)
  OBVIOUS
<1>6. PICK got : got = Said(G, o)
  OBVIOUS
<1>7. PICK told : told = Said(G, e)
  OBVIOUS
<1>8. PICK more : more = Said(L \cup {l}, e)
  OBVIOUS
<1>9. PICK k \in Nat : k = pr[e.me]
  BY <1>1
<1>10. PICK c \in Nat : c = en[e.me]
  BY <1>1
<1>11. PICK k2 \in Nat : k2 = pr[e.peer]
  BY <1>1
<1>12. PICK c2 \in Nat : c2 = en[e.peer]
  BY <1>1
<1>13. At(t, e) = st
  BY <1>0 DEF At
<1>14. /\ Own(e, st, out, k, c) /\ Own(o, other, in, k2, c2)
       /\ Heard(e, st, other, in, got) /\ Heard(o, other, st, out, told)
  <2>1. /\ Own(e, At(t, e), Said(L, e), pr[e.me], en[e.me])
        /\ Own(Other(e), At(t, Other(e)), Said(L, Other(e)), pr[e.peer], en[e.peer])
        /\ Heard(e, At(t, e), At(t, Other(e)), Said(L, Other(e)), Said(G, Other(e)))
        /\ Heard(Other(e), At(t, Other(e)), At(t, e), Said(L, e), Said(G, e))
    BY BothTogether
  <2> QED
    BY <1>2, <1>3, <1>4, <1>5, <1>6, <1>7, <1>9, <1>10, <1>11, <1>12, <1>13, <2>1
<1>15. /\ Adds(out, r.msg, more)
       /\ \A f \in Engaged(t) : f # e => Said(L \cup {l}, f) = Said(L, f)
  BY <1>0, <1>4, <1>8, OneLetter
<1>16. /\ Own(e, r.st, more, k, c + 1) /\ Heard(e, r.st, other, in, got)
       /\ Heard(o, other, r.st, more, told)
       /\ Sound(e, r.st) /\ r.st.rk = st.rk /\ r.msg \notin out
  <2>1. e \in End /\ Other(e) = o
    BY <1>1, <1>2
  <2>2. /\ Own(e, st, out, k, c) /\ Own(Other(e), other, in, k2, c2)
        /\ Heard(e, st, other, in, got) /\ Heard(Other(e), other, st, out, told)
    BY <1>14, <2>1
  <2>3. Adds(out, r.msg, more)
    BY <1>15
  <2>4. /\ Own(e, r.st, more, k, c + 1) /\ Heard(e, r.st, other, in, got)
        /\ Heard(Other(e), other, r.st, more, told)
        /\ Sound(e, r.st) /\ r.st.rk = st.rk /\ r.msg \notin out
    <3>1. Facing(e, st, other, out, in, told, got, k, c, k2, c2)
      BY <2>2 DEF Facing
    <3>2. Encrypts(st, r, out, more)
      BY <1>0, <2>3 DEF Encrypts
    <3>3. /\ Facing(e, r.st, other, more, in, told, got, k, c + 1, k2, c2)
          /\ Sound(e, r.st) /\ r.st.rk = st.rk /\ r.msg \notin out
      BY <2>1, <3>1, <3>2, EncryptingBoth
    <3> QED
      BY <3>3 DEF Facing
  <2> QED
    BY <2>1, <2>4
<1>17. r.st # Null /\ Origin(r.st) = Origin(st)
  BY <1>0, <1>16, SoundIsSession DEF Origin
<1>18. /\ Engaged(t2) = Engaged(t) /\ At(t2, e) = r.st /\ At(t2, o) = other
       /\ \A f \in Engaged(t) : f # e /\ f # o => At(t2, f) = At(t, f)
  <2>1. t[e.me][e.peer] # Null => Origin(r.st) = Origin(t[e.me][e.peer])
    BY <1>0, <1>17
  <2> QED
    BY <1>r, <1>2, <1>3, <1>17, <2>1, ReplacingAt
<1>19. Said(L \cup {l}, o) = in
  BY <1>1, <1>2, <1>5, <1>15
<1>20. EndTogether(t2, L \cup {l}, G, pr, en2, e)
  <2>1. Own(e, At(t2, e), Said(L \cup {l}, e), pr[e.me], en2[e.me])
    BY <1>0, <1>8, <1>9, <1>10, <1>16, <1>18
  <2>2. Heard(e, At(t2, e), At(t2, Other(e)), Said(L \cup {l}, Other(e)), Said(G, Other(e)))
    BY <1>2, <1>6, <1>16, <1>18, <1>19
  <2> QED
    BY <2>1, <2>2 DEF EndTogether
<1>21. EndTogether(t2, L \cup {l}, G, pr, en2, Other(e))
  <2>1. k2 <= k2 /\ c2 <= en2[e.peer] /\ en2[e.peer] \in Nat /\ in \in SUBSET in
    BY <1>0, <1>1, <1>12 DEF Later
  <2>2. PICK c3 \in Nat : c3 = en2[e.peer]
    BY <2>1
  <2>3. Own(o, other, in, k2, c3)
    BY <1>1, <1>2, <1>14, <2>1, <2>2, OwnLater
  <2>4. Own(o, At(t2, o), Said(L \cup {l}, o), pr[o.me], en2[o.me])
    BY <1>1, <1>2, <1>11, <1>18, <1>19, <2>2, <2>3
  <2>5. Heard(o, At(t2, o), At(t2, Other(o)), Said(L \cup {l}, Other(o)), Said(G, Other(o)))
    BY <1>1, <1>2, <1>7, <1>8, <1>16, <1>18
  <2> QED
    BY <1>2, <2>4, <2>5 DEF EndTogether
<1>22. SameElsewhere(t, L, G, t2, L \cup {l}, G, e)
  BY <1>2, <1>15, <1>18 DEF SameElsewhere
<1>23. Together(t2, L \cup {l}, G, pr, en2)
  <2>1. Later(pr, pr)
    BY DEF Later
  <2>2. e \in Engaged(t2)
    BY <1>18
  <2> QED
    BY <1>0, <1>20, <1>21, <1>22, <2>1, <2>2, OneConversation
<1> QED
  BY <1>4, <1>16, <1>17, <1>18, <1>23

\* What _onEnvelope has in hand: a letter of the peer that was not opened, the session
\* of the end e, what decrypt makes of it, and the key pairs.
Arrives(L, G, en, e, l) ==
  /\ l \in L /\ l.from = e.peer /\ l.to = e.me /\ l.msg \notin Said(G, Other(e))
  /\ en[e.peer] <= MAX_SKIP

Generates(pr, pr2, e, d) ==
  Later(pr, pr2) /\ (d.st.dhs = <<e.me, pr[e.me] + 1>> => pr2[e.me] = pr[e.me] + 1)

Reads(t, L, G, pr, en, e, l, st, d, t2, pr2) ==
  /\ Arrives(L, G, en, e, l)
  /\ st = At(t, e) /\ d = Decrypt(st, l.msg, <<e.me, pr[e.me] + 1>>)
  /\ Replaced(t, e.me, e.peer, d.st, t2) /\ Generates(pr, pr2, e, d)

\* _onEnvelope, on a message of the peer that was not opened before: it opens, and
\* the two ends stay together.
LEMMA OpeningTogether ==
  ASSUME NullIsNoSession, OneDirection,
         NEW t, NEW L, NEW G, NEW pr \in [Member -> Nat], NEW en \in [Member -> Nat],
         Together(t, L, G, pr, en), NEW e \in Engaged(t), NEW pr2 \in [Member -> Nat],
         NEW l, NEW st, NEW d, NEW t2, Reads(t, L, G, pr, en, e, l, st, d, t2, pr2)
  PROVE  /\ d.ok /\ Together(t2, L, G \cup {l}, pr2, en)
         /\ d.st # Null /\ Origin(d.st) = Origin(st) /\ Engaged(t2) = Engaged(t)
<1>0. /\ l \in L /\ l.from = e.peer /\ l.to = e.me /\ l.msg \notin Said(G, Other(e))
      /\ en[e.peer] <= MAX_SKIP /\ st = At(t, e) /\ d = Decrypt(st, l.msg, <<e.me, pr[e.me] + 1>>)
      /\ Later(pr, pr2) /\ (d.st.dhs = <<e.me, pr[e.me] + 1>> => pr2[e.me] = pr[e.me] + 1)
  BY DEF Arrives, Reads, Generates
<1>1. /\ e \in End /\ Other(e) \in End /\ Other(e) \in Engaged(t) /\ Other(Other(e)) = e
      /\ e.me \in Member /\ e.peer \in Member /\ e.me # e.peer /\ Other(e) # e
      /\ Other(e).me = e.peer /\ Other(e).peer = e.me /\ e.base = 1 /\ e.first[2] = 0
  BY BothEngaged
<1>2. PICK o : o = Other(e)
  OBVIOUS
<1>3. PICK other : other = At(t, o)
  OBVIOUS
<1>4. PICK out : out = Said(L, e)
  OBVIOUS
<1>5. PICK in : in = Said(L, o)
  OBVIOUS
<1>6. PICK got : got = Said(G, o)
  OBVIOUS
<1>7. PICK told : told = Said(G, e)
  OBVIOUS
<1>8. PICK more : more = Said(G \cup {l}, o)
  OBVIOUS
<1>9. PICK k \in Nat : k = pr[e.me]
  BY <1>1
<1>10. PICK c \in Nat : c = en[e.me]
  BY <1>1
<1>11. PICK k2 \in Nat : k2 = pr[e.peer]
  BY <1>1
<1>12. PICK c2 \in Nat : c2 = en[e.peer]
  BY <1>1
<1>13. PICK m : m = l.msg
  OBVIOUS
<1>14. PICK fresh : fresh = <<e.me, k + 1>>
  OBVIOUS
<1>15. /\ Own(e, st, out, k, c) /\ Own(o, other, in, k2, c2)
       /\ Heard(e, st, other, in, got) /\ Heard(o, other, st, out, told)
  <2>1. /\ Own(e, At(t, e), Said(L, e), pr[e.me], en[e.me])
        /\ Own(Other(e), At(t, Other(e)), Said(L, Other(e)), pr[e.peer], en[e.peer])
        /\ Heard(e, At(t, e), At(t, Other(e)), Said(L, Other(e)), Said(G, Other(e)))
        /\ Heard(Other(e), At(t, Other(e)), At(t, e), Said(L, e), Said(G, e))
    BY BothTogether
  <2> QED
    BY <1>0, <1>2, <1>3, <1>4, <1>5, <1>6, <1>7, <1>9, <1>10, <1>11, <1>12, <2>1
<1>16. /\ Adds(got, m, more)
       /\ \A f \in Engaged(t) : f # o => Said(G \cup {l}, f) = Said(G, f)
  BY <1>0, <1>1, <1>2, <1>6, <1>8, <1>13, OneLetter
<1>17. m \in in \ got
  <2>1. m \in in
    BY <1>0, <1>1, <1>2, <1>5, <1>13 DEF Said
  <2> QED
    BY <1>0, <1>2, <1>6, <1>13, <2>1
<1>18. c2 <= MAX_SKIP /\ d = Decrypt(st, m, fresh)
  BY <1>0, <1>9, <1>12, <1>13, <1>14
<1>19. /\ d.ok /\ Own(e, d.st, out, IF d.st.dhs = fresh THEN k + 1 ELSE k, c)
       /\ Heard(e, d.st, other, in, more) /\ Heard(o, other, d.st, out, told)
       /\ Sound(e, d.st) /\ d.st.rk[1] = st.rk[1]
  <2>1. e \in End /\ Other(e) = o /\ e.first[2] = 0 /\ e.base = 1
    BY <1>1, <1>2
  <2>2. /\ Own(e, st, out, k, c) /\ Own(Other(e), other, in, k2, c2)
        /\ Heard(e, st, other, in, got) /\ Heard(Other(e), other, st, out, told)
    BY <1>15, <2>1
  <2>3. Adds(got, m, more)
    BY <1>16
  <2>4. /\ d.ok /\ Own(e, d.st, out, IF d.st.dhs = fresh THEN k + 1 ELSE k, c)
        /\ Heard(e, d.st, other, in, more) /\ Heard(Other(e), other, d.st, out, told)
        /\ Sound(e, d.st) /\ d.st.rk[1] = st.rk[1]
    <3>1. Facing(e, st, other, out, in, told, got, k, c, k2, c2)
      BY <2>2 DEF Facing
    <3>2. Decrypts(e, st, m, k, d, in, got, more)
      BY <1>14, <1>17, <1>18, <2>1, <2>3 DEF Decrypts
    <3>3. e \in End /\ c2 \in Nat /\ c2 <= MAX_SKIP
      BY <1>18, <2>1
    <3>4. /\ d.ok /\ Sound(e, d.st) /\ d.st.rk[1] = st.rk[1]
          /\ Facing(e, d.st, other, out, in, told, more,
                    IF d.st.dhs = <<e.me, k + 1>> THEN k + 1 ELSE k, c, k2, c2)
      BY <3>1, <3>2, <3>3, DecryptingBoth
    <3> QED
      BY <1>14, <3>4 DEF Facing
  <2> QED
    BY <2>1, <2>4
<1>20. d.st # Null /\ Origin(d.st) = Origin(st)
  BY <1>19, SoundIsSession DEF Origin
<1>21. /\ Engaged(t2) = Engaged(t) /\ At(t2, e) = d.st /\ At(t2, o) = other
       /\ \A f \in Engaged(t) : f # e /\ f # o => At(t2, f) = At(t, f)
  <2>1. t[e.me][e.peer] # Null => Origin(d.st) = Origin(t[e.me][e.peer])
    BY <1>0, <1>20 DEF At
  <2>2. Replaced(t, e.me, e.peer, d.st, t2)
    BY DEF Reads
  <2> QED
    BY <1>2, <1>3, <1>20, <2>1, <2>2, ReplacingAt
<1>22. EndTogether(t2, L, G \cup {l}, pr2, en, e)
  <2>1. PICK k3 \in Nat : k3 = pr2[e.me]
    BY <1>1
  <2>2. k <= k3 /\ (d.st.dhs = fresh => k + 1 <= k3)
    BY <1>0, <1>1, <1>9, <1>14, <2>1 DEF Later
  <2>3. PICK k4 \in Nat : k4 = IF d.st.dhs = fresh THEN k + 1 ELSE k
    OBVIOUS
  <2>4. k4 <= k3 /\ c <= c /\ out \in SUBSET out /\ Own(e, d.st, out, k4, c)
    BY <1>19, <2>2, <2>3
  <2>5. Own(e, d.st, out, k3, c)
    BY <1>1, <2>4, OwnLater
  <2>6. Own(e, At(t2, e), Said(L, e), pr2[e.me], en[e.me])
    BY <1>4, <1>10, <1>21, <2>1, <2>5
  <2>7. Heard(e, At(t2, e), At(t2, Other(e)), Said(L, Other(e)), Said(G \cup {l}, Other(e)))
    BY <1>2, <1>5, <1>8, <1>19, <1>21
  <2> QED
    BY <2>6, <2>7 DEF EndTogether
<1>23. EndTogether(t2, L, G \cup {l}, pr2, en, Other(e))
  <2>1. k2 <= pr2[e.peer] /\ c2 <= c2 /\ in \in SUBSET in
    BY <1>0, <1>1, <1>11 DEF Later
  <2>2. PICK k3 \in Nat : k3 = pr2[e.peer]
    BY <1>1
  <2>3. Own(o, other, in, k3, c2)
    BY <1>1, <1>2, <1>15, <2>1, <2>2, OwnLater
  <2>4. Own(o, At(t2, o), Said(L, o), pr2[o.me], en[o.me])
    BY <1>1, <1>2, <1>5, <1>12, <1>21, <2>2, <2>3
  <2>5. Said(G \cup {l}, e) = told
    BY <1>1, <1>2, <1>7, <1>16
  <2>6. Heard(o, At(t2, o), At(t2, Other(o)), Said(L, Other(o)), Said(G \cup {l}, Other(o)))
    BY <1>1, <1>2, <1>4, <1>19, <1>21, <2>5
  <2> QED
    BY <1>2, <2>4, <2>6 DEF EndTogether
<1>24. SameElsewhere(t, L, G, t2, L, G \cup {l}, e)
  BY <1>2, <1>16, <1>21 DEF SameElsewhere
<1>25. Together(t2, L, G \cup {l}, pr2, en)
  <2>1. Later(en, en)
    BY DEF Later
  <2>2. e \in Engaged(t2)
    BY <1>21
  <2> QED
    BY <1>0, <1>22, <1>23, <1>24, <2>1, <2>2, OneConversation
<1> QED
  BY <1>19, <1>20, <1>21, <1>25

AllBelong(t, L) == \A l \in L : Belongs(t, l)

\* The end e may write first, and there is no session yet.
Unwritten(t, e) ==
  <<e.me, e.peer>> \in Starts /\ t[e.me][e.peer] = Null /\ t[e.peer][e.me] = Null

\* What initiate has in hand.
Initiates(t, e, s, dhs, st, other, pr2, t2) ==
  /\ e.side = 0 /\ e.base = 1 /\ e.first = Spk(e.peer) /\ Unwritten(t, e)
  /\ Generated(e, s, dhs, pr2[e.me], pr2[e.peer])
  /\ FromSecret(e, s, dhs, st, other) /\ Replaced(t, e.me, e.peer, st, t2)

\* initiate: a conversation begins, with nothing said.
LEMMA BeginningTogether ==
  ASSUME NullIsNoSession, OneDirection,
         NEW t, NEW L, NEW G, NEW pr \in [Member -> Nat], NEW en \in [Member -> Nat],
         Together(t, L, G, pr, en), G \subseteq L, AllBelong(t, L),
         NEW e \in End, NEW pr2 \in [Member -> Nat], Later(pr, pr2),
         NEW s \in SUBSET Pair, NEW dhs \in Pair, NEW st, NEW other, NEW t2,
         Initiates(t, e, s, dhs, st, other, pr2, t2)
  PROVE  /\ Together(t2, L, G, pr2, en) /\ e \in Engaged(t2)
         /\ st # Null /\ st.cks # Null /\ Origin(st) = s
<1>0. /\ e.side = 0 /\ e.base = 1 /\ e.first = Spk(e.peer) /\ Unwritten(t, e)
      /\ FromSecret(e, s, dhs, st, other)
  BY DEF Initiates
<1>r. Replaced(t, e.me, e.peer, st, t2)
  BY DEF Initiates
<1>1. PICK a \in Member : a = e.me
  BY Ends
<1>2. PICK b \in Member : b = e.peer
  BY Ends
<1>3. PICK o : o = Other(e)
  OBVIOUS
<1>4. o \in End /\ o.me = b /\ o.peer = a /\ o.side = 1 /\ o.first = Spk(b) /\ Other(o) = e
  BY <1>0, <1>1, <1>2, <1>3, Ends
<1>5. a # b
  BY <1>1, <1>2, Ends
<1>6. PICK k \in Nat : k = pr2[e.me]
  BY <1>1
<1>7. PICK k2 \in Nat : k2 = pr2[e.peer]
  BY <1>2
<1>8. PICK c \in Nat : c = en[a]
  OBVIOUS
<1>9. PICK c2 \in Nat : c2 = en[b]
  OBVIOUS
<1>10. Generated(e, s, dhs, k, k2)
  BY <1>6, <1>7 DEF Initiates
<1>11. /\ Own(e, st, {}, k, c) /\ st.cks # Null
       /\ Own(Other(e), other, {}, k2, c2)
       /\ Heard(e, st, other, {}, {}) /\ Heard(Other(e), other, st, {}, {})
  <2>1. e.side = 0 /\ e.base = 1 /\ FromSecret(e, s, dhs, st, other)
    BY <1>0
  <2> QED
    BY <1>10, <2>1, Beginning
<1>12. st # Null
  <2>1. Sound(e, st)
    BY <1>11 DEF Own
  <2> QED
    BY <2>1, SoundIsSession
<1>13. Origin(st) = s
  <2>1. st.rk = Append(<<s>>, DH(dhs, e.first))
    BY <1>0 DEF FromSecret, InitSender, KdfRk
  <2> QED
    BY <2>1 DEF Origin
<1>14. /\ t2[a][b] = st /\ t2[b][a] = Null
       /\ \A g, q \in Member : ~(g = a /\ q = b) => t2[g][q] = t[g][q]
  BY <1>0, <1>r, <1>1, <1>2, <1>5 DEF Unwritten, Replaced
<1>15. Wrote(t2, a, b)
  BY <1>0, <1>1, <1>2, <1>12, <1>14 DEF Unwritten, Wrote
<1>16. e \in Engaged(t2)
  BY <1>0, <1>1, <1>2, <1>15 DEF Engaged
<1>17. At(t2, e) = st /\ At(t2, o) = other
  <2>1. At(t2, e) = st
    BY <1>1, <1>2, <1>12, <1>14 DEF At
  <2>2. At(t2, o) = InitReceiver(<<Origin(st)>>, Spk(b))
    BY <1>4, <1>14 DEF At
  <2>3. other = InitReceiver(<<s>>, Spk(b))
    BY <1>0, <1>2 DEF FromSecret
  <2> QED
    BY <1>13, <2>1, <2>2, <2>3
<1>18. \A l \in L : ~(l.from = a /\ l.to = b) /\ ~(l.from = b /\ l.to = a)
  BY <1>0, <1>1, <1>2 DEF Unwritten, AllBelong, Belongs, Wrote
<1>19. /\ Said(L, e) = {} /\ Said(L, o) = {} /\ Said(G, e) = {} /\ Said(G, o) = {}
  BY <1>1, <1>2, <1>4, <1>18 DEF Said
<1>20. EndTogether(t2, L, G, pr2, en, e)
  BY <1>1, <1>3, <1>6, <1>8, <1>11, <1>17, <1>19 DEF EndTogether
<1>21. EndTogether(t2, L, G, pr2, en, Other(e))
  <2>1. Own(o, At(t2, o), Said(L, o), pr2[o.me], en[o.me])
    BY <1>2, <1>3, <1>4, <1>7, <1>9, <1>11, <1>17, <1>19
  <2>2. Heard(o, At(t2, o), At(t2, Other(o)), Said(L, Other(o)), Said(G, Other(o)))
    BY <1>3, <1>4, <1>11, <1>17, <1>19
  <2> QED
    BY <1>3, <2>1, <2>2 DEF EndTogether
<1>22. SameElsewhere(t, L, G, t2, L, G, e)
  <2> SUFFICES ASSUME NEW f \in Engaged(t2), f # e, f # o
               PROVE  f \in Engaged(t) /\ At(t2, f) = At(t, f)
    BY <1>3 DEF SameElsewhere
  <2>1. /\ f \in End /\ f.base = 1 /\ f.me \in Member /\ f.peer \in Member
        /\ Other(f) \in Engaged(t2) /\ Other(Other(f)) = f
        /\ Other(f).me = f.peer /\ Other(f).peer = f.me
    BY BothEngaged
  <2>2. ~(f.me = a /\ f.peer = b)
    BY <1>1, <1>2, <1>16, OneEnd
  <2>3. ~(f.me = b /\ f.peer = a)
    <3>1. SUFFICES ASSUME f.me = b, f.peer = a PROVE FALSE
      OBVIOUS
    <3>2. Other(f) = e
      BY <1>1, <1>2, <1>16, <2>1, <3>1, OneEnd
    <3> QED
      BY <1>3, <2>1, <3>2
  <2>4. t2[f.me][f.peer] = t[f.me][f.peer] /\ t2[f.peer][f.me] = t[f.peer][f.me]
    BY <1>14, <2>1, <2>2, <2>3
  <2>5. At(t2, f) = At(t, f)
    BY <2>4 DEF At
  <2>6. f \in Engaged(t)
    BY <2>4 DEF Engaged, Wrote
  <2> QED
    BY <2>5, <2>6
<1>23. Together(t2, L, G, pr2, en)
  <2>1. Later(en, en)
    BY DEF Later
  <2> QED
    BY <1>16, <1>20, <1>21, <1>22, <2>1, OneConversation
<1> QED
  BY <1>11, <1>12, <1>13, <1>16, <1>23

-----------------------------------------------------------------------------
\* Where an envelope may be.
LEMMA Places ==
  ASSUME NEW snd, NEW out, NEW queues, NEW l
  PROVE  l \in OnTheirWay(snd, out, queues) <=>
           \E h \in Member : \/ snd[h] # Null /\ l = snd[h]
                            \/ l \in out[h]
                            \/ l \in ToSet(queues[h])
<1> DEFINE queued == [h \in Member |-> ToSet(queues[h])]
<1>1. l \in InHand(snd) <=> \E h \in Member : snd[h] # Null /\ l = snd[h]
  BY DEF InHand
<1>2. l \in InBoxes(out) <=> \E h \in Member : l \in out[h]
  BY DEF InBoxes
<1>3. \A h \in Member : queued[h] = ToSet(queues[h])
  OBVIOUS
<1>4. OnTheirWay(snd, out, queues) = InHand(snd) \cup InBoxes(out) \cup InBoxes(queued)
  BY DEF OnTheirWay
<1> HIDE DEF queued
<1>5. l \in InBoxes(queued) <=> \E h \in Member : l \in queued[h]
  BY DEF InBoxes
<1> QED
  BY <1>1, <1>2, <1>3, <1>4, <1>5

\* Appending to a queue an envelope that is not in it.
LEMMA AppendingOnce ==
  ASSUME Queues, NEW b, b.to \in Member, mail' = Queued(b),
         \A g \in Member : b \notin ToSet(mail[g]),
         \A h \in Member : \A i, j \in 1 .. Len(mail[h]) : mail[h][i] = mail[h][j] => i = j
  PROVE  /\ \A h \in Member : \A i, j \in 1 .. Len(mail'[h]) : mail'[h][i] = mail'[h][j] => i = j
         /\ \A h \in Member : ToSet(mail[h]) \subseteq ToSet(mail'[h])
         /\ b \in ToSet(mail'[b.to])
<1>1. PICK S : mail \in [Member -> Seq(S)]
  BY DEF Queues
<1>2. mail' = [mail EXCEPT ![b.to] = Append(mail[b.to], b)]
  BY <1>1 DEF Queued
<1>3. ASSUME NEW h \in Member, h # b.to PROVE mail'[h] = mail[h]
  BY <1>1, <1>2, <1>3
<1>4. mail[b.to] \in Seq(S) /\ mail'[b.to] = Append(mail[b.to], b)
  BY <1>1, <1>2
<1>5. /\ DOMAIN mail[b.to] = 1 .. Len(mail[b.to]) /\ Len(mail[b.to]) \in Nat
      /\ Len(mail'[b.to]) = Len(mail[b.to]) + 1
      /\ DOMAIN mail'[b.to] = 1 .. Len(mail[b.to]) + 1
      /\ mail'[b.to][Len(mail[b.to]) + 1] = b
      /\ \A i \in 1 .. Len(mail[b.to]) : mail'[b.to][i] = mail[b.to][i]
  BY <1>4
<1>6. \A i \in 1 .. Len(mail[b.to]) : mail[b.to][i] # b
  BY <1>5, b \notin ToSet(mail[b.to]) DEF ToSet
<1>7. \A i, j \in 1 .. Len(mail'[b.to]) : mail'[b.to][i] = mail'[b.to][j] => i = j
  <2> SUFFICES ASSUME NEW i \in 1 .. Len(mail'[b.to]), NEW j \in 1 .. Len(mail'[b.to]),
                      mail'[b.to][i] = mail'[b.to][j]
               PROVE  i = j
    OBVIOUS
  <2>1. i \in 1 .. Len(mail[b.to]) \/ i = Len(mail[b.to]) + 1
    BY <1>5
  <2>2. j \in 1 .. Len(mail[b.to]) \/ j = Len(mail[b.to]) + 1
    BY <1>5
  <2> QED
    BY <1>5, <1>6, <2>1, <2>2, SMTT(30)
<1>8. ToSet(mail[b.to]) \subseteq ToSet(mail'[b.to])
  BY <1>5 DEF ToSet
<1>9. b \in ToSet(mail'[b.to])
  BY <1>5 DEF ToSet
<1> QED
  BY <1>3, <1>7, <1>8, <1>9

\* Taking the head of a queue without repetitions: it is in no queue any more.
LEMMA TakingOnce ==
  ASSUME Queues, NEW h \in Member, mail[h] # <<>>, mail' = [mail EXCEPT ![h] = Tail(@)],
         \A g \in Member : \A i, j \in 1 .. Len(mail[g]) : mail[g][i] = mail[g][j] => i = j
  PROVE  /\ \A g \in Member : \A i, j \in 1 .. Len(mail'[g]) : mail'[g][i] = mail'[g][j] => i = j
         /\ Head(mail[h]) \notin ToSet(mail'[h])
         /\ \A g \in Member : \A l \in ToSet(mail[g]) :
              l \in ToSet(mail'[g]) \/ (g = h /\ l = Head(mail[h]))
<1>1. PICK S : mail \in [Member -> Seq(S)]
  BY DEF Queues
<1>2. PICK n \in Nat : n = Len(mail[h])
  BY <1>1
<1>3. ASSUME NEW g \in Member, g # h PROVE mail'[g] = mail[g]
  BY <1>1, <1>3
<1>4. mail[h] \in Seq(S) /\ mail'[h] = Tail(mail[h])
  BY <1>1
<1>5. /\ n > 0 /\ DOMAIN mail[h] = 1 .. n /\ Head(mail[h]) = mail[h][1]
      /\ Len(mail'[h]) = n - 1 /\ DOMAIN mail'[h] = 1 .. n - 1
      /\ \A i \in 1 .. n - 1 : mail'[h][i] = mail[h][i + 1]
  <2>1. \A s \in Seq(S) : s # <<>> =>
          /\ Len(s) \in Nat /\ Len(s) > 0 /\ DOMAIN s = 1 .. Len(s) /\ Head(s) = s[1]
          /\ Len(Tail(s)) = Len(s) - 1 /\ DOMAIN Tail(s) = 1 .. Len(s) - 1
          /\ \A i \in 1 .. Len(s) - 1 : Tail(s)[i] = s[i + 1]
    OBVIOUS
  <2> QED
    BY <1>2, <1>4, <2>1
<1>6. \A i, j \in 1 .. n : mail[h][i] = mail[h][j] => i = j
  BY <1>2
<1>7. \A i, j \in 1 .. Len(mail'[h]) : mail'[h][i] = mail'[h][j] => i = j
  <2> SUFFICES ASSUME NEW i \in 1 .. n - 1, NEW j \in 1 .. n - 1, mail'[h][i] = mail'[h][j]
               PROVE  i = j
    BY <1>5
  <2>1. i + 1 \in 1 .. n /\ j + 1 \in 1 .. n /\ mail[h][i + 1] = mail[h][j + 1]
    BY <1>5
  <2> QED
    BY <1>6, <2>1
<1>8. Head(mail[h]) \notin ToSet(mail'[h])
  <2> SUFFICES ASSUME NEW i \in 1 .. n - 1, mail'[h][i] = Head(mail[h]) PROVE FALSE
    BY <1>5 DEF ToSet
  <2>1. i + 1 \in 1 .. n /\ 1 \in 1 .. n /\ mail[h][i + 1] = mail[h][1] /\ i + 1 # 1
    BY <1>5
  <2> QED
    BY <1>6, <2>1
<1>9. ASSUME NEW l \in ToSet(mail[h]) PROVE l \in ToSet(mail'[h]) \/ l = Head(mail[h])
  <2>1. PICK i \in 1 .. n : l = mail[h][i]
    BY <1>5 DEF ToSet
  <2>2. CASE i = 1
    BY <1>5, <2>1, <2>2
  <2>3. CASE i # 1
    <3>1. i - 1 \in 1 .. n - 1 /\ (i - 1) + 1 = i
      BY <2>3
    <3> QED
      BY <1>5, <2>1, <3>1 DEF ToSet
  <2> QED
    BY <2>2, <2>3
<1> QED
  BY <1>3, <1>7, <1>8, <1>9

\* What PeerInv and OnePlace say of the places, without the ratchet.
LEMMA LetterFacts ==
  ASSUME PeerInv, NEW h \in Member
  PROVE  /\ sending[h] # Null => sending[h].from = h /\ sending[h].to \in Member
         /\ \A l \in outbox[h] : l.from = h /\ l.to \in Member
         /\ \A l \in ToSet(mail[h]) : l.to = h
BY DEF PeerInv, Letters, Sealed

\* The relay takes the envelope of a send.
LEMMA PostedPlaces ==
  ASSUME PeerInv, OnePlace, NEW h \in Member, Posted(h)
  PROVE  OnePlace' /\ Written' \subseteq Written
<1> DEFINE b == sending[h]
<1>1. /\ b # Null /\ mail' = Queued(b) /\ sending' = [sending EXCEPT ![h] = Null]
      /\ UNCHANGED <<outbox, opened>>
  BY DEF Posted
<1>2. /\ b.from = h /\ b.to \in Member /\ b \notin opened
      /\ \A g \in Member : b \notin outbox[g] /\ b \notin ToSet(mail[g])
  BY <1>1, LetterFacts DEF OnePlace
<1>3. /\ \A g \in Member : sending'[g] # Null => g # h /\ sending'[g] = sending[g]
      /\ \A g \in Member : sending[g] # Null => sending[g].from = g
  BY <1>1, LetterFacts DEF PeerInv, Letters
<1> HIDE DEF b
<1>4. Queues /\ \A g \in Member : \A i, j \in 1 .. Len(mail[g]) : mail[g][i] = mail[g][j] => i = j
  BY DEF PeerInv, OnePlace
<1>5. \A g \in Member : \A i, j \in 1 .. Len(mail'[g]) : mail'[g][i] = mail'[g][j] => i = j
  BY <1>1, <1>2, <1>4, AppendingOnce
<1>6. \A g \in Member : \A l \in ToSet(mail'[g]) : l \in ToSet(mail[g]) \/ (l = b /\ g = b.to)
  BY <1>1, <1>2, <1>4, Enqueueing
<1>7. OnePlace'
  <2> SUFFICES ASSUME NEW g \in Member
               PROVE  /\ sending'[g] # Null =>
                           /\ sending'[g] \notin opened'
                           /\ \A q \in Member : sending'[g] \notin outbox'[q]
                                                /\ sending'[g] \notin ToSet(mail'[q])
                      /\ \A l \in outbox'[g] :
                           l \notin opened' /\ \A q \in Member : l \notin ToSet(mail'[q])
                      /\ \A l \in ToSet(mail'[g]) : l \notin opened'
    BY <1>5 DEF OnePlace
  <2>1. ASSUME sending'[g] # Null
        PROVE  /\ sending'[g] \notin opened'
               /\ \A q \in Member : sending'[g] \notin outbox'[q] /\ sending'[g] \notin ToSet(mail'[q])
    <3>1. sending'[g] = sending[g] /\ sending[g] # b
      BY <1>2, <1>3, <2>1
    <3>2. /\ sending[g] \notin opened
          /\ \A q \in Member : sending[g] \notin outbox[q] /\ sending[g] \notin ToSet(mail[q])
      BY <2>1, <3>1 DEF OnePlace
    <3>3. outbox' = outbox /\ opened' = opened
      BY <1>1
    <3>4. \A q \in Member : sending'[g] \notin ToSet(mail'[q])
      BY <1>6, <3>1, <3>2
    <3> QED
      BY <3>1, <3>2, <3>3, <3>4
  <2>2. \A l \in outbox'[g] : l \notin opened' /\ \A q \in Member : l \notin ToSet(mail'[q])
    <3> SUFFICES ASSUME NEW l \in outbox[g]
                 PROVE  l \notin opened /\ \A q \in Member : l \notin ToSet(mail'[q])
      BY <1>1
    <3>1. l # b /\ l \notin opened /\ \A q \in Member : l \notin ToSet(mail[q])
      BY <1>2 DEF OnePlace
    <3> QED
      BY <1>6, <3>1
  <2>3. \A l \in ToSet(mail'[g]) : l \notin opened'
    BY <1>1, <1>2, <1>6 DEF OnePlace
  <2> QED
    BY <2>1, <2>2, <2>3
<1>8. Written' \subseteq Written
  <2> SUFFICES ASSUME NEW l \in OnTheirWay(sending', outbox', mail')
               PROVE  l \in OnTheirWay(sending, outbox, mail)
    BY <1>1 DEF Written
  <2>1. PICK g \in Member : \/ sending'[g] # Null /\ l = sending'[g]
                            \/ l \in outbox'[g] \/ l \in ToSet(mail'[g])
    BY Places
  <2>2. \E q \in Member : \/ sending[q] # Null /\ l = sending[q]
                          \/ l \in outbox[q] \/ l \in ToSet(mail[q])
    BY <1>1, <1>3, <1>6, <2>1 DEF b
  <2> QED
    BY <2>2, Places
<1> QED
  BY <1>7, <1>8

\* The envelope of a send goes to the outbox.
LEMMA HeldPlaces ==
  ASSUME PeerInv, OnePlace, NEW h \in Member, Held(h)
  PROVE  OnePlace' /\ Written' \subseteq Written
<1> DEFINE b == sending[h]
<1>1. /\ b # Null /\ outbox' = [outbox EXCEPT ![h] = @ \cup {b}]
      /\ sending' = [sending EXCEPT ![h] = Null] /\ UNCHANGED <<mail, opened>>
  BY DEF Held
<1>2. /\ b.from = h /\ b \notin opened
      /\ \A g \in Member : b \notin ToSet(mail[g])
  BY <1>1, LetterFacts DEF OnePlace
<1>3. /\ \A g \in Member : sending'[g] # Null => g # h /\ sending'[g] = sending[g]
      /\ \A g \in Member : sending[g] # Null => sending[g].from = g
      /\ \A g \in Member : \A l \in outbox'[g] : l \in outbox[g] \/ (l = b /\ g = h)
  BY <1>1, LetterFacts DEF PeerInv, Letters
<1> HIDE DEF b
<1>4. OnePlace'
  <2> SUFFICES ASSUME NEW g \in Member
               PROVE  /\ sending'[g] # Null =>
                           /\ sending'[g] \notin opened'
                           /\ \A q \in Member : sending'[g] \notin outbox'[q]
                                                /\ sending'[g] \notin ToSet(mail'[q])
                      /\ \A l \in outbox'[g] :
                           l \notin opened' /\ \A q \in Member : l \notin ToSet(mail'[q])
                      /\ \A l \in ToSet(mail'[g]) : l \notin opened'
    BY <1>1 DEF OnePlace
  <2>1. ASSUME sending'[g] # Null
        PROVE  /\ sending'[g] \notin opened'
               /\ \A q \in Member : sending'[g] \notin outbox'[q] /\ sending'[g] \notin ToSet(mail'[q])
    <3>1. sending'[g] = sending[g] /\ sending[g] # b
      BY <1>2, <1>3, <2>1
    <3> QED
      BY <1>1, <1>3, <2>1, <3>1 DEF OnePlace
  <2>2. \A l \in outbox'[g] : l \notin opened' /\ \A q \in Member : l \notin ToSet(mail'[q])
    BY <1>1, <1>2, <1>3 DEF OnePlace
  <2> QED
    BY <1>1, <2>1, <2>2 DEF OnePlace
<1>5. Written' \subseteq Written
  <2> SUFFICES ASSUME NEW l \in OnTheirWay(sending', outbox', mail')
               PROVE  l \in OnTheirWay(sending, outbox, mail)
    BY <1>1 DEF Written
  <2>1. PICK g \in Member : \/ sending'[g] # Null /\ l = sending'[g]
                            \/ l \in outbox'[g] \/ l \in ToSet(mail'[g])
    BY Places
  <2>2. \E q \in Member : \/ sending[q] # Null /\ l = sending[q]
                          \/ l \in outbox[q] \/ l \in ToSet(mail[q])
    BY <1>1, <1>3, <2>1 DEF b
  <2> QED
    BY <2>2, Places
<1> QED
  BY <1>4, <1>5

\* An envelope of the outbox goes to its recipient's queue.
LEMMA FlushPlaces ==
  ASSUME PeerInv, OnePlace, NEW h \in Member, NEW b \in outbox[h], Flush(h, b)
  PROVE  OnePlace' /\ Written' \subseteq Written
<1>1. /\ mail' = Queued(b) /\ outbox' = [outbox EXCEPT ![h] = @ \ {b}]
      /\ UNCHANGED <<sending, opened>>
  BY DEF Flush
<1>2. /\ b.from = h /\ b.to \in Member /\ b \notin opened
      /\ \A g \in Member : b \notin ToSet(mail[g]) /\ (sending[g] # Null => sending[g] # b)
  BY LetterFacts DEF OnePlace
<1>3. \A g \in Member : \A l \in outbox'[g] : l \in outbox[g] /\ l # b
  <2>1. \A g \in Member : g # h => b \notin outbox[g]
    BY <1>2, LetterFacts
  <2> QED
    BY <1>1, <2>1 DEF PeerInv, Letters
<1>4. Queues /\ \A g \in Member : \A i, j \in 1 .. Len(mail[g]) : mail[g][i] = mail[g][j] => i = j
  BY DEF PeerInv, OnePlace
<1>5. \A g \in Member : \A i, j \in 1 .. Len(mail'[g]) : mail'[g][i] = mail'[g][j] => i = j
  BY <1>1, <1>2, <1>4, AppendingOnce
<1>6. \A g \in Member : \A l \in ToSet(mail'[g]) : l \in ToSet(mail[g]) \/ (l = b /\ g = b.to)
  BY <1>1, <1>2, <1>4, Enqueueing
<1>7. OnePlace'
  <2> SUFFICES ASSUME NEW g \in Member
               PROVE  /\ sending'[g] # Null =>
                           /\ sending'[g] \notin opened'
                           /\ \A q \in Member : sending'[g] \notin outbox'[q]
                                                /\ sending'[g] \notin ToSet(mail'[q])
                      /\ \A l \in outbox'[g] :
                           l \notin opened' /\ \A q \in Member : l \notin ToSet(mail'[q])
                      /\ \A l \in ToSet(mail'[g]) : l \notin opened'
    BY <1>5 DEF OnePlace
  <2>1. ASSUME sending'[g] # Null
        PROVE  /\ sending'[g] \notin opened'
               /\ \A q \in Member : sending'[g] \notin outbox'[q] /\ sending'[g] \notin ToSet(mail'[q])
    BY <1>1, <1>2, <1>3, <1>6, <2>1 DEF OnePlace
  <2>2. \A l \in outbox'[g] : l \notin opened' /\ \A q \in Member : l \notin ToSet(mail'[q])
    BY <1>1, <1>3, <1>6 DEF OnePlace
  <2>3. \A l \in ToSet(mail'[g]) : l \notin opened'
    BY <1>1, <1>2, <1>6 DEF OnePlace
  <2> QED
    BY <2>1, <2>2, <2>3
<1>8. Written' \subseteq Written
  <2> SUFFICES ASSUME NEW l \in OnTheirWay(sending', outbox', mail')
               PROVE  l \in OnTheirWay(sending, outbox, mail)
    BY <1>1 DEF Written
  <2>1. PICK g \in Member : \/ sending'[g] # Null /\ l = sending'[g]
                            \/ l \in outbox'[g] \/ l \in ToSet(mail'[g])
    BY Places
  <2>2. \E q \in Member : \/ sending[q] # Null /\ l = sending[q]
                          \/ l \in outbox[q] \/ l \in ToSet(mail[q])
    BY <1>1, <1>3, <1>6, <2>1
  <2> QED
    BY <2>2, Places
<1> QED
  BY <1>7, <1>8

\* The head of a queue is taken, and forgotten or noted as opened.
LEMMA TakenPlaces ==
  ASSUME PeerInv, OnePlace, NEW h \in Member, mail[h] # <<>>,
         mail' = [mail EXCEPT ![h] = Tail(@)], UNCHANGED <<sending, outbox>>,
         opened' = opened \/ opened' = opened \cup {Head(mail[h])}
  PROVE  OnePlace' /\ Written' \subseteq Written
<1>1. PICK b : b = Head(mail[h])
  OBVIOUS
<1>2. Queues /\ \A g \in Member : \A i, j \in 1 .. Len(mail[g]) : mail[g][i] = mail[g][j] => i = j
  BY DEF PeerInv, OnePlace
<1>3. /\ \A g \in Member : \A i, j \in 1 .. Len(mail'[g]) : mail'[g][i] = mail'[g][j] => i = j
      /\ b \notin ToSet(mail'[h])
  BY <1>1, <1>2, TakingOnce
<1>4. /\ b \in ToSet(mail[h]) /\ \A g \in Member : ToSet(mail'[g]) \subseteq ToSet(mail[g])
  BY <1>1, <1>2, Dequeueing
<1>5. \A g \in Member : b \notin ToSet(mail'[g])
  <2>1. \A g \in Member : \A l \in ToSet(mail[g]) : l.to = g
    BY LetterFacts
  <2> QED
    BY <1>3, <1>4, <2>1
<1>6. /\ \A g \in Member : /\ sending[g] # Null => sending[g] # b
                           /\ b \notin outbox[g]
      /\ \A l \in opened' : l \in opened \/ l = b
  BY <1>1, <1>4 DEF OnePlace
<1>7. OnePlace'
  <2> SUFFICES ASSUME NEW g \in Member
               PROVE  /\ sending'[g] # Null =>
                           /\ sending'[g] \notin opened'
                           /\ \A q \in Member : sending'[g] \notin outbox'[q]
                                                /\ sending'[g] \notin ToSet(mail'[q])
                      /\ \A l \in outbox'[g] :
                           l \notin opened' /\ \A q \in Member : l \notin ToSet(mail'[q])
                      /\ \A l \in ToSet(mail'[g]) : l \notin opened'
    BY <1>3 DEF OnePlace
  <2>1. ASSUME sending'[g] # Null
        PROVE  /\ sending'[g] \notin opened'
               /\ \A q \in Member : sending'[g] \notin outbox'[q] /\ sending'[g] \notin ToSet(mail'[q])
    BY <1>4, <1>6, <2>1 DEF OnePlace
  <2>2. \A l \in outbox'[g] : l \notin opened' /\ \A q \in Member : l \notin ToSet(mail'[q])
    <3> SUFFICES ASSUME NEW l \in outbox[g]
                 PROVE  l \notin opened' /\ \A q \in Member : l \notin ToSet(mail'[q])
      OBVIOUS
    <3>1. l # b /\ l \notin opened /\ \A q \in Member : l \notin ToSet(mail[q])
      BY <1>6 DEF OnePlace
    <3> QED
      BY <1>4, <1>6, <3>1
  <2>3. \A l \in ToSet(mail'[g]) : l \notin opened'
    <3> SUFFICES ASSUME NEW l \in ToSet(mail'[g]) PROVE l \notin opened'
      OBVIOUS
    <3>1. l # b /\ l \in ToSet(mail[g])
      BY <1>4, <1>5
    <3>2. l \notin opened
      BY <3>1 DEF OnePlace
    <3> QED
      BY <1>6, <3>1, <3>2
  <2> QED
    BY <2>1, <2>2, <2>3
<1>8. Written' \subseteq Written
  <2> SUFFICES ASSUME NEW l \in Written' PROVE l \in Written
    OBVIOUS
  <2>1. CASE l \in OnTheirWay(sending', outbox', mail')
    <3>1. PICK g \in Member : \/ sending'[g] # Null /\ l = sending'[g]
                              \/ l \in outbox'[g] \/ l \in ToSet(mail'[g])
      BY <2>1, Places
    <3>2. \E q \in Member : \/ sending[q] # Null /\ l = sending[q]
                            \/ l \in outbox[q] \/ l \in ToSet(mail[q])
      BY <1>4, <3>1
    <3> QED
      BY <3>2, Places DEF Written
  <2>2. CASE l \in opened'
    <3>1. CASE l \in opened
      BY <3>1 DEF Written
    <3>2. CASE l = b
      <4>1. l \in OnTheirWay(sending, outbox, mail)
        BY <1>4, <3>2, Places
      <4> QED
        BY <4>1 DEF Written
    <3> QED
      BY <1>6, <2>2, <3>1, <3>2
  <2> QED
    BY <2>1, <2>2 DEF Written
<1> QED
  BY <1>7, <1>8

-----------------------------------------------------------------------------
\* The sessions of t are there in t2, and come from where they came from.
Grows(t, t2) ==
  \A a, b \in Member :
    t[a][b] # Null => t2[a][b] # Null /\ Origin(t2[a][b]) = Origin(t[a][b])

LEMMA ReplacedGrows ==
  ASSUME NEW t, NEW h \in Member, NEW p \in Member, NEW st, st # Null,
         t[h][p] # Null => Origin(st) = Origin(t[h][p]),
         NEW t2, Replaced(t, h, p, st, t2)
  PROVE  Grows(t, t2)
<1> SUFFICES ASSUME NEW a \in Member, NEW b \in Member, t[a][b] # Null
             PROVE  t2[a][b] # Null /\ Origin(t2[a][b]) = Origin(t[a][b])
  BY DEF Grows
<1>1. CASE a = h /\ b = p
  BY <1>1 DEF Replaced
<1>2. CASE ~(a = h /\ b = p)
  BY <1>2 DEF Replaced
<1> QED
  BY <1>1, <1>2

LEMMA BelongsGrows ==
  ASSUME NEW t, NEW t2, Grows(t, t2), NEW l, Belongs(t, l)
  PROVE  Belongs(t2, l)
<1>1. /\ l.from \in Member /\ l.to \in Member /\ l.from # l.to
      /\ Wrote(t, l.from, l.to) \/ Wrote(t, l.to, l.from)
      /\ l.prekey # Null => /\ Wrote(t, l.from, l.to)
                            /\ Secret(l.prekey, l.to) = <<Origin(t[l.from][l.to])>>
  BY DEF Belongs
<1>2. \A a, b \in Member : Wrote(t, a, b) =>
        Wrote(t2, a, b) /\ Origin(t2[a][b]) = Origin(t[a][b])
  BY DEF Grows, Wrote
<1> QED
  BY <1>1, <1>2 DEF Belongs

LEMMA OriginsKeep ==
  ASSUME Origins, NEW h \in Member, NEW p \in Member, NEW st,
         Replaced(sessions, h, p, st, sessions'), Grows(sessions, sessions'),
         sessions[h][p] = Null /\ <<h, p>> \in Starts => IsOrigin(h, p, Origin(st))
  PROVE  Origins'
<1> SUFFICES ASSUME NEW a \in Member, NEW b \in Member, Wrote(sessions', a, b)
             PROVE  IsOrigin(a, b, Origin(sessions'[a][b]))
  BY DEF Origins, Wrote, Origin, IsOrigin, Spk
<1>1. CASE sessions[a][b] # Null
  <2>1. Wrote(sessions, a, b) /\ Origin(sessions'[a][b]) = Origin(sessions[a][b])
    BY <1>1 DEF Wrote, Grows
  <2> QED
    BY <2>1 DEF Origins
<1>2. CASE sessions[a][b] = Null
  <2>1. a = h /\ b = p /\ sessions'[a][b] = st
    BY <1>2 DEF Replaced, Wrote
  <2> QED
    BY <1>2, <2>1 DEF Wrote
<1> QED
  BY <1>1, <1>2

\* Whoever has a session has an end of the conversation, and so has whoever is
\* written to.
LEMMA HasEnd ==
  ASSUME NEW t, NEW h \in Member, NEW p \in Member, h # p, Wrote(t, h, p) \/ Wrote(t, p, h)
  PROVE  \E e \in Engaged(t) : e.me = h /\ e.peer = p
<1>1. CASE Wrote(t, h, p)
  <2> DEFINE e == [me |-> h, peer |-> p, side |-> 0, first |-> Spk(p), base |-> 1]
  <2>1. e \in End
    BY DEF End, Pair, Spk
  <2> QED
    BY <1>1, <2>1 DEF Engaged
<1>2. CASE Wrote(t, p, h)
  <2> DEFINE e == [me |-> h, peer |-> p, side |-> 1, first |-> Spk(h), base |-> 1]
  <2>1. e \in End
    BY DEF End, Pair, Spk
  <2> QED
    BY <1>2, <2>1 DEF Engaged
<1> QED
  BY <1>1, <1>2

\* What a send does to the conversation it is for.
Extends(h, p, v) ==
  /\ Together(sessions', Written \cup {v}, opened, pairs', encrypted')
  /\ Grows(sessions, sessions') /\ Origins' /\ Belongs(sessions', v)
  /\ \A y \in Written : y.from = h /\ y.to = p => y.msg # v.msg

Counted(h) ==
  /\ Later(encrypted, encrypted') /\ encrypted' \in [Member -> Nat]
  /\ encrypted'[h] = encrypted[h] + 1

LEMMA SendingOn ==
  ASSUME NullIsNoSession, OneDirection, TalkInv, NEW h \in Member, NEW p \in Member, h # p,
         NEW st, st = sessions[h][p], st # Null, st.cks # Null, NEW r, r = Encrypt(st),
         Replaced(sessions, h, p, r.st, sessions'), pairs' = pairs, Counted(h),
         NEW v, v.from = h, v.to = p, v.msg = r.msg, v.prekey = Null
  PROVE  Extends(h, p, v)
<1>1. Wrote(sessions, h, p) \/ Wrote(sessions, p, h)
  BY DEF TalkInv, PeerInv, Descends, Wrote
<1>2. PICK e \in Engaged(sessions) : e.me = h /\ e.peer = p
  BY <1>1, HasEnd
<1>3. /\ pairs \in [Member -> Nat] /\ encrypted \in [Member -> Nat]
      /\ Together(sessions, Written, opened, pairs, encrypted)
  BY DEF TalkInv, Counters
<1>4. encrypted' \in [Member -> Nat]
  BY DEF Counted
<1>5. Writes(sessions, e, st, r, v, encrypted, sessions', encrypted')
  BY <1>2 DEF Writes, Counted
<1>6. /\ Together(sessions', Written \cup {v}, opened, pairs, encrypted')
      /\ r.st # Null /\ Origin(r.st) = Origin(st) /\ r.msg \notin Said(Written, e)
  BY <1>3, <1>4, <1>5, SendingTogether
<1>7. Grows(sessions, sessions')
  BY <1>6, ReplacedGrows
<1>8. Origins'
  BY <1>7, OriginsKeep DEF TalkInv
<1>9. Belongs(sessions', v)
  BY <1>1, <1>7 DEF Belongs, Grows, Wrote
<1>10. \A y \in Written : y.from = h /\ y.to = p => y.msg # v.msg
  BY <1>2, <1>6 DEF Said
<1> QED
  BY <1>6, <1>7, <1>8, <1>9, <1>10 DEF Extends

\* The secret of the first message of h to p.
LEMMA InitiateFacts ==
  ASSUME NEW h \in Member, NEW p \in Member, h # p, Counters, NEW x, x = Initiate(h, p),
         NEW e \in End, e.me = h, e.peer = p, e.first = Spk(p),
         NEW pr2 \in [Member -> Nat], Later(pairs, pr2), pr2[h] = pairs[h] + 2
  PROVE  \E s \in SUBSET Pair : \E dhs \in Pair : \E other :
           /\ Secret(x.prekey, p) = <<s>> /\ IsOrigin(h, p, s)
           /\ Generated(e, s, dhs, pr2[h], pr2[p]) /\ FromSecret(e, s, dhs, x.state, other)
<1> DEFINE k == pairs[h]
           prekey == [from |-> h, ek |-> k + 1, opk |-> IF Prekeys > 0 THEN 1 ELSE Null]
           s == {<<h, k + 1>>, Spk(p)}
                  \cup (IF prekey.opk = Null THEN {} ELSE {<<p, prekey.opk>>})
           dhs == <<h, k + 2>>
<1>1. x.prekey = prekey /\ x.state = InitSender(Secret(prekey, p), dhs, Spk(p))
  BY DEF Initiate
<1>2. prekey.from = h /\ prekey.ek = k + 1 /\ prekey.opk = (IF Prekeys > 0 THEN 1 ELSE Null)
  OBVIOUS
<1>3. Secret(prekey, p) = <<s>>
  BY DEF Secret
<1> HIDE DEF prekey
<1>4. k \in Nat /\ pr2[h] \in Nat /\ pr2[p] \in Nat /\ pr2[h] = k + 2 /\ pairs[p] <= pr2[p]
      /\ pairs[p] \in Nat /\ pairs[p] >= Prekeys /\ Prekeys \in Nat
  BY MessagingBounds DEF Counters, Later, MessagingBounds
<1> HIDE DEF k
<1>5. \A pair \in s : \/ pair = <<h, k + 1>> \/ pair = <<p, 0>>
                      \/ pair = <<p, 1>> /\ Prekeys > 0
  BY <1>2 DEF Spk
<1>6. <<h, k + 1>> \in s /\ Spk(p) \in s
  OBVIOUS
<1> HIDE DEF s
<1>7. s \in SUBSET Pair /\ dhs \in Pair /\ dhs[1] = h /\ dhs[2] = k + 2
  BY <1>4, <1>5 DEF Pair
<1>8. IsOrigin(h, p, s)
  <2>1. \A pair \in s : pair[1] = p \/ (pair[1] = h /\ pair[2] > 0)
    BY <1>4, <1>5
  <2>2. \E pair \in s : pair[1] = h
    BY <1>6
  <2> QED
    BY <1>6, <1>7, <2>1, <2>2 DEF IsOrigin
<1>9. Generated(e, s, dhs, pr2[h], pr2[p])
  <2>1. \A pair \in s : /\ pair[1] = h => pair[2] <= pr2[h]
                        /\ pair[1] = p => pair[2] <= pr2[p]
    BY <1>4, <1>5
  <2>2. e.first[2] <= pr2[p] /\ e.first[1] = p /\ dhs[2] <= pr2[h]
    BY <1>4, <1>7 DEF Spk
  <2> QED
    BY <1>7, <2>1, <2>2 DEF Generated
<1> HIDE DEF dhs
<1>10. FromSecret(e, s, dhs, x.state, InitReceiver(<<s>>, e.first))
  BY <1>1, <1>3 DEF FromSecret
<1>11. Secret(x.prekey, p) = <<s>>
  BY <1>1, <1>3
<1> QED
  BY <1>7, <1>8, <1>9, <1>10, <1>11

\* The first message to p: the session is new, and the letter carries the prekey message.
WritesFirst(h, p, x, r, v) ==
  /\ sessions[h][p] = Null /\ <<h, p>> \in Starts
  /\ x = Initiate(h, p) /\ r = Encrypt(x.state)
  /\ Replaced(sessions, h, p, r.st, sessions') /\ Counted(h)
  /\ pairs' \in [Member -> Nat] /\ Later(pairs, pairs') /\ pairs'[h] = pairs[h] + 2
  /\ v.from = h /\ v.to = p /\ v.msg = r.msg /\ v.prekey = x.prekey

LEMMA SendingFirst ==
  ASSUME NullIsNoSession, OneDirection, TalkInv, NEW h \in Member, NEW p \in Member, h # p,
         NEW x, NEW r, NEW v, WritesFirst(h, p, x, r, v)
  PROVE  Extends(h, p, v)
<1>0. /\ sessions[h][p] = Null /\ <<h, p>> \in Starts
      /\ x = Initiate(h, p) /\ r = Encrypt(x.state)
      /\ Replaced(sessions, h, p, r.st, sessions') /\ Counted(h)
      /\ v.from = h /\ v.to = p /\ v.msg = r.msg /\ v.prekey = x.prekey
  BY DEF WritesFirst
<1>a. pairs' \in [Member -> Nat] /\ Later(pairs, pairs') /\ pairs'[h] = pairs[h] + 2
  BY DEF WritesFirst
<1>b. PICK z : z = x.state
  OBVIOUS
<1>1. PICK e : e = [me |-> h, peer |-> p, side |-> 0, first |-> Spk(p), base |-> 1]
  OBVIOUS
<1>2. e \in End /\ e.me = h /\ e.peer = p /\ e.side = 0 /\ e.first = Spk(p) /\ e.base = 1
  BY <1>1 DEF End, Pair, Spk
<1>3. Counters /\ pairs \in [Member -> Nat] /\ encrypted \in [Member -> Nat]
      /\ Together(sessions, Written, opened, pairs, encrypted)
  BY DEF TalkInv, Counters
<1>4a. PICK s \in SUBSET Pair, dhs \in Pair : \E other :
        /\ Secret(x.prekey, p) = <<s>> /\ IsOrigin(h, p, s)
        /\ Generated(e, s, dhs, pairs'[h], pairs'[p])
        /\ FromSecret(e, s, dhs, z, other)
  BY <1>0, <1>2, <1>3, <1>a, <1>b, InitiateFacts
<1>4. PICK other :
        /\ Secret(x.prekey, p) = <<s>> /\ IsOrigin(h, p, s)
        /\ Generated(e, s, dhs, pairs'[h], pairs'[p])
        /\ FromSecret(e, s, dhs, z, other)
  BY <1>4a
<1>5. sessions[p][h] = Null
  <2>1. <<p, h>> \notin Starts
    BY <1>0 DEF OneDirection
  <2>2. saved[h][p] = Null
    BY <1>0 DEF TalkInv
  <2> QED
    BY <2>1, <2>2 DEF TalkInv, PeerInv, Descends
<1>6. Unwritten(sessions, e)
  BY <1>0, <1>2, <1>5 DEF Unwritten
<1>8. AllBelong(sessions, Written) /\ opened \subseteq Written
  BY DEF TalkInv, Addressed, AllBelong, Written
<1>9. PICK t : t = Put(sessions, h, p, z)
  OBVIOUS
<1>10. Replaced(sessions, h, p, z, t)
  BY <1>9, Entry DEF TalkInv, PeerInv, Tables
<1>11. Initiates(sessions, e, s, dhs, z, other, pairs', t)
  BY <1>2, <1>4, <1>6, <1>10 DEF Initiates
<1>12. /\ Together(t, Written, opened, pairs', encrypted) /\ e \in Engaged(t)
       /\ z # Null /\ z.cks # Null /\ Origin(z) = s
  <2>1. e \in End /\ pairs' \in [Member -> Nat] /\ Later(pairs, pairs')
    BY <1>2, <1>a
  <2> QED
    BY <1>3, <1>8, <1>11, <2>1, BeginningTogether
<1>13. Replaced(t, h, p, r.st, sessions')
  BY <1>0, <1>10 DEF Replaced
<1>14. t[h][p] = z
  BY <1>10 DEF Replaced
<1>15. encrypted' \in [Member -> Nat]
  BY <1>0 DEF Counted
<1>16. Writes(t, e, z, r, v, encrypted, sessions', encrypted')
  BY <1>0, <1>2, <1>12, <1>13, <1>14, <1>b DEF Writes, Counted
<1>17. /\ Together(sessions', Written \cup {v}, opened, pairs', encrypted')
       /\ r.st # Null /\ Origin(r.st) = Origin(z) /\ r.msg \notin Said(Written, e)
  <2>1. pairs' \in [Member -> Nat] /\ encrypted \in [Member -> Nat]
    BY <1>3, <1>a
  <2>2. Together(t, Written, opened, pairs', encrypted) /\ e \in Engaged(t)
    BY <1>12
  <2> QED
    BY <1>15, <1>16, <2>1, <2>2, SendingTogether
<1>18. Grows(sessions, sessions')
  BY <1>0, <1>17, ReplacedGrows
<1>19. Origins'
  BY <1>0, <1>4, <1>12, <1>17, <1>18, OriginsKeep DEF TalkInv
<1>20. Belongs(sessions', v)
  <2>1. sessions'[h][p] = r.st
    BY <1>0 DEF Replaced
  <2>2. Wrote(sessions', h, p)
    BY <1>0, <1>17, <2>1 DEF Wrote
  <2>3. Secret(v.prekey, p) = <<Origin(sessions'[h][p])>>
    BY <1>0, <1>4, <1>12, <1>17, <2>1
  <2> QED
    BY <1>0, <2>2, <2>3 DEF Belongs
<1>21. \A y \in Written : y.from = h /\ y.to = p => y.msg # v.msg
  BY <1>0, <1>2, <1>17 DEF Said
<1> QED
  BY <1>17, <1>18, <1>19, <1>20, <1>21 DEF Extends

-----------------------------------------------------------------------------
\* A step that moves envelopes, or loses some that nobody opened.
Quiet ==
  /\ UNCHANGED <<sessions, saved, pairs, encrypted, opened>>
  /\ OnePlace' /\ Written' \subseteq Written

\* Moving envelopes, and losing them, leaves the two ends together.
LEMMA QuietKeeps ==
  ASSUME TalkInv, Quiet, PeerInv'
  PROVE  TalkInv'
<1>1. /\ sessions' = sessions /\ saved' = saved /\ pairs' = pairs
      /\ encrypted' = encrypted /\ opened' = opened
      /\ OnePlace' /\ Written' \in SUBSET Written
  BY DEF Quiet
<1>2. /\ sessions = saved /\ Counters /\ Origins /\ Addressed /\ Distinct(Written)
      /\ Together(sessions, Written, opened, pairs, encrypted)
  BY DEF TalkInv
<1>3. pairs \in [Member -> Nat] /\ encrypted \in [Member -> Nat]
  BY <1>2 DEF Counters
<1>4. opened \subseteq Written'
  BY <1>1 DEF Written
<1>5. PICK less : less = Written'
  OBVIOUS
<1>6. Together(sessions, less, opened, pairs, encrypted)
  <2>1. less \in SUBSET Written /\ opened \subseteq less
    BY <1>1, <1>4, <1>5
  <2> QED
    BY <1>2, <1>3, <2>1, TogetherLess
<1>7. Together(sessions', Written', opened', pairs', encrypted')
  BY <1>1, <1>5, <1>6
<1>8. Counters'
  BY <1>1, <1>2 DEF Counters
<1>9. Origins'
  BY <1>1, <1>2 DEF Origins, Wrote, Origin, IsOrigin, Spk
<1>10. Addressed'
  <2> SUFFICES /\ \A l \in Written' : /\ Belongs(sessions', l)
                                      /\ l.nr \in Nat /\ l.nr < encrypted'[l.from]
               /\ \A l \in opened' : sessions'[l.to][l.from] # Null
    BY DEF Addressed
  <2>1. \A l \in Written' : l \in Written
    BY <1>1
  <2> QED
    BY <1>1, <1>2, <2>1 DEF Addressed
<1>11. Distinct(Written')
  BY <1>1, <1>2 DEF Distinct
<1> QED
  BY <1>1, <1>2, <1>7, <1>8, <1>9, <1>10, <1>11 DEF TalkInv

\* The relay and the outbox only move envelopes, and a restart only loses the one of
\* the send it interrupts (transport.js:248-282, 316-323).
LEMMA QuietSteps ==
  ASSUME TalkInv, NEW h \in Member,
         \/ Posted(h) \/ Held(h) \/ DropUnusable(h) \/ Restart(h)
         \/ \E b \in outbox[h] : Flush(h, b)
  PROVE  TalkInv'
<1>1. PeerInv /\ OnePlace /\ sessions = saved
  BY DEF TalkInv
<1>2. CASE Posted(h)
  <2>1. PeerInv'
    BY <1>1, <1>2, PostedMoves, MovesKeeps
  <2>2. Quiet
    BY <1>1, <1>2, PostedPlaces DEF Quiet, Posted
  <2> QED
    BY <2>1, <2>2, QuietKeeps
<1>3. CASE Held(h)
  <2>1. PeerInv'
    BY <1>1, <1>3, HeldMoves, MovesKeeps
  <2>2. Quiet
    BY <1>1, <1>3, HeldPlaces DEF Quiet, Held
  <2> QED
    BY <2>1, <2>2, QuietKeeps
<1>4. CASE DropUnusable(h)
  <2>1. PeerInv'
    BY <1>1, <1>4, DropMoves, MovesKeeps
  <2>2. Quiet
    BY <1>1, <1>4, TakenPlaces DEF Quiet, DropUnusable
  <2> QED
    BY <2>1, <2>2, QuietKeeps
<1>5. CASE \E b \in outbox[h] : Flush(h, b)
  <2> PICK b \in outbox[h] : Flush(h, b)
    BY <1>5
  <2>1. PeerInv'
    BY <1>1, FlushMoves, MovesKeeps
  <2>2. Quiet
    BY <1>1, FlushPlaces DEF Quiet, Flush
  <2> QED
    BY <2>1, <2>2, QuietKeeps
<1>6. CASE Restart(h)
  <2>1. PeerInv'
    BY <1>1, <1>6, RestartKeepsPeers
  <2>2. /\ sessions' = [sessions EXCEPT ![h] = saved[h]]
        /\ sending' = [sending EXCEPT ![h] = Null]
        /\ UNCHANGED <<saved, pairs, outbox, mail, encrypted, opened>>
    BY <1>6 DEF Restart
  <2>3. sessions' = sessions
    <3>1. IsTable(sessions)
      BY <1>1 DEF PeerInv, Tables
    <3> QED
      BY <1>1, <2>2, <3>1 DEF IsTable
  <2>4. \A g \in Member : sending'[g] # Null => sending'[g] = sending[g]
    BY <1>1, <2>2 DEF PeerInv, Letters
  <2>5. OnePlace'
    BY <1>1, <2>2, <2>4 DEF OnePlace
  <2>6. Written' \subseteq Written
    <3> SUFFICES ASSUME NEW l \in OnTheirWay(sending', outbox', mail')
                 PROVE  l \in OnTheirWay(sending, outbox, mail)
      BY <2>2 DEF Written
    <3>1. PICK g \in Member : \/ sending'[g] # Null /\ l = sending'[g]
                              \/ l \in outbox'[g] \/ l \in ToSet(mail'[g])
      BY Places
    <3>2. \E q \in Member : \/ sending[q] # Null /\ l = sending[q]
                            \/ l \in outbox[q] \/ l \in ToSet(mail[q])
      BY <2>2, <2>4, <3>1
    <3> QED
      BY <3>2, Places
  <2>7. Quiet
    BY <2>2, <2>3, <2>5, <2>6 DEF Quiet
  <2> QED
    BY <2>1, <2>7, QuietKeeps
<1> QED
  BY <1>2, <1>3, <1>4, <1>5, <1>6

\* The envelope of a new send is in one place.
LEMMA SendPlaces ==
  ASSUME PeerInv, OnePlace, NEW h \in Member, NEW v, v \notin Written,
         sending' = [sending EXCEPT ![h] = v], UNCHANGED <<outbox, mail, opened>>
  PROVE  OnePlace' /\ Written' \subseteq Written \cup {v}
<1>1. \A g \in Member : sending'[g] # Null => sending'[g] = v \/ sending'[g] = sending[g]
  BY DEF PeerInv, Letters
<1>2. \A g \in Member : v \notin outbox[g] /\ v \notin ToSet(mail[g]) /\ v \notin opened
  BY Places DEF Written
<1>3. OnePlace'
  BY <1>1, <1>2 DEF OnePlace
<1>4. Written' \subseteq Written \cup {v}
  <2> SUFFICES ASSUME NEW l \in OnTheirWay(sending', outbox', mail'), l # v
               PROVE  l \in OnTheirWay(sending, outbox, mail)
    BY DEF Written
  <2>1. PICK g \in Member : \/ sending'[g] # Null /\ l = sending'[g]
                            \/ l \in outbox'[g] \/ l \in ToSet(mail'[g])
    BY Places
  <2>2. \E q \in Member : \/ sending[q] # Null /\ l = sending[q]
                          \/ l \in outbox[q] \/ l \in ToSet(mail[q])
    BY <1>1, <2>1
  <2> QED
    BY <2>2, Places
<1> QED
  BY <1>3, <1>4

\* What the conversations gain by a send, and the places of the envelopes.
Posts(h, p, v) ==
  /\ Extends(h, p, v) /\ Counted(h) /\ encrypted'[h] <= MaxSend
  /\ pairs' \in [Member -> Nat] /\ Later(pairs, pairs') /\ sessions' = saved'
  /\ v.from = h /\ v.to = p /\ v.nr = encrypted[h]
  /\ sending' = [sending EXCEPT ![h] = v] /\ UNCHANGED <<outbox, mail, opened>>
  /\ \A g \in Member : g # h => encrypted'[g] = encrypted[g]

LEMMA PostsKeeps ==
  ASSUME TalkInv, NEW h \in Member, NEW p \in Member, NEW v, Posts(h, p, v), PeerInv'
  PROVE  TalkInv'
<1>1. /\ Together(sessions', Written \cup {v}, opened, pairs', encrypted')
      /\ Grows(sessions, sessions') /\ Origins' /\ Belongs(sessions', v)
      /\ \A y \in Written : y.from = h /\ y.to = p => y.msg # v.msg
  BY DEF Posts, Extends
<1>2. /\ pairs' \in [Member -> Nat] /\ \A g \in Member : pairs[g] <= pairs'[g]
      /\ encrypted' \in [Member -> Nat] /\ encrypted'[h] = encrypted[h] + 1
      /\ encrypted'[h] <= MaxSend
      /\ \A g \in Member : g # h => encrypted'[g] = encrypted[g]
  BY DEF Posts, Counted, Later
<1>3. /\ sessions' = saved' /\ v.from = h /\ v.to = p /\ v.nr = encrypted[h]
      /\ sending' = [sending EXCEPT ![h] = v] /\ UNCHANGED <<outbox, mail, opened>>
  BY DEF Posts
<1>4. /\ PeerInv /\ Counters /\ Addressed /\ OnePlace /\ Distinct(Written)
  BY DEF TalkInv
<1>5. /\ \A g \in Member : /\ pairs[g] \in Nat /\ encrypted[g] \in Nat
                           /\ pairs[g] >= Prekeys /\ encrypted[g] <= MaxSend
      /\ Prekeys \in Nat /\ MaxSend \in Nat
  BY <1>4, MessagingBounds DEF Counters, MessagingBounds
<1>6. Counters'
  BY <1>2, <1>5 DEF Counters
<1>7. v \notin Written
  BY <1>3, <1>4, <1>5 DEF Addressed
<1>8. OnePlace' /\ Written' \subseteq Written \cup {v}
  BY <1>3, <1>4, <1>7, SendPlaces
<1>9. opened \subseteq Written' /\ opened' = opened
  BY <1>3 DEF Written
<1>10. Together(sessions', Written', opened', pairs', encrypted')
  <2>1. PICK less : less = Written'
    OBVIOUS
  <2>2. PICK all : all = Written \cup {v}
    OBVIOUS
  <2>3. PICK t : t = sessions'
    OBVIOUS
  <2>4. PICK pr : pr = pairs'
    OBVIOUS
  <2>5. PICK en : en = encrypted'
    OBVIOUS
  <2>6. /\ less \in SUBSET all /\ opened \subseteq less /\ Together(t, all, opened, pr, en)
        /\ pr \in [Member -> Nat] /\ en \in [Member -> Nat]
    BY <1>1, <1>2, <1>8, <1>9, <2>1, <2>2, <2>3, <2>4, <2>5
  <2>7. Together(t, less, opened, pr, en)
    BY <2>6, TogetherLess
  <2> QED
    BY <1>9, <2>1, <2>3, <2>4, <2>5, <2>7
<1>11. Addressed'
  <2> SUFFICES /\ \A l \in Written' : /\ Belongs(sessions', l)
                                      /\ l.nr \in Nat /\ l.nr < encrypted'[l.from]
               /\ \A l \in opened' : sessions'[l.to][l.from] # Null
    BY DEF Addressed
  <2>1. ASSUME NEW l \in Written, Belongs(sessions, l), l.nr \in Nat, l.nr < encrypted[l.from]
        PROVE  Belongs(sessions', l) /\ l.nr < encrypted'[l.from]
    <3>1. Belongs(sessions', l)
      BY <1>1, <2>1, BelongsGrows
    <3>2. l.from \in Member
      BY <2>1 DEF Belongs
    <3>3. l.nr < encrypted'[l.from]
      BY <1>2, <1>5, <2>1, <3>2
    <3> QED
      BY <3>1, <3>3
  <2>2. Belongs(sessions', v) /\ v.nr \in Nat /\ v.nr < encrypted'[v.from]
    BY <1>1, <1>2, <1>3, <1>5
  <2>3. ASSUME NEW l \in opened PROVE sessions'[l.to][l.from] # Null
    <3>1. Belongs(sessions, l) /\ sessions[l.to][l.from] # Null
      BY <1>4 DEF Addressed, Written
    <3>2. l.from \in Member /\ l.to \in Member
      BY <3>1 DEF Belongs
    <3> QED
      BY <1>1, <3>1, <3>2 DEF Grows
  <2>4. \A l \in Written : Belongs(sessions, l) /\ l.nr \in Nat /\ l.nr < encrypted[l.from]
    BY <1>4 DEF Addressed
  <2>5. \A l \in Written' : l \in Written \/ l = v
    BY <1>8
  <2> QED
    BY <1>9, <2>1, <2>2, <2>3, <2>4, <2>5
<1>12. Distinct(Written')
  <2> SUFFICES ASSUME NEW l \in Written', NEW m \in Written',
                      l.from = m.from, l.to = m.to, l.msg = m.msg
               PROVE  l = m
    BY DEF Distinct
  <2>1. (l \in Written \/ l = v) /\ (m \in Written \/ m = v)
    BY <1>8
  <2> QED
    BY <1>1, <1>3, <1>4, <2>1 DEF Distinct
<1> QED
  BY <1>1, <1>3, <1>6, <1>8, <1>10, <1>11, <1>12 DEF TalkInv

\* send keeps the two ends together (transport.js:215-233).
LEMMA SendTalks ==
  ASSUME NullIsNoSession, OneDirection, TalkInv, NEW h \in Member, NEW p \in Member \ {h},
         Send(h, p)
  PROVE  TalkInv'
<1> DEFINE letter(x, msg) ==
             [from |-> h, to |-> p, nr |-> encrypted[h],
              prekey |-> IF sessions[h][p] = Null THEN x.prekey ELSE Null, msg |-> msg]
<1>1. PICK x : x = Initiate(h, p)
  OBVIOUS
<1>2. PICK st : st = IF sessions[h][p] = Null THEN x.state ELSE sessions[h][p]
  OBVIOUS
<1>3. PICK r : r = Encrypt(st)
  OBVIOUS
<1>4. /\ sessions[h][p] = Null => <<h, p>> \in Starts
      /\ encrypted[h] < MaxSend /\ st.cks # Null
      /\ sessions' = [sessions EXCEPT ![h][p] = r.st]
      /\ saved' = [saved EXCEPT ![h][p] = r.st]
      /\ pairs' = [pairs EXCEPT ![h] = IF sessions[h][p] = Null THEN @ + 2 ELSE @]
      /\ sending' = [sending EXCEPT ![h] = letter(x, r.msg)]
      /\ encrypted' = [encrypted EXCEPT ![h] = @ + 1]
      /\ UNCHANGED <<outbox, mail, opened>>
  BY <1>1, <1>2, <1>3 DEF Send, Persisted
<1>5. PICK v : /\ v.from = h /\ v.to = p /\ v.nr = encrypted[h] /\ v.msg = r.msg
               /\ v.prekey = (IF sessions[h][p] = Null THEN x.prekey ELSE Null)
               /\ sending' = [sending EXCEPT ![h] = v]
  <2>1. PICK w : w = letter(x, r.msg)
    OBVIOUS
  <2>2. /\ w.from = h /\ w.to = p /\ w.nr = encrypted[h] /\ w.msg = r.msg
        /\ w.prekey = (IF sessions[h][p] = Null THEN x.prekey ELSE Null)
    BY <2>1
  <2> HIDE DEF letter
  <2> QED
    BY <1>4, <2>1, <2>2
<1> HIDE DEF letter
<1>6. /\ PeerInv /\ sessions = saved
      /\ pairs \in [Member -> Nat] /\ encrypted \in [Member -> Nat] /\ MaxSend \in Nat
  BY MessagingBounds DEF TalkInv, Counters, MessagingBounds
<1>7. Replaced(sessions, h, p, r.st, sessions') /\ sessions' = saved'
  <2>1. sessions' = Put(sessions, h, p, r.st) /\ IsTable(sessions)
    BY <1>4, <1>6 DEF Put, PeerInv, Tables
  <2>2. sessions' = saved'
    BY <1>4, <1>6
  <2> QED
    BY <2>1, <2>2, Entry
<1>8. /\ Counted(h) /\ encrypted'[h] <= MaxSend
      /\ \A g \in Member : g # h => encrypted'[g] = encrypted[g]
  <2>1. /\ encrypted' \in [Member -> Nat] /\ encrypted'[h] = encrypted[h] + 1
        /\ \A g \in Member : g # h => encrypted'[g] = encrypted[g]
        /\ \A g \in Member : encrypted[g] <= encrypted'[g]
    BY <1>4, <1>6
  <2>2. encrypted'[h] <= MaxSend
    BY <1>4, <1>6, <2>1
  <2> QED
    BY <2>1, <2>2 DEF Counted, Later
<1>9. pairs' \in [Member -> Nat] /\ Later(pairs, pairs')
  BY <1>4, <1>6 DEF Later
<1>10. Extends(h, p, v)
  <2>1. CASE sessions[h][p] = Null
    <3>1. pairs'[h] = pairs[h] + 2
      BY <1>4, <1>6, <2>1
    <3>2. WritesFirst(h, p, x, r, v)
      BY <1>1, <1>2, <1>3, <1>4, <1>5, <1>7, <1>8, <1>9, <2>1, <3>1 DEF WritesFirst
    <3> QED
      BY <3>2, SendingFirst
  <2>2. CASE sessions[h][p] # Null
    <3>1. st = sessions[h][p] /\ st # Null /\ st.cks # Null /\ v.prekey = Null
      BY <1>2, <1>4, <1>5, <2>2
    <3>2. pairs' = pairs
      BY <1>4, <1>6, <2>2
    <3>3. v.from = h /\ v.to = p /\ v.msg = r.msg
      BY <1>5
    <3> QED
      BY <1>3, <1>7, <1>8, <3>1, <3>2, <3>3, SendingOn
  <2> QED
    BY <2>1, <2>2
<1>11. PeerInv'
  BY <1>6, SendKeeps
<1>12. Posts(h, p, v)
  BY <1>4, <1>5, <1>7, <1>8, <1>9, <1>10 DEF Posts
<1> QED
  BY <1>11, <1>12, PostsKeeps

-----------------------------------------------------------------------------
\* A member encrypts no more messages than skipMessageKeys is willing to skip: a
\* message that lies further ahead is refused (ratchet.js:10, 79).
SkipsSuffice == MaxSend <= MAX_SKIP

\* The envelope at the head of a queue, and the end of the conversation it is for.
ArrivesAt(h, b, e) ==
  /\ b \in Written /\ b \notin opened /\ b.to = h /\ Belongs(sessions, b)
  /\ e \in Engaged(sessions) /\ e.me = h /\ e.peer = b.from

LEMMA Arriving ==
  ASSUME TalkInv, NEW h \in Member, mail[h] # <<>>, NEW b, b = Head(mail[h])
  PROVE  \E e : ArrivesAt(h, b, e)
<1>1. b \in ToSet(mail[h])
  BY Dequeueing, mail[h] # <<>> DEF TalkInv, PeerInv, Queues, ToSet
<1>2. b \in Written /\ b \notin opened
  BY <1>1, Places DEF Written, TalkInv, OnePlace
<1>3. b.to = h /\ Belongs(sessions, b)
  BY <1>1, <1>2, LetterFacts DEF TalkInv, Addressed
<1>4. b.from \in Member /\ b.from # h /\ (Wrote(sessions, h, b.from) \/ Wrote(sessions, b.from, h))
  BY <1>3 DEF Belongs
<1>5. PICK e \in Engaged(sessions) : e.me = h /\ e.peer = b.from
  BY <1>4, HasEnd
<1> QED
  BY <1>2, <1>3, <1>5 DEF ArrivesAt

\* The session an envelope is opened with is the one at its end: the one there is, or
\* the one the prekey message makes.
LEMMA SessionAtEnd ==
  ASSUME OneDirection, TalkInv, NEW h \in Member, NEW b, NEW e, ArrivesAt(h, b, e), Usable(h, b)
  PROVE  /\ SessionFor(h, b) = At(sessions, e)
         /\ sessions[h][b.from] = Null => <<h, b.from>> \notin Starts
<1>1. /\ b.to = h /\ Belongs(sessions, b) /\ e \in Engaged(sessions)
      /\ e.me = h /\ e.peer = b.from
  BY DEF ArrivesAt
<1>2. CASE sessions[h][b.from] # Null
  BY <1>1, <1>2 DEF SessionFor, At
<1>3. CASE sessions[h][b.from] = Null
  <2>1. b.prekey # Null
    BY <1>3 DEF Usable
  <2>2. Wrote(sessions, b.from, h) /\ Secret(b.prekey, h) = <<Origin(sessions[b.from][h])>>
    BY <1>1, <2>1 DEF Belongs
  <2>3. <<h, b.from>> \notin Starts
    BY <2>2 DEF Wrote, OneDirection
  <2>4. e.first = Spk(h)
    <3>1. ~Wrote(sessions, e.me, e.peer)
      BY <1>1, <1>3 DEF Wrote
    <3> QED
      BY <1>1, <3>1, BothEngaged
  <2>5. At(sessions, e) = InitReceiver(<<Origin(sessions[b.from][h])>>, Spk(h))
    BY <1>1, <1>3, <2>4 DEF At
  <2>6. SessionFor(h, b) = InitReceiver(Secret(b.prekey, h), Spk(h))
    BY <1>3 DEF SessionFor
  <2> QED
    BY <2>2, <2>3, <2>5, <2>6
<1> QED
  BY <1>2, <1>3

\* An envelope that arrives has not been opened, and no other carries its message.
LEMMA ArrivesOnce ==
  ASSUME SkipsSuffice, TalkInv, NEW h \in Member, NEW b, NEW e, ArrivesAt(h, b, e)
  PROVE  Arrives(Written, opened, encrypted, e, b)
<1>1. /\ b \in Written /\ b \notin opened /\ b.to = h
      /\ e \in Engaged(sessions) /\ e.me = h /\ e.peer = b.from
  BY DEF ArrivesAt
<1>2. e.peer \in Member /\ Other(e).me = e.peer /\ Other(e).peer = e.me
  BY <1>1, BothEngaged
<1>3. b.msg \notin Said(opened, Other(e))
  <2> SUFFICES ASSUME NEW y \in opened, y.from = b.from, y.to = h, y.msg = b.msg PROVE FALSE
    BY <1>1, <1>2 DEF Said
  <2>1. y = b
    BY <1>1 DEF TalkInv, Distinct, Written
  <2> QED
    BY <1>1, <2>1
<1>4. encrypted[e.peer] <= MAX_SKIP
  <2>1. encrypted[e.peer] \in Nat /\ encrypted[e.peer] <= MaxSend
    BY <1>2 DEF TalkInv, Counters
  <2>2. MaxSend \in Nat /\ MaxSend <= MAX_SKIP /\ MAX_SKIP \in Nat
    BY MessagingBounds, RatchetAssumption
       DEF MessagingBounds, SkipsSuffice, RatchetAssumption
  <2> QED
    BY <2>1, <2>2
<1> QED
  BY <1>1, <1>3, <1>4 DEF Arrives

\* What the conversations gain by an envelope that opens.
Receives(h, b, t, pr) ==
  /\ Together(t, Written, opened \cup {b}, pr, encrypted) /\ pr \in [Member -> Nat]
  /\ Later(pairs, pr) /\ Grows(sessions, t) /\ t[h][b.from] # Null

\* Decrypting the envelope, and putting the new session in its place.
Decoded(h, b, e, st, d, t, pr) ==
  /\ st = At(sessions, e) /\ d = Decrypt(st, b.msg, <<h, pairs[h] + 1>>)
  /\ sessions[h][b.from] # Null => st = sessions[h][b.from]
  /\ t = Put(sessions, h, b.from, d.st)
  /\ pr = [pairs EXCEPT ![h] = IF d.st.dhs = <<h, @ + 1>> THEN @ + 1 ELSE @]

LEMMA Decoding ==
  ASSUME NullIsNoSession, OneDirection, SkipsSuffice, TalkInv,
         NEW h \in Member, NEW b, NEW e, ArrivesAt(h, b, e),
         NEW st, NEW d, NEW t, NEW pr, Decoded(h, b, e, st, d, t, pr)
  PROVE  /\ d.ok /\ Replaced(sessions, h, b.from, d.st, t)
         /\ Receives(h, b, t, pr)
<1>1. /\ b.to = h /\ Belongs(sessions, b) /\ e \in Engaged(sessions)
      /\ e.me = h /\ e.peer = b.from
  BY DEF ArrivesAt
<1>2. /\ st = At(sessions, e) /\ d = Decrypt(st, b.msg, <<h, pairs[h] + 1>>)
      /\ sessions[h][b.from] # Null => st = sessions[h][b.from]
      /\ t = Put(sessions, h, b.from, d.st)
      /\ pr = [pairs EXCEPT ![h] = IF d.st.dhs = <<h, pairs[h] + 1>> THEN pairs[h] + 1 ELSE pairs[h]]
  BY DEF Decoded
<1>3. /\ pairs \in [Member -> Nat] /\ encrypted \in [Member -> Nat]
      /\ Together(sessions, Written, opened, pairs, encrypted) /\ IsTable(sessions)
  BY DEF TalkInv, Counters, PeerInv, Tables
<1>4. b.from \in Member
  BY <1>1 DEF Belongs
<1>5. Replaced(sessions, h, b.from, d.st, t)
  BY <1>2, <1>3, <1>4, Entry
<1>6. Arrives(Written, opened, encrypted, e, b)
  BY ArrivesOnce
<1>7. pr \in [Member -> Nat] /\ Later(pairs, pr)
  <2>1. PICK k \in Nat : k = IF d.st.dhs = <<h, pairs[h] + 1>> THEN pairs[h] + 1 ELSE pairs[h]
    BY <1>3
  <2>2. pairs[h] <= k /\ pr = [pairs EXCEPT ![h] = k]
    BY <1>2, <1>3, <2>1
  <2> QED
    BY <1>3, <2>2 DEF Later
<1>8. d.st.dhs = <<h, pairs[h] + 1>> => pr[h] = pairs[h] + 1
  BY <1>2, <1>3
<1>9. Generates(pairs, pr, e, d)
  BY <1>1, <1>7, <1>8 DEF Generates
<1>10. Replaced(sessions, e.me, e.peer, d.st, t)
  BY <1>1, <1>5
<1>11. Reads(sessions, Written, opened, pairs, encrypted, e, b, st, d, t, pr)
  BY <1>1, <1>2, <1>6, <1>9, <1>10 DEF Reads
<1>12. /\ d.ok /\ Together(t, Written, opened \cup {b}, pr, encrypted)
       /\ d.st # Null /\ Origin(d.st) = Origin(st)
  <2>1. PICK t0, L, G : t0 = sessions /\ L = Written /\ G = opened
    OBVIOUS
  <2>2. PICK p0, n0 : p0 = pairs /\ n0 = encrypted
    OBVIOUS
  <2>3. p0 \in [Member -> Nat] /\ n0 \in [Member -> Nat] /\ pr \in [Member -> Nat]
    BY <1>3, <1>7, <2>2
  <2>4. e \in Engaged(t0) /\ Together(t0, L, G, p0, n0)
    BY <1>1, <1>3, <2>1, <2>2
  <2>5. Reads(t0, L, G, p0, n0, e, b, st, d, t, pr)
    BY <1>11, <2>1, <2>2
  <2>6. /\ d.ok /\ Together(t, L, G \cup {b}, pr, n0)
        /\ d.st # Null /\ Origin(d.st) = Origin(st)
    BY <2>3, <2>4, <2>5, OpeningTogether, SMTT(30)
  <2> QED
    BY <2>1, <2>2, <2>6
<1>13. Grows(sessions, t)
  <2>1. sessions[h][b.from] # Null => Origin(d.st) = Origin(sessions[h][b.from])
    BY <1>2, <1>12
  <2> QED
    BY <1>4, <1>5, <1>12, <2>1, ReplacedGrows
<1>14. t[h][b.from] # Null
  BY <1>5, <1>12 DEF Replaced
<1> QED
  BY <1>5, <1>7, <1>12, <1>13, <1>14 DEF Receives

\* _onEnvelope: the envelope opens, and the two ends stay together (transport.js:310-332).
LEMMA OpenTalks ==
  ASSUME NullIsNoSession, OneDirection, SkipsSuffice, TalkInv, NEW h \in Member, Open(h)
  PROVE  TalkInv' /\ dropped' = dropped
<1>1. PICK b : b = Head(mail[h])
  OBVIOUS
<1>2. PICK st : st = SessionFor(h, b)
  OBVIOUS
<1>3. PICK d : d = Decrypt(st, b.msg, <<h, pairs[h] + 1>>)
  OBVIOUS
<1>4. /\ mail[h] # <<>> /\ Usable(h, b) /\ mail' = [mail EXCEPT ![h] = Tail(@)]
      /\ sessions' = [sessions EXCEPT ![h][b.from] = d.st]
      /\ saved' = SavedAfter(h, b, d)
      /\ pairs' = [pairs EXCEPT ![h] = IF d.st.dhs = <<h, @ + 1>> THEN @ + 1 ELSE @]
      /\ opened' = (IF d.ok THEN opened \cup {b} ELSE opened)
      /\ dropped' = (IF d.ok THEN dropped ELSE dropped \cup {b})
      /\ UNCHANGED <<sending, outbox, encrypted>>
  BY <1>1, <1>2, <1>3 DEF Open
<1>5. PICK e : ArrivesAt(h, b, e)
  BY <1>1, <1>4, Arriving
<1>6. st = At(sessions, e) /\ (sessions[h][b.from] = Null => <<h, b.from>> \notin Starts)
  BY <1>2, <1>4, <1>5, SessionAtEnd
<1>7. sessions[h][b.from] # Null => st = sessions[h][b.from]
  BY <1>2 DEF SessionFor
<1>8. PICK t : t = sessions'
  OBVIOUS
<1>9. PICK pr : pr = pairs'
  OBVIOUS
<1>10. Decoded(h, b, e, st, d, t, pr)
  <2>1. t = Put(sessions, h, b.from, d.st)
    BY <1>4, <1>8 DEF Put
  <2> QED
    BY <1>3, <1>4, <1>6, <1>7, <1>9, <2>1 DEF Decoded
<1>11. /\ d.ok /\ Replaced(sessions, h, b.from, d.st, t)
       /\ Receives(h, b, t, pr)
  BY <1>5, <1>10, Decoding
<1>12. /\ Together(t, Written, opened \cup {b}, pr, encrypted) /\ pr \in [Member -> Nat]
       /\ Later(pairs, pr) /\ Grows(sessions, t) /\ t[h][b.from] # Null
  BY <1>11 DEF Receives
<1>13. /\ PeerInv /\ sessions = saved /\ Counters /\ Origins /\ Addressed /\ OnePlace
       /\ Distinct(Written) /\ encrypted \in [Member -> Nat]
  BY DEF TalkInv, Counters
<1>14. opened' = opened \cup {b} /\ dropped' = dropped /\ saved' = sessions'
  BY <1>4, <1>11, <1>13 DEF SavedAfter, Persisted
<1>15. OnePlace' /\ Written' \subseteq Written
  BY <1>1, <1>4, <1>13, <1>14, TakenPlaces
<1>16. PeerInv'
  BY <1>13, OpenKeeps
<1>17. Together(sessions', Written', opened', pairs', encrypted')
  <2>1. PICK less : less = Written'
    OBVIOUS
  <2>2. PICK more : more = opened'
    OBVIOUS
  <2>3. less \in SUBSET Written /\ more \subseteq less
    BY <1>15, <2>1, <2>2 DEF Written
  <2>4. Together(t, Written, more, pr, encrypted)
    BY <1>12, <1>14, <2>2
  <2>5. Together(t, less, more, pr, encrypted)
    BY <1>12, <1>13, <2>3, <2>4, TogetherLess
  <2>6. encrypted' = encrypted
    BY <1>4
  <2> QED
    BY <1>8, <1>9, <2>1, <2>2, <2>5, <2>6
<1>18. Counters'
  <2>1. \A g \in Member : pr[g] >= Prekeys
    <3>1. \A g \in Member : pairs[g] \in Nat /\ pr[g] \in Nat /\ pairs[g] >= Prekeys /\ pairs[g] <= pr[g]
      BY <1>12, <1>13 DEF Counters, Later
    <3> QED
      BY <3>1, MessagingBounds DEF MessagingBounds
  <2> QED
    BY <1>4, <1>9, <1>12, <1>13, <2>1 DEF Counters
<1>19. Origins'
  <2>1. h \in Member /\ b.from \in Member
    BY <1>5 DEF ArrivesAt, Belongs
  <2>2. Replaced(sessions, h, b.from, d.st, sessions') /\ Grows(sessions, sessions')
    BY <1>8, <1>11, <1>12
  <2> QED
    BY <1>6, <1>13, <2>1, <2>2, OriginsKeep
<1>20. Addressed'
  <2> SUFFICES /\ \A l \in Written' : /\ Belongs(t, l)
                                      /\ l.nr \in Nat /\ l.nr < encrypted[l.from]
               /\ \A l \in opened' : t[l.to][l.from] # Null
    BY <1>4, <1>8 DEF Addressed
  <2>1. ASSUME NEW l \in Written' PROVE Belongs(t, l) /\ l.nr \in Nat /\ l.nr < encrypted[l.from]
    <3>1. Belongs(sessions, l) /\ l.nr \in Nat /\ l.nr < encrypted[l.from]
      BY <1>13, <1>15 DEF Addressed
    <3> QED
      BY <1>12, <3>1, BelongsGrows
  <2>2. ASSUME NEW l \in opened PROVE t[l.to][l.from] # Null
    <3>1. Belongs(sessions, l) /\ sessions[l.to][l.from] # Null
      BY <1>13 DEF Addressed, Written
    <3>2. l.from \in Member /\ l.to \in Member
      BY <3>1 DEF Belongs
    <3> QED
      BY <1>12, <3>1, <3>2 DEF Grows
  <2>3. b.to = h
    BY <1>5 DEF ArrivesAt
  <2> QED
    BY <1>12, <1>14, <2>1, <2>2, <2>3
<1>21. Distinct(Written')
  BY <1>13, <1>15 DEF Distinct
<1> QED
  BY <1>14, <1>15, <1>16, <1>17, <1>18, <1>19, <1>20, <1>21 DEF TalkInv

-----------------------------------------------------------------------------
\* The root of an end's session begins with the secret of the one who wrote first.
LEMMA RootBegins ==
  ASSUME NullIsNoSession, OneDirection, TalkInv, NEW e \in Engaged(sessions)
  PROVE  \/ /\ Wrote(sessions, e.me, e.peer)
            /\ At(sessions, e).rk[1] = Origin(sessions[e.me][e.peer])
         \/ /\ Wrote(sessions, e.peer, e.me)
            /\ At(sessions, e).rk[1] = Origin(sessions[e.peer][e.me])
<1>1. /\ e.me \in Member /\ e.peer \in Member
      /\ Wrote(sessions, e.me, e.peer) \/ Wrote(sessions, e.peer, e.me)
  BY BothEngaged
<1>2. CASE Wrote(sessions, e.me, e.peer)
  BY <1>2 DEF Wrote, At, Origin
<1>3. CASE Wrote(sessions, e.peer, e.me)
  <2>1. CASE sessions[e.me][e.peer] = Null
    <3>1. PICK s : s = Origin(sessions[e.peer][e.me])
      OBVIOUS
    <3>2. At(sessions, e) = InitReceiver(<<s>>, e.first)
      BY <2>1, <3>1 DEF At
    <3>3. InitReceiver(<<s>>, e.first).rk = <<s>> /\ <<s>>[1] = s
      BY DEF InitReceiver
    <3> QED
      BY <1>3, <3>1, <3>2, <3>3
  <2>2. CASE sessions[e.me][e.peer] # Null
    <3>1. <<e.me, e.peer>> \notin Starts
      BY <1>3 DEF Wrote, OneDirection
    <3>2. Origin(sessions[e.me][e.peer]) = Origin(sessions[e.peer][e.me])
      BY <1>1, <2>2, <3>1 DEF TalkInv, PeerInv, Descends
    <3> QED
      BY <1>3, <2>2, <3>2 DEF At, Origin
  <2> QED
    BY <1>3, <2>1, <2>2
<1> QED
  BY <1>1, <1>2, <1>3

\* So does the root a message was encrypted under.
LEMMA MessageBegins ==
  ASSUME NullIsNoSession, OneDirection, TalkInv, NEW l \in Written
  PROVE  \/ /\ Wrote(sessions, l.from, l.to)
            /\ l.msg.key.root[1] = Origin(sessions[l.from][l.to])
         \/ /\ Wrote(sessions, l.to, l.from)
            /\ l.msg.key.root[1] = Origin(sessions[l.to][l.from])
<1>1. Belongs(sessions, l)
  BY DEF TalkInv, Addressed
<1>2. PICK e \in Engaged(sessions) : e.me = l.from /\ e.peer = l.to
  BY <1>1, HasEnd DEF Belongs
<1>3. PICK st : st = At(sessions, e)
  OBVIOUS
<1>4. PICK out : out = Said(Written, e)
  OBVIOUS
<1>5. PICK m : m = l.msg
  OBVIOUS
<1>6. Own(e, st, out, pairs[e.me], encrypted[e.me])
  BY <1>3, <1>4 DEF TalkInv, Together, EndTogether
<1>7. m \in out
  BY <1>2, <1>4, <1>5 DEF Said
<1>8. e.base = 1 /\ e \in End
  BY BothEngaged
<1>9. Len(m.key.root) > 1 /\ Prefix(m.key.root, st.rk)
  BY <1>6, <1>7, <1>8 DEF Own
<1>10. Len(m.key.root) \in Nat
  BY <1>6, <1>7, <1>8, OwnFields
<1>11. m.key.root[1] = st.rk[1]
  BY <1>9, <1>10 DEF Prefix
<1> QED
  BY <1>2, <1>3, <1>5, <1>11, RootBegins

\* The secret of a conversation names its two members.
LEMMA OriginsDiffer ==
  ASSUME NEW s, NEW a, NEW b, NEW c, NEW d, a # b, IsOrigin(a, b, s), IsOrigin(c, d, s)
  PROVE  a = c /\ b = d
<1>1. b = d
  <2>1. Spk(b) \in s /\ \A pair \in s : pair[1] = d \/ (pair[1] = c /\ pair[2] > 0)
    BY DEF IsOrigin
  <2>2. Spk(b)[1] = b /\ Spk(b)[2] = 0
    BY DEF Spk
  <2>3. ~(0 > 0)
    OBVIOUS
  <2> QED
    BY <2>1, <2>2, <2>3
<1> QED
  BY <1>1 DEF IsOrigin

\* _onEnvelope gives up only where there is no session to the envelope's sender, and
\* then nobody has opened the prekey message that would have made one.
LEMMA DropIsOrphan ==
  ASSUME NullIsNoSession, OneDirection, TalkInv, NEW h \in Member, DropUnusable(h),
         NEW d \in dropped' \ dropped, NEW b \in opened, b.prekey # Null,
         b.msg.key.root[1] = d.msg.key.root[1]
  PROVE  FALSE
<1>1. d = Head(mail[h]) /\ mail[h] # <<>> /\ sessions[h][d.from] = Null
  BY DEF DropUnusable, Usable
<1>2. PICK e : ArrivesAt(h, d, e)
  BY <1>1, Arriving
<1>3. d \in Written /\ d.to = h /\ Belongs(sessions, d)
  BY <1>2 DEF ArrivesAt
<1>4. d.from \in Member /\ d.from # h
  BY <1>3 DEF Belongs
<1>5. /\ Wrote(sessions, d.from, h)
      /\ d.msg.key.root[1] = Origin(sessions[d.from][h])
  <2>1. ~Wrote(sessions, h, d.from)
    BY <1>1 DEF Wrote
  <2> QED
    BY <1>3, <2>1, MessageBegins
<1>6. b \in Written /\ Belongs(sessions, b) /\ sessions[b.to][b.from] # Null
  BY DEF TalkInv, Addressed, Written
<1>7. /\ b.from \in Member /\ b.to \in Member /\ b.from # b.to
      /\ Wrote(sessions, b.from, b.to)
  BY <1>6 DEF Belongs
<1>8. b.msg.key.root[1] = Origin(sessions[b.from][b.to])
  <2>1. ~Wrote(sessions, b.to, b.from)
    BY <1>7 DEF Wrote, OneDirection
  <2> QED
    BY <1>6, <2>1, MessageBegins
<1>9. PICK s : s = Origin(sessions[d.from][h])
  OBVIOUS
<1>10. IsOrigin(d.from, h, s) /\ IsOrigin(b.from, b.to, s)
  BY <1>4, <1>5, <1>7, <1>8, <1>9 DEF TalkInv, Origins
<1>11. d.from = b.from /\ h = b.to
  BY <1>4, <1>10, OriginsDiffer
<1> QED
  BY <1>1, <1>6, <1>11

\* Nothing was said yet.
LEMMA TalksBegin ==
  ASSUME NullIsNoSession, Init
  PROVE  TalkInv
<1>1. /\ sessions = [h \in Member |-> [p \in Member |-> Null]] /\ saved = sessions
      /\ pairs = [h \in Member |-> Prekeys] /\ encrypted = [h \in Member |-> 0]
      /\ sending = [h \in Member |-> Null] /\ outbox = [h \in Member |-> {}]
      /\ mail = [h \in Member |-> <<>>] /\ opened = {}
  BY DEF Init
<1>2. \A h, p \in Member : sessions[h][p] = Null
  BY <1>1
<1>3. PeerInv
  BY PeersBegin
<1>4. Prekeys \in Nat /\ MaxSend \in Nat
  BY MessagingBounds DEF MessagingBounds
<1>5. Counters
  BY <1>1, <1>4 DEF Counters
<1>6. Written = {}
  <2>1. \A h \in Member : ToSet(mail[h]) = {}
    BY <1>1 DEF ToSet
  <2>2. \A l : l \notin OnTheirWay(sending, outbox, mail)
    BY <1>1, <2>1, Places
  <2> QED
    BY <1>1, <2>2 DEF Written
<1>7. OnePlace
  BY <1>1 DEF OnePlace, ToSet
<1>8. Together(sessions, Written, opened, pairs, encrypted)
  <2>1. ASSUME NEW e \in Engaged(sessions) PROVE FALSE
    <3>1. /\ e.me \in Member /\ e.peer \in Member
          /\ Wrote(sessions, e.me, e.peer) \/ Wrote(sessions, e.peer, e.me)
      BY BothEngaged
    <3> QED
      BY <1>2, <3>1 DEF Wrote
  <2> QED
    BY <2>1 DEF Together
<1>9. Origins
  BY <1>2 DEF Origins, Wrote
<1>10. Addressed /\ Distinct(Written)
  BY <1>1, <1>6 DEF Addressed, Distinct
<1> QED
  BY <1>1, <1>3, <1>5, <1>7, <1>8, <1>9, <1>10 DEF TalkInv

\* Every step keeps the two ends together.
LEMMA TalksKeep ==
  ASSUME NullIsNoSession, OneDirection, SkipsSuffice, TalkInv, [Next]_vars
  PROVE  TalkInv'
<1>1. CASE UNCHANGED vars
  <2>1. Quiet
    BY <1>1 DEF vars, Quiet, TalkInv, OnePlace, Written, OnTheirWay, InHand, InBoxes
  <2>2. PeerInv'
    <3>1. Moves
      BY <1>1 DEF vars, Moves, TalkInv, PeerInv, Letters, Queues
    <3> QED
      BY <3>1, MovesKeeps DEF TalkInv
  <2> QED
    BY <2>1, <2>2, QuietKeeps
<1>2. CASE Next
  <2> PICK h \in Member : \/ \E p \in Member \ {h} : Send(h, p)
                          \/ Posted(h) \/ Held(h) \/ \E b \in outbox[h] : Flush(h, b)
                          \/ DropUnusable(h) \/ Open(h) \/ Restart(h)
    BY <1>2 DEF Next
  <2>1. CASE \E p \in Member \ {h} : Send(h, p)
    BY <2>1, SendTalks
  <2>2. CASE Open(h)
    BY <2>2, OpenTalks
  <2>3. CASE \/ Posted(h) \/ Held(h) \/ DropUnusable(h) \/ Restart(h)
             \/ \E b \in outbox[h] : Flush(h, b)
    BY <2>3, QuietSteps
  <2> QED
    BY <2>1, <2>2, <2>3
<1> QED
  BY <1>1, <1>2

(* The ratchet never refuses what the relay hands over: as long as nobody  *)
(* encrypts more than MAX_SKIP messages, every envelope for which there    *)
(* is, or can be made, a session opens, in whatever order the queue and    *)
(* the outbox bring them and whatever was lost or restarted before         *)
(* (ratchet.js:77-134, transport.js:310-332).                              *)
THEOREM WhatHasASessionOpens ==
  ASSUME NullIsNoSession, OneDirection, SkipsSuffice
  PROVE  Spec => [][\A h \in Member : Open(h) => dropped' = dropped]_vars
<1>1. ASSUME TalkInv, Next PROVE \A h \in Member : Open(h) => dropped' = dropped
  BY <1>1, OpenTalks
<1> QED
  BY TalksBegin, TalksKeep, <1>1, PTL DEF Spec

(* An envelope is lost on its recipient only when the one that carries the *)
(* prekey message of its session has not opened yet, whatever was          *)
(* restarted or reordered in between (transport.js:215-233, 310-332).      *)
THEOREM OnlyOrphansAreDropped ==
  ASSUME NullIsNoSession, OneDirection, SkipsSuffice
  PROVE  Spec => DropsAreOrphans
<1> DEFINE Orphans ==
      \A d \in dropped' \ dropped :
        ~\E b \in opened : b.prekey # Null /\ b.msg.key.root[1] = d.msg.key.root[1]
<1>1. ASSUME TalkInv, Next PROVE Orphans
  <2> PICK h \in Member : \/ \E p \in Member \ {h} : Send(h, p)
                          \/ Posted(h) \/ Held(h) \/ \E b \in outbox[h] : Flush(h, b)
                          \/ DropUnusable(h) \/ Open(h) \/ Restart(h)
    BY <1>1 DEF Next
  <2>1. CASE DropUnusable(h)
    BY <1>1, <2>1, DropIsOrphan
  <2>2. CASE Open(h)
    BY <1>1, <2>2, OpenTalks
  <2>3. CASE \/ \E p \in Member \ {h} : Send(h, p)
             \/ Posted(h) \/ Held(h) \/ Restart(h) \/ \E b \in outbox[h] : Flush(h, b)
    BY <2>3 DEF Send, Posted, Held, Restart, Flush
  <2> QED
    BY <2>1, <2>2, <2>3
<1> HIDE DEF Orphans
<1>2. TalkInv /\ [Next]_vars => [Orphans]_vars
  BY <1>1
<1>3. Spec => [][Orphans]_vars
  BY TalksBegin, TalksKeep, <1>2, PTL DEF Spec
<1> QED
  BY <1>3 DEF Orphans, DropsAreOrphans
=============================================================================
