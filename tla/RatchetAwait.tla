----------------------------- MODULE RatchetAwait -----------------------------
(***************************************************************************)
(* One app's session while several of its calls work on it                 *)
(* (client/crypto/ratchet.js: encrypt, decrypt, dhRatchet;                 *)
(* client/net/transport.js: send and _onEnvelope, which wait for nobody).  *)
(* DoubleRatchet has each operation in one step; here a call stops at every *)
(* await and the others go on with the same object.  The peer's calls do   *)
(* not overlap, and its envelopes and the app's arrive in order.           *)
(***************************************************************************)
EXTENDS DoubleRatchet, FiniteSets

CONSTANTS
  App, Other,
  Call,      \* calls that may run at once: an inbox round, a data channel, the
             \* user's sends
  MaxSend    \* bound: messages encrypted by the app, and by its peer

VARIABLES
  st,       \* the app's session object
  peer,     \* its peer's
  call,     \* call[c]: where call c stands, and what it holds
  out, in,  \* envelopes on their way to the peer, and to the app
  pairs,    \* ratchet pairs generated so far
  wrote,    \* how many messages the app and its peer have begun to encrypt
  \* History, read by the properties only.
  sent,     \* messages the app has encrypted, in the order they were finished
  failed    \* genuine messages that did not open at their end

vars == <<st, peer, call, out, in, pairs, wrote, sent, failed>>

Idle == [pc |-> "idle"]
At(c, pc) == call[c].pc = pc
GoesTo(c, r) == call' = [call EXCEPT ![c] = r]

TypeOK ==
  /\ st.ns \in Nat /\ st.nr \in Nat /\ peer.ns \in Nat /\ peer.nr \in Nat
  /\ \A c \in Call : call[c].pc \in
       {"idle", "kdfCk", "exportPub", "secret", "generate", "secret2", "skip",
        "cached", "open"}
  /\ pairs \in [{App, Other} -> Nat] /\ wrote \in [{App, Other} -> 0 .. MaxSend]
  /\ Len(sent) <= wrote[App]

\* The app has started the session, with its peer's signed prekey.
Init ==
  /\ st = InitSender(<<>>, <<App, 0>>, <<Other, 0>>)
  /\ peer = InitReceiver(<<>>, <<Other, 0>>)
  /\ call = [c \in Call |-> Idle]
  /\ out = <<>> /\ in = <<>>
  /\ pairs = [p \in {App, Other} |-> 0] /\ wrote = [p \in {App, Other} |-> 0]
  /\ sent = <<>> /\ failed = {}

-----------------------------------------------------------------------------
\* encrypt calls kdfCk on the sending chain.
StartEncrypt(c) ==
  /\ At(c, "idle") /\ st.cks # Null /\ wrote[App] < MaxSend
  /\ wrote' = [wrote EXCEPT ![App] = @ + 1]
  /\ GoesTo(c, [pc |-> "kdfCk", ck |-> st.cks])
  /\ UNCHANGED <<st, peer, out, in, pairs, sent, failed>>

\* encrypt stores the chain back, and exports the ratchet key of the moment.
StoreChain(c) ==
  /\ At(c, "kdfCk")
  /\ st' = [st EXCEPT !.cks = KdfCk(call[c].ck)]
  /\ GoesTo(c, [pc |-> "exportPub", ck |-> call[c].ck, dh |-> st.dhs])
  /\ UNCHANGED <<peer, out, in, pairs, wrote, sent, failed>>

\* encrypt fills in the header and seals; send hands the envelope over.
FinishEncrypt(c) ==
  /\ At(c, "exportPub")
  /\ LET m == [dh |-> call[c].dh, pn |-> st.pn, n |-> st.ns, key |-> call[c].ck]
     IN out' = Append(out, m) /\ sent' = Append(sent, m)
  /\ st' = [st EXCEPT !.ns = @ + 1]
  /\ GoesTo(c, Idle)
  /\ UNCHANGED <<peer, in, pairs, wrote, failed>>

-----------------------------------------------------------------------------
\* decrypt throws, or its key does not open the ciphertext.
Throws(c, m) ==
  /\ failed' = failed \cup {m} /\ GoesTo(c, Idle)

\* skipMessageKeys stops before message `until`: pn of the old chain, n of the new.
Until(m, next) == IF next = "ratchet" THEN m.pn ELSE m.n

\* Call c, with the session as in s, goes on with skipMessageKeys' loop or past
\* it: to dhRatchet up to its first secret, or to kdfCk for the message.
Resume(c, s, m, next) ==
  \/ /\ s.ckr # Null /\ s.nr < Until(m, next)
     /\ st' = s
     /\ GoesTo(c, [pc |-> "skip", msg |-> m, next |-> next, ck |-> s.ckr, of |-> s.dhr])
     /\ UNCHANGED failed
  \/ /\ s.ckr = Null \/ s.nr >= Until(m, next)
     /\ \/ /\ next = "ratchet"
           /\ st' = [s EXCEPT !.pn = s.ns, !.ns = 0, !.nr = 0, !.dhr = m.dh]
           /\ GoesTo(c, [pc |-> "secret", msg |-> m, rk |-> s.rk, dh |-> DH(s.dhs, m.dh)])
           /\ UNCHANGED failed
        \/ /\ next = "open" /\ s.ckr # Null
           /\ st' = s
           /\ GoesTo(c, [pc |-> "open", msg |-> m, ck |-> s.ckr])
           /\ UNCHANGED failed
        \/ /\ next = "open" /\ s.ckr = Null
           /\ st' = s /\ Throws(c, m)

\* decrypt, up to its first await.
StartDecrypt(c) ==
  /\ At(c, "idle") /\ in # <<>>
  /\ in' = Tail(in)
  /\ LET m == Head(in)
         next == IF st.dhr = m.dh THEN "open" ELSE "ratchet"
     IN \/ /\ <<m.dh, m.n>> \in DOMAIN st.skipped
           /\ GoesTo(c, [pc |-> "cached", msg |-> m, ck |-> st.skipped[<<m.dh, m.n>>]])
           /\ UNCHANGED <<st, failed>>
        \/ /\ <<m.dh, m.n>> \notin DOMAIN st.skipped
           /\ IF TooManySkipped(st, Until(m, next)) THEN Throws(c, m) /\ UNCHANGED st
                                                    ELSE Resume(c, st, m, next)
  /\ UNCHANGED <<peer, out, pairs, wrote, sent>>

\* skipMessageKeys puts one key aside.
SkipOne(c) ==
  /\ At(c, "skip")
  /\ LET k == <<call[c].of, st.nr>>
         s == [st EXCEPT !.ckr = KdfCk(call[c].ck), !.nr = @ + 1,
                         !.skipped = [j \in DOMAIN @ \cup {k} |-> IF j = k THEN call[c].ck ELSE @[j]]]
     IN Resume(c, s, call[c].msg, call[c].next)
  /\ UNCHANGED <<peer, out, in, pairs, wrote, sent>>

\* decrypt with a key that was put aside.
OpenCached(c) ==
  /\ At(c, "cached")
  /\ LET m == call[c].msg
     IN IF call[c].ck = m.key
          THEN /\ st' = [st EXCEPT !.skipped = [j \in DOMAIN @ \ {<<m.dh, m.n>>} |-> @[j]]]
               /\ GoesTo(c, Idle) /\ UNCHANGED failed
          ELSE Throws(c, m) /\ UNCHANGED st
  /\ UNCHANGED <<peer, out, in, pairs, wrote, sent>>

\* dhRatchet: the receiving chain.
ReceivingChain(c) ==
  /\ At(c, "secret")
  /\ LET rk == KdfRk(call[c].rk, call[c].dh)
     IN st' = [st EXCEPT !.rk = rk, !.ckr = Chain(rk)]
  /\ GoesTo(c, [pc |-> "generate", msg |-> call[c].msg])
  /\ UNCHANGED <<peer, out, in, pairs, wrote, sent, failed>>

\* dhRatchet: the new pair, and the call for its secret.
NewPair(c) ==
  /\ At(c, "generate")
  /\ pairs' = [pairs EXCEPT ![App] = @ + 1]
  /\ LET fresh == <<App, pairs[App] + 1>>
     IN /\ st' = [st EXCEPT !.dhs = fresh]
        /\ GoesTo(c, [pc |-> "secret2", msg |-> call[c].msg, rk |-> st.rk, dh |-> DH(fresh, st.dhr)])
  /\ UNCHANGED <<peer, out, in, wrote, sent, failed>>

\* dhRatchet: the sending chain; decrypt goes on in the new receiving chain.
SendingChain(c) ==
  /\ At(c, "secret2")
  /\ LET rk == KdfRk(call[c].rk, call[c].dh)
         m == call[c].msg
     IN IF TooManySkipped(st, m.n)
          THEN st' = [st EXCEPT !.rk = rk, !.cks = Chain(rk)] /\ Throws(c, m)
          ELSE Resume(c, [st EXCEPT !.rk = rk, !.cks = Chain(rk)], m, "open")
  /\ UNCHANGED <<peer, out, in, pairs, wrote, sent>>

\* decrypt stores the chain back and opens.
FinishDecrypt(c) ==
  /\ At(c, "open")
  /\ st' = [st EXCEPT !.ckr = KdfCk(call[c].ck), !.nr = @ + 1]
  /\ IF call[c].ck = call[c].msg.key THEN GoesTo(c, Idle) /\ UNCHANGED failed
                                     ELSE Throws(c, call[c].msg)
  /\ UNCHANGED <<peer, out, in, pairs, wrote, sent>>

-----------------------------------------------------------------------------
PeerSends ==
  /\ peer.cks # Null /\ wrote[Other] < MaxSend
  /\ wrote' = [wrote EXCEPT ![Other] = @ + 1]
  /\ peer' = Encrypt(peer).st
  /\ in' = Append(in, Encrypt(peer).msg)
  /\ UNCHANGED <<st, call, out, pairs, sent, failed>>

PeerReceives ==
  /\ out # <<>> /\ out' = Tail(out)
  /\ LET d == Decrypt(peer, Head(out), <<Other, pairs[Other] + 1>>)
     IN /\ peer' = d.st
        /\ pairs' = [pairs EXCEPT ![Other] = IF d.st.dhs = peer.dhs THEN @ ELSE @ + 1]
        /\ failed' = IF d.ok THEN failed ELSE failed \cup {Head(out)}
  /\ UNCHANGED <<st, call, in, wrote, sent>>

Next ==
  \/ \E c \in Call :
       \/ StartEncrypt(c) \/ StoreChain(c) \/ FinishEncrypt(c)
       \/ StartDecrypt(c) \/ SkipOne(c) \/ OpenCached(c) \/ ReceivingChain(c) \/ NewPair(c) \/ SendingChain(c)
       \/ FinishDecrypt(c)
  \/ PeerSends \/ PeerReceives

Spec == Init /\ [][Next]_vars

-----------------------------------------------------------------------------
(* README.md:37: "Every message gets a fresh key".  No two messages of the *)
(* app are sealed with the same one, whichever of its calls overlap.       *)
KeyPerMessage ==
  \A i, j \in 1 .. Len(sent) : sent[i].key = sent[j].key => i = j

(* Every genuine message opens, delivered in order.                        *)
AllOpen == failed = {}
===============================================================================
