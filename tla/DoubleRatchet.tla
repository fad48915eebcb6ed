---------------------------- MODULE DoubleRatchet ----------------------------
(***************************************************************************)
(* The Double Ratchet of client/crypto/ratchet.js as operators on session  *)
(* states.  Cryptography is symbolic:                                      *)
(*                                                                         *)
(*   - a ratchet key pair is a value; DH of two pairs is the set of both,  *)
(*     so the two ends compute the same secret and nobody else does;       *)
(*   - a root key is the sequence of secrets mixed into it;                *)
(*   - a chain key is the root it came from and the number of steps taken; *)
(*   - the message key a chain key yields is named by that chain key;      *)
(*   - a ciphertext opens exactly under the message key that sealed it.    *)
(*                                                                         *)
(* Operators return the new state, and Decrypt also whether the call       *)
(* returned or threw: a call that throws leaves the state as it was at the *)
(* throw, because the code updates it in place.                            *)
(***************************************************************************)
EXTENDS Integers, Sequences

CONSTANTS
  MAX_SKIP,  \* how many message keys one call may skip over
  Member,    \* those who generate key pairs
  Null       \* an absent key

Pair == Member \X Nat
ChainKey == [root : Seq(SUBSET Pair), step : Nat]

ASSUME RatchetAssumption == MAX_SKIP \in Nat /\ Null \notin Pair \cup ChainKey

DH(a, b) == {a, b}

\* kdfRk: the new root, which also names the chain that starts at it.
KdfRk(rk, dhOut) == Append(rk, dhOut)
Chain(rk) == [root |-> rk, step |-> 0]

\* kdfCk: the next chain key; the message key is the chain key it was called on.
KdfCk(ck) == [ck EXCEPT !.step = @ + 1]

NoSkipped == [k \in {} |-> Null]

InitSender(sk, dhs, theirPub) ==
  LET rk == KdfRk(sk, DH(dhs, theirPub))
  IN [dhs |-> dhs, dhr |-> theirPub, rk |-> rk, cks |-> Chain(rk), ckr |-> Null,
      ns |-> 0, nr |-> 0, pn |-> 0, skipped |-> NoSkipped]

InitReceiver(sk, ourPair) ==
  [dhs |-> ourPair, dhr |-> Null, rk |-> sk, cks |-> Null, ckr |-> Null,
   ns |-> 0, nr |-> 0, pn |-> 0, skipped |-> NoSkipped]

\* The definitions named Bug... are not the code: each is a mistake that could
\* have been made at the definition that follows it, and breaks a property.
BugDhRatchet(st, dh, fresh) ==
  LET rk1 == KdfRk(st.rk, DH(st.dhs, dh))
  IN [st EXCEPT !.pn = st.ns, !.ns = 0, !.nr = 0, !.dhr = dh, !.ckr = Chain(rk1),
                !.dhs = fresh, !.rk = KdfRk(rk1, DH(fresh, dh)), !.cks = Chain(rk1)]

\* dhRatchet: a receiving chain from the peer's new key, then a sending chain
\* from a fresh key of our own.
DhRatchet(st, dh, fresh) ==
  LET rk1 == KdfRk(st.rk, DH(st.dhs, dh))
      rk2 == KdfRk(rk1, DH(fresh, dh))
  IN [st EXCEPT !.pn = st.ns, !.ns = 0, !.nr = 0, !.dhr = dh,
                !.ckr = Chain(rk1), !.dhs = fresh, !.rk = rk2, !.cks = Chain(rk2)]

TooManySkipped(st, until) == st.ckr # Null /\ st.nr + MAX_SKIP < until

BugSkipMessageKeys(st, until) ==
  LET new == {<<st.dhs, n>> : n \in st.nr .. until - 1}
  IN IF st.ckr = Null \/ until <= st.nr
     THEN st
     ELSE [st EXCEPT
             !.skipped = [k \in new \cup DOMAIN @ |->
                            IF k \in new
                              THEN [st.ckr EXCEPT !.step = @ + (k[2] - st.nr)]
                              ELSE st.skipped[k]],
             !.ckr.step = @ + (until - st.nr),
             !.nr = until]

\* skipMessageKeys, when it does not throw: the keys of messages nr .. until-1
\* are put aside and the chain moves past them.
SkipMessageKeys(st, until) ==
  LET new == {<<st.dhr, n>> : n \in st.nr .. until - 1}
  IN IF st.ckr = Null \/ until <= st.nr
     THEN st
     ELSE [st EXCEPT
             !.skipped = [k \in new \cup DOMAIN @ |->
                            IF k \in new
                              THEN [st.ckr EXCEPT !.step = @ + (k[2] - st.nr)]
                              ELSE st.skipped[k]],
             !.ckr.step = @ + (until - st.nr),
             !.nr = until]

\* encrypt: the ciphertext with its header, and the advanced sending chain.
Encrypt(st) ==
  [msg |-> [dh |-> st.dhs, pn |-> st.pn, n |-> st.ns, key |-> st.cks],
   st |-> [st EXCEPT !.cks = KdfCk(@), !.ns = @ + 1]]

-----------------------------------------------------------------------------
BugDecryptSkipped(st, msg) ==
  [ok |-> st.skipped[<<msg.dh, msg.n>>] = msg.key, st |-> st]

\* decrypt, on a message whose key was put aside earlier.
DecryptSkipped(st, msg) ==
  LET k == <<msg.dh, msg.n>>
  IN IF st.skipped[k] = msg.key
     THEN [ok |-> TRUE, st |-> [st EXCEPT !.skipped = [j \in DOMAIN @ \ {k} |-> @[j]]]]
     ELSE [ok |-> FALSE, st |-> st]

\* decrypt, from the receiving chain: the chain advances before the ciphertext
\* is opened, and stays advanced when it does not open.
DecryptInChain(st, msg) ==
  LET s == SkipMessageKeys(st, msg.n)
  IN IF TooManySkipped(st, msg.n) THEN [ok |-> FALSE, st |-> st]
     ELSE IF s.ckr = Null THEN [ok |-> FALSE, st |-> s]
     ELSE [ok |-> s.ckr = msg.key,
           st |-> [s EXCEPT !.ckr = KdfCk(@), !.nr = @ + 1]]

BugDecrypt(st, msg, fresh) ==
  IF <<msg.dh, msg.n>> \in DOMAIN st.skipped THEN DecryptSkipped(st, msg)
  ELSE IF st.dhr = msg.dh THEN DecryptInChain(st, msg)
  ELSE DecryptInChain(DhRatchet(st, msg.dh, fresh), msg)

\* decrypt.  `fresh` is the key pair generated if the peer starts a new chain.
Decrypt(st, msg, fresh) ==
  IF <<msg.dh, msg.n>> \in DOMAIN st.skipped THEN DecryptSkipped(st, msg)
  ELSE IF st.dhr = msg.dh THEN DecryptInChain(st, msg)
  ELSE IF TooManySkipped(st, msg.pn) THEN [ok |-> FALSE, st |-> st]
  ELSE DecryptInChain(DhRatchet(SkipMessageKeys(st, msg.pn), msg.dh, fresh), msg)

-----------------------------------------------------------------------------
\* The message keys that whoever holds the state can compute: those of the
\* chains it has not passed yet, and those it put aside.
Derives(ck, key) == ck # Null /\ ck.root = key.root /\ ck.step <= key.step

Holds(st, key) ==
  \/ Derives(st.cks, key)
  \/ Derives(st.ckr, key)
  \/ \E k \in DOMAIN st.skipped : st.skipped[k] = key
=============================================================================
