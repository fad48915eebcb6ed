----------------------------- MODULE RatchetLemmas -----------------------------
(***************************************************************************)
(* What the operators of DoubleRatchet do to the session states of two     *)
(* members, for any MAX_SKIP and whoever the members are.                  *)
(*                                                                         *)
(* A session is seen from one of its two ends.  The lemmas come in three   *)
(* groups: what a call keeps (Sound, Passed, Aged); which messages are     *)
(* open to a state before and after a call (Coherent, Witnessed,           *)
(* Readable); and, from these, that two ends which save at once what they  *)
(* do stay together: each can open whatever the other sent and it has not  *)
(* opened (Own, Heard).                                                    *)
(* RatchetSessionProofs and MessagingProofs rest on them.                  *)
(***************************************************************************)
EXTENDS DoubleRatchet, TLAPS

Root == Seq(SUBSET Pair)

\* An end of a session: the member, its peer, the parity of the lengths of its
\* roots, the pair the responder begins with, and the length of the root the two
\* begin from.
End ==
  {e \in [me : Member, peer : Member, side : {0, 1}, first : Pair, base : Nat] : e.me # e.peer}

Other(e) == [me |-> e.peer, peer |-> e.me, side |-> 1 - e.side, first |-> e.first, base |-> e.base]

Parity(e, root) == Len(root) % 2 = e.side

Prefix(r, s) == Len(r) <= Len(s) /\ \A i \in 1 .. Len(r) : r[i] = s[i]

IsState(st) ==
  /\ st = [dhs |-> st.dhs, dhr |-> st.dhr, rk |-> st.rk, cks |-> st.cks, ckr |-> st.ckr,
           ns |-> st.ns, nr |-> st.nr, pn |-> st.pn, skipped |-> st.skipped]
  /\ st.dhs \in Pair /\ st.dhr \in Pair \cup {Null} /\ st.rk \in Root
  /\ st.cks \in ChainKey \cup {Null} /\ st.ckr \in ChainKey \cup {Null}
  /\ st.ckr # Null => st.dhr # Null
  /\ st.ns \in Nat /\ st.nr \in Nat /\ st.pn \in Nat
  /\ DOMAIN st.skipped \subseteq Pair \X Nat
  /\ \A k \in DOMAIN st.skipped : st.skipped[k] \in ChainKey

\* A chain that begins at root, on which the end e receives under the peer's `pair`.
Receiving(e, root, pair) ==
  /\ pair \in Pair /\ pair[1] = e.peer
  /\ Len(root) > 0 /\ Parity(Other(e), root)
  /\ \E own \in Pair : own[1] = e.me /\ root[Len(root)] = DH(own, pair)

\* A session state of e: it sends on the chain of its own root, receives on the
\* root before, and has put aside only keys of chains that the peer began.
Sound(e, st) ==
  /\ IsState(st)
  /\ st.dhs[1] = e.me /\ Parity(e, st.rk)
  /\ st.dhr # Null => st.dhr[1] = e.peer
  /\ st.cks # Null => /\ st.cks = [root |-> st.rk, step |-> st.ns]
                      /\ Receiving(Other(e), st.rk, st.dhs)
  /\ st.ckr # Null => /\ st.ckr.step = st.nr /\ Len(st.ckr.root) = Len(st.rk) - 1
                      /\ Receiving(e, st.ckr.root, st.dhr)
  /\ \A k \in DOMAIN st.skipped :
       /\ st.skipped[k].step = k[2] /\ Receiving(e, st.skipped[k].root, k[1])
       /\ Len(st.skipped[k].root) < Len(st.rk)
       /\ st.ckr # Null /\ st.skipped[k].root = st.ckr.root => k[2] < st.nr

\* The receiving side of st cannot compute key any more.
Passed(st, key) ==
  /\ Len(key.root) < Len(st.rk)
  /\ ~Derives(st.ckr, key)
  /\ \A k \in DOMAIN st.skipped : st.skipped[k] # key

\* A message on its way to e, as its peer made it.
Made(e, m) ==
  /\ m.key \in ChainKey /\ m.dh \in Pair /\ m.pn \in Nat /\ m.n \in Nat
  /\ m.key.step = m.n /\ Receiving(e, m.key.root, m.dh)

\* The pairs of `who` that went into root are among the first k it generated.
UpTo(who, root, k) ==
  \A i \in 1 .. Len(root) : \A pair \in root[i] : pair[1] = who => pair[2] <= k

-----------------------------------------------------------------------------
\* The two ends of a session.
LEMMA Ends ==
  ASSUME NEW e \in End
  PROVE  /\ Other(e) \in End /\ Other(Other(e)) = e
         /\ Other(e).me = e.peer /\ Other(e).peer = e.me /\ Other(e).side = 1 - e.side
         /\ Other(e).first = e.first /\ Other(e).base = e.base
         /\ e.me \in Member /\ e.peer \in Member /\ e.me # e.peer
         /\ e.side \in {0, 1} /\ e.first \in Pair /\ e.base \in Nat
<1>1. /\ e.me \in Member /\ e.peer \in Member /\ e.me # e.peer
      /\ e.side \in {0, 1} /\ e.first \in Pair /\ e.base \in Nat
      /\ e = [me |-> e.me, peer |-> e.peer, side |-> e.side, first |-> e.first, base |-> e.base]
  BY DEF End
<1>2. 1 - e.side \in {0, 1} /\ 1 - (1 - e.side) = e.side
  BY <1>1
<1> QED
  BY <1>1, <1>2 DEF End, Other

\* The absent key is none of the values it could be confused with.
LEMMA Absent == Null \notin Pair /\ Null \notin ChainKey
BY RatchetAssumption

\* A root belongs to one of the ends, and the next longer one to the other.
LEMMA Parities ==
  ASSUME NEW e \in End, NEW r \in Root
  PROVE  /\ ~(Parity(e, r) /\ Parity(Other(e), r))
         /\ \A s \in Root : Len(s) = Len(r) + 1 => Parity(Other(e), s) = Parity(e, r)
<1>1. Len(r) \in Nat
  BY DEF Root
<1>2. (e.side = 0 /\ Other(e).side = 1) \/ (e.side = 1 /\ Other(e).side = 0)
  BY Ends
<1> QED
  BY <1>1, <1>2 DEF Parity

\* Prefix is a partial order, and of one length there is one prefix.
LEMMA PrefixOrder ==
  /\ \A r \in Root : Prefix(r, r)
  /\ \A r, s, t \in Root : Prefix(r, s) /\ Prefix(s, t) => Prefix(r, t)
  /\ \A r, s \in Root : Prefix(r, s) /\ Len(r) = Len(s) => r = s
  /\ \A r, s, t \in Root : Prefix(r, t) /\ Prefix(s, t) /\ Len(r) = Len(s) => r = s
<1>1. \A r \in Root : Len(r) \in Nat
  BY DEF Root
<1>2. \A r \in Root : Prefix(r, r)
  BY <1>1 DEF Prefix
<1>3. \A r, s, t \in Root : Prefix(r, s) /\ Prefix(s, t) => Prefix(r, t)
  BY <1>1 DEF Prefix
<1>4. ASSUME NEW r \in Root, NEW s \in Root, Len(r) = Len(s), \A i \in 1 .. Len(r) : r[i] = s[i]
      PROVE  r = s
  BY <1>4 DEF Root
<1> QED
  BY <1>1, <1>2, <1>3, <1>4 DEF Prefix

\* skipMessageKeys, in terms of the fields it touches.
Skips(st, until) == {<<st.dhr, n>> : n \in st.nr .. until - 1}

Skipped(st, until, s) ==
  /\ st.ckr # Null /\ until > st.nr
  /\ s.nr = until
  /\ s.ckr = [root |-> st.ckr.root, step |-> st.ckr.step + (until - st.nr)]
  /\ DOMAIN s.skipped = Skips(st, until) \cup DOMAIN st.skipped
  /\ \A n \in st.nr .. until - 1 :
       s.skipped[<<st.dhr, n>>] = [root |-> st.ckr.root, step |-> st.ckr.step + (n - st.nr)]
  /\ \A k \in DOMAIN st.skipped \ Skips(st, until) : s.skipped[k] = st.skipped[k]

\* skipMessageKeys: it changes nothing, or it puts keys aside (ratchet.js:77-89).
LEMMA Skipping ==
  ASSUME NEW st, IsState(st), NEW until \in Nat,
         NEW s, s = SkipMessageKeys(st, until)
  PROVE  /\ IsState(s)
         /\ s.dhs = st.dhs /\ s.dhr = st.dhr /\ s.rk = st.rk /\ s.cks = st.cks
         /\ s.ns = st.ns /\ s.pn = st.pn
         /\ \/ s = st /\ (st.ckr = Null \/ until <= st.nr)
            \/ Skipped(st, until, s)
<1> DEFINE new == Skips(st, until)
           keys == [k \in new \cup DOMAIN st.skipped |->
                      IF k \in new THEN [st.ckr EXCEPT !.step = @ + (k[2] - st.nr)]
                                   ELSE st.skipped[k]]
           ckr == [st.ckr EXCEPT !.step = @ + (until - st.nr)]
<1>1. CASE st.ckr = Null \/ until <= st.nr
  BY <1>1 DEF SkipMessageKeys
<1>2. CASE st.ckr # Null /\ until > st.nr
  <2>1. s = [st EXCEPT !.skipped = keys, !.ckr.step = @ + (until - st.nr), !.nr = until]
    BY <1>2 DEF SkipMessageKeys, IsState, Skips
  <2>2. st.ckr \in ChainKey /\ st.dhr \in Pair /\ st.nr \in Nat
    BY <1>2 DEF IsState
  <2>3. ckr \in ChainKey /\ ckr = [root |-> st.ckr.root, step |-> st.ckr.step + (until - st.nr)]
    BY <1>2, <2>2 DEF ChainKey
  <2>4. s = [dhs |-> st.dhs, dhr |-> st.dhr, rk |-> st.rk, cks |-> st.cks, ckr |-> ckr,
             ns |-> st.ns, nr |-> until, pn |-> st.pn, skipped |-> keys]
    BY <2>1 DEF IsState
  <2>5. \A n \in st.nr .. until - 1 :
          /\ <<st.dhr, n>> \in new
          /\ keys[<<st.dhr, n>>] = [root |-> st.ckr.root, step |-> st.ckr.step + (n - st.nr)]
          /\ keys[<<st.dhr, n>>] \in ChainKey
    BY <2>2, SMTT(20) DEF ChainKey, Skips
  <2>6. new \subseteq Pair \X Nat
    BY <2>2 DEF Skips
  <2>7. DOMAIN keys \subseteq Pair \X Nat /\ DOMAIN keys = new \cup DOMAIN st.skipped
    BY <2>6 DEF IsState
  <2>8. \A k \in DOMAIN st.skipped \ new : keys[k] = st.skipped[k]
    OBVIOUS
  <2>9. \A k \in DOMAIN keys : keys[k] \in ChainKey
    <3> SUFFICES ASSUME NEW k \in DOMAIN keys PROVE keys[k] \in ChainKey
      OBVIOUS
    <3>1. CASE k \in new
      BY <2>5, <3>1 DEF Skips
    <3>2. CASE k \in DOMAIN st.skipped \ new
      <4>1. keys[k] = st.skipped[k]
        BY <2>8, <3>2
      <4> QED
        BY <3>2, <4>1 DEF IsState
    <3> QED
      BY <2>7, <3>1, <3>2
  <2> HIDE DEF keys, ckr, new
  <2>10. IsState(s)
    BY <1>2, <2>2, <2>3, <2>4, <2>7, <2>9, Absent DEF IsState
  <2>11. Skipped(st, until, s)
    BY <1>2, <2>3, <2>4, <2>5, <2>7, <2>8 DEF Skipped, new
  <2> QED
    BY <2>4, <2>10, <2>11
<1> QED
  BY <1>1, <1>2 DEF IsState

Ratcheted(st, s, dh, fresh) ==
  LET rk1 == Append(st.rk, DH(st.dhs, dh))
      rk2 == Append(rk1, DH(fresh, dh))
  IN /\ rk1 \in Root /\ rk2 \in Root
     /\ s.dhs = fresh /\ s.dhr = dh /\ s.rk = rk2 /\ s.cks = [root |-> rk2, step |-> 0]
     /\ s.ckr = [root |-> rk1, step |-> 0] /\ s.ns = 0 /\ s.nr = 0 /\ s.pn = st.ns
     /\ s.skipped = st.skipped

\* dhRatchet: two roots further, with a chain in each direction (ratchet.js:61-75).
LEMMA Ratcheting ==
  ASSUME NEW st, IsState(st), NEW dh \in Pair, NEW fresh \in Pair,
         NEW s, s = DhRatchet(st, dh, fresh)
  PROVE  IsState(s) /\ Ratcheted(st, s, dh, fresh)
<1> DEFINE rk1 == Append(st.rk, DH(st.dhs, dh))
           rk2 == Append(rk1, DH(fresh, dh))
<1>1. st.rk \in Root /\ DH(st.dhs, dh) \in SUBSET Pair /\ DH(fresh, dh) \in SUBSET Pair
  BY DEF IsState, DH
<1>2. rk1 \in Root /\ rk2 \in Root
  BY <1>1 DEF Root
<1> HIDE DEF rk1, rk2
<1>3. Chain(rk1) \in ChainKey /\ Chain(rk2) \in ChainKey
  BY <1>2 DEF Chain, ChainKey, Root
<1>4. s = [st EXCEPT !.pn = st.ns, !.ns = 0, !.nr = 0, !.dhr = dh,
                     !.ckr = Chain(rk1), !.dhs = fresh, !.rk = rk2, !.cks = Chain(rk2)]
  BY DEF DhRatchet, KdfRk, rk1, rk2
<1>5. s = [dhs |-> fresh, dhr |-> dh, rk |-> rk2, cks |-> Chain(rk2), ckr |-> Chain(rk1),
           ns |-> 0, nr |-> 0, pn |-> st.ns, skipped |-> st.skipped]
  BY <1>4 DEF IsState
<1>6. IsState(s)
  BY <1>2, <1>3, <1>5, Absent DEF IsState
<1> QED
  BY <1>2, <1>5, <1>6 DEF Chain, rk1, rk2, Ratcheted

\* One message further on the receiving chain.
Advanced(st, s) ==
  /\ st.ckr # Null
  /\ s.dhs = st.dhs /\ s.dhr = st.dhr /\ s.rk = st.rk /\ s.cks = st.cks
  /\ s.ns = st.ns /\ s.pn = st.pn /\ s.skipped = st.skipped
  /\ s.nr = st.nr + 1 /\ s.ckr = [root |-> st.ckr.root, step |-> st.ckr.step + 1]

\* On the right chain decrypt throws, or it takes the key after those it skips and
\* opens the message if that is its key.
ChainOutcome(st, msg, s, d) ==
  \/ TooManySkipped(st, msg.n) /\ d.st = st /\ d.ok = FALSE
  \/ st.ckr = Null /\ d.st = st /\ d.ok = FALSE
  \/ ~TooManySkipped(st, msg.n) /\ IsState(d.st) /\ Advanced(s, d.st)
     /\ d.ok \in BOOLEAN /\ (d.ok <=> s.ckr = msg.key)

\* decrypt, once the chain is the right one (ratchet.js:121-128).
LEMMA InChain ==
  ASSUME NEW st, IsState(st), NEW msg, msg.n \in Nat,
         NEW s, s = SkipMessageKeys(st, msg.n),
         NEW d, d = DecryptInChain(st, msg)
  PROVE  ChainOutcome(st, msg, s, d)
<1> USE DEF ChainOutcome
<1>1. CASE TooManySkipped(st, msg.n)
  BY <1>1 DEF DecryptInChain
<1>2. CASE ~TooManySkipped(st, msg.n) /\ s.ckr = Null
  <2>1. st.ckr = Null /\ s = st
    <3>1. s = st \/ Skipped(st, msg.n, s)
      BY Skipping
    <3>2. ~Skipped(st, msg.n, s)
      <4>1. SUFFICES ASSUME Skipped(st, msg.n, s) PROVE FALSE
        OBVIOUS
      <4>2. s.ckr \in ChainKey
        <5>1. st.ckr \in ChainKey /\ st.nr \in Nat
          BY <4>1 DEF Skipped, IsState
        <5> QED
          BY <4>1, <5>1 DEF Skipped, ChainKey
      <4> QED
        BY <1>2, <4>2, Absent
    <3> QED
      BY <1>2, <3>1, <3>2
  <2> QED
    BY <1>2, <2>1 DEF DecryptInChain
<1>3. CASE ~TooManySkipped(st, msg.n) /\ s.ckr # Null
  <2>1. d = [ok |-> s.ckr = msg.key, st |-> [s EXCEPT !.ckr = KdfCk(@), !.nr = @ + 1]]
    BY <1>3 DEF DecryptInChain
  <2>2. IsState(s) /\ s.ckr \in ChainKey
    BY <1>3, Skipping DEF IsState
  <2> DEFINE ckr == [s.ckr EXCEPT !.step = @ + 1]
  <2>3. ckr \in ChainKey /\ ckr = [root |-> s.ckr.root, step |-> s.ckr.step + 1]
    BY <2>2 DEF ChainKey
  <2>4. d.st = [s EXCEPT !.ckr = ckr, !.nr = s.nr + 1]
    BY <2>1, <2>2 DEF KdfCk, IsState
  <2> HIDE DEF ckr
  <2>5. d.st = [dhs |-> s.dhs, dhr |-> s.dhr, rk |-> s.rk, cks |-> s.cks, ckr |-> ckr,
                ns |-> s.ns, nr |-> s.nr + 1, pn |-> s.pn, skipped |-> s.skipped]
    BY <2>2, <2>4 DEF IsState
  <2>6. IsState(d.st)
    BY <1>3, <2>2, <2>3, <2>5 DEF IsState
  <2>7. d.ok \in BOOLEAN /\ (d.ok <=> s.ckr = msg.key)
    <3>1. d.ok = (s.ckr = msg.key)
      BY <2>1
    <3> QED
      BY <3>1
  <2> QED
    BY <1>3, <2>3, <2>5, <2>6, <2>7 DEF Advanced
<1> QED
  BY <1>1, <1>2, <1>3

\* A key that was put aside is used up.
Slot(msg) == <<msg.dh, msg.n>>

Used(st, s, k) ==
  /\ s.dhs = st.dhs /\ s.dhr = st.dhr /\ s.rk = st.rk /\ s.cks = st.cks
  /\ s.ckr = st.ckr /\ s.ns = st.ns /\ s.nr = st.nr /\ s.pn = st.pn
  /\ DOMAIN s.skipped = DOMAIN st.skipped \ {k}
  /\ \A j \in DOMAIN st.skipped \ {k} : s.skipped[j] = st.skipped[j]

\* decrypt with a key that was put aside (ratchet.js:104-114).
LEMMA FromSkipped ==
  ASSUME NEW st, IsState(st), NEW msg, Slot(msg) \in DOMAIN st.skipped,
         NEW d, d = DecryptSkipped(st, msg)
  PROVE  \/ st.skipped[Slot(msg)] # msg.key /\ d.st = st /\ d.ok = FALSE
         \/ /\ st.skipped[Slot(msg)] = msg.key /\ d.ok = TRUE
            /\ IsState(d.st) /\ Used(st, d.st, Slot(msg))
<1>1. CASE st.skipped[Slot(msg)] # msg.key
  BY <1>1 DEF DecryptSkipped, Slot
<1>2. CASE st.skipped[Slot(msg)] = msg.key
  <2> DEFINE rest == [j \in DOMAIN st.skipped \ {Slot(msg)} |-> st.skipped[j]]
  <2>1. d = [ok |-> TRUE, st |-> [st EXCEPT !.skipped = rest]]
    BY <1>2 DEF DecryptSkipped, Slot, IsState
  <2>2. /\ DOMAIN rest = DOMAIN st.skipped \ {Slot(msg)}
        /\ \A j \in DOMAIN st.skipped \ {Slot(msg)} : rest[j] = st.skipped[j]
    OBVIOUS
  <2> HIDE DEF rest
  <2>3. d.ok = TRUE /\ d.st = [dhs |-> st.dhs, dhr |-> st.dhr, rk |-> st.rk, cks |-> st.cks,
                              ckr |-> st.ckr, ns |-> st.ns, nr |-> st.nr, pn |-> st.pn,
                              skipped |-> rest]
    BY <2>1 DEF IsState
  <2>4. IsState(d.st)
    BY <2>2, <2>3 DEF IsState
  <2> QED
    BY <1>2, <2>2, <2>3, <2>4 DEF Used
<1> QED
  BY <1>1, <1>2

-----------------------------------------------------------------------------
\* The calls of the ratchet keep a state sound, and what it cannot recompute
\* out of its reach.
LEMMA OneStart ==
  ASSUME NEW e \in End, NEW root, NEW a, NEW b, Receiving(e, root, a), Receiving(e, root, b)
  PROVE  a = b
<1>1. PICK x \in Pair : x[1] = e.me /\ root[Len(root)] = {x, a}
  BY DEF Receiving, DH
<1>2. PICK y \in Pair : y[1] = e.me /\ root[Len(root)] = {y, b}
  BY DEF Receiving, DH
<1>3. a[1] = e.peer /\ b[1] = e.peer /\ e.peer # e.me
  BY Ends DEF Receiving
<1> QED
  BY <1>1, <1>2, <1>3

\* An entry of the skipped keys is one just put aside or an older one.
LEMMA SkippedEntries ==
  ASSUME NEW st, IsState(st), NEW until \in Nat, NEW s, Skipped(st, until, s),
         st.ckr.step = st.nr, NEW k \in DOMAIN s.skipped
  PROVE  \/ /\ k[1] = st.dhr /\ k[2] \in st.nr .. until - 1
            /\ s.skipped[k] = [root |-> st.ckr.root, step |-> k[2]]
         \/ k \in DOMAIN st.skipped /\ s.skipped[k] = st.skipped[k]
<1>1. CASE k \in Skips(st, until)
  <2>1. PICK n \in st.nr .. until - 1 : k = <<st.dhr, n>>
    BY <1>1 DEF Skips
  <2>2. s.skipped[k] = [root |-> st.ckr.root, step |-> st.ckr.step + (n - st.nr)]
    BY <2>1 DEF Skipped
  <2>3. st.nr \in Nat
    BY DEF IsState
  <2> QED
    BY <2>1, <2>2, <2>3
<1>2. CASE k \notin Skips(st, until)
  BY <1>2 DEF Skipped
<1> QED
  BY <1>1, <1>2

\* Putting keys aside keeps a state sound and what it has passed out of reach.
LEMMA SkippingKeeps ==
  ASSUME NEW e \in End, NEW st, Sound(e, st), NEW until \in Nat,
         NEW s, s = SkipMessageKeys(st, until)
  PROVE  Sound(e, s) /\ \A key \in ChainKey : Passed(st, key) => Passed(s, key)
<1>1. IsState(st)
  BY DEF Sound
<1>2. CASE s = st
  BY <1>2
<1>3. CASE Skipped(st, until, s)
  <2>1. /\ IsState(s) /\ s.dhs = st.dhs /\ s.dhr = st.dhr /\ s.rk = st.rk /\ s.cks = st.cks
        /\ s.ns = st.ns
    BY <1>1, Skipping
  <2>2. /\ st.ckr # Null /\ st.ckr \in ChainKey /\ st.nr \in Nat /\ until > st.nr
        /\ st.ckr.step = st.nr
        /\ Len(st.ckr.root) = Len(st.rk) - 1 /\ Receiving(e, st.ckr.root, st.dhr)
        /\ Len(st.rk) \in Nat
    BY <1>1, <1>3 DEF Sound, Skipped, IsState, Root
  <2>3. s.nr = until /\ s.ckr = [root |-> st.ckr.root, step |-> until]
    BY <1>3, <2>2 DEF Skipped
  <2>4. \A k \in DOMAIN s.skipped :
          \/ /\ k[1] = st.dhr /\ k[2] \in st.nr .. until - 1
             /\ s.skipped[k] = [root |-> st.ckr.root, step |-> k[2]]
          \/ k \in DOMAIN st.skipped /\ s.skipped[k] = st.skipped[k]
    BY <1>1, <1>3, <2>2, SkippedEntries
  <2>5. Sound(e, s)
    <3>1. ASSUME NEW k \in DOMAIN s.skipped
          PROVE  /\ s.skipped[k].step = k[2] /\ Receiving(e, s.skipped[k].root, k[1])
                 /\ Len(s.skipped[k].root) < Len(s.rk)
                 /\ s.ckr # Null /\ s.skipped[k].root = s.ckr.root => k[2] < s.nr
      <4>1. CASE /\ k[1] = st.dhr /\ k[2] \in st.nr .. until - 1
                 /\ s.skipped[k] = [root |-> st.ckr.root, step |-> k[2]]
        BY <2>1, <2>2, <2>3, <4>1
      <4>2. CASE k \in DOMAIN st.skipped /\ s.skipped[k] = st.skipped[k]
        <5>1. /\ st.skipped[k].step = k[2] /\ Receiving(e, st.skipped[k].root, k[1])
              /\ Len(st.skipped[k].root) < Len(st.rk)
              /\ st.skipped[k].root = st.ckr.root => k[2] < st.nr
          BY <2>2, <4>2 DEF Sound
        <5>2. k[2] \in Nat
          BY <1>1, <4>2 DEF IsState
        <5> QED
          BY <2>1, <2>2, <2>3, <4>2, <5>1, <5>2
      <4> QED
        BY <2>4, <4>1, <4>2
    <3>2. /\ s.dhs[1] = e.me /\ Parity(e, s.rk) /\ (s.dhr # Null => s.dhr[1] = e.peer)
          /\ s.cks # Null => /\ s.cks = [root |-> s.rk, step |-> s.ns]
                          /\ Receiving(Other(e), s.rk, s.dhs)
      BY <2>1 DEF Sound
    <3>3. s.ckr # Null => /\ s.ckr.step = s.nr /\ Len(s.ckr.root) = Len(s.rk) - 1
                          /\ Receiving(e, s.ckr.root, s.dhr)
      BY <2>1, <2>2, <2>3
    <3> QED
      BY <2>1, <3>1, <3>2, <3>3 DEF Sound
  <2>6. ASSUME NEW key \in ChainKey, Passed(st, key) PROVE Passed(s, key)
    <3>1. ~(st.ckr.root = key.root /\ st.nr <= key.step) /\ key.step \in Nat
      BY <2>2, <2>6 DEF Passed, Derives, ChainKey
    <3>2. ~Derives(s.ckr, key)
      BY <2>2, <2>3, <3>1 DEF Derives
    <3>3. ASSUME NEW k \in DOMAIN s.skipped PROVE s.skipped[k] # key
      <4>1. CASE /\ k[1] = st.dhr /\ k[2] \in st.nr .. until - 1
                 /\ s.skipped[k] = [root |-> st.ckr.root, step |-> k[2]]
        <5>1. s.skipped[k].root = st.ckr.root /\ s.skipped[k].step >= st.nr
          BY <2>2, <4>1
        <5> QED
          BY <3>1, <5>1
      <4>2. CASE k \in DOMAIN st.skipped /\ s.skipped[k] = st.skipped[k]
        BY <2>6, <4>2 DEF Passed
      <4> QED
        BY <2>4, <4>1, <4>2
    <3> QED
      BY <2>1, <2>6, <3>2, <3>3 DEF Passed
  <2> QED
    BY <2>5, <2>6
<1> QED
  BY <1>1, <1>2, <1>3, Skipping

\* A new root keeps a state sound and what it has passed out of reach.
LEMMA RatchetingKeeps ==
  ASSUME NEW e \in End, NEW st, Sound(e, st), NEW dh \in Pair, dh[1] = e.peer,
         NEW fresh \in Pair, fresh[1] = e.me, NEW s, s = DhRatchet(st, dh, fresh)
  PROVE  Sound(e, s) /\ \A key \in ChainKey : Passed(st, key) => Passed(s, key)
<1> DEFINE rk1 == Append(st.rk, DH(st.dhs, dh))
           rk2 == Append(rk1, DH(fresh, dh))
<1>1. /\ IsState(st) /\ st.rk \in Root /\ Len(st.rk) \in Nat
      /\ st.dhs \in Pair /\ st.dhs[1] = e.me /\ Parity(e, st.rk)
  BY DEF Sound, IsState, Root
<1>2. /\ IsState(s) /\ rk1 \in Root /\ rk2 \in Root
      /\ s.dhs = fresh /\ s.dhr = dh /\ s.rk = rk2 /\ s.cks = [root |-> rk2, step |-> 0]
      /\ s.ckr = [root |-> rk1, step |-> 0] /\ s.ns = 0 /\ s.nr = 0
      /\ s.skipped = st.skipped
  BY <1>1, Ratcheting DEF Ratcheted
<1>3. /\ Len(rk1) = Len(st.rk) + 1 /\ Len(rk2) = Len(st.rk) + 2
      /\ rk1[Len(rk1)] = DH(st.dhs, dh) /\ rk2[Len(rk2)] = DH(dh, fresh)
  BY <1>1 DEF Root, DH
<1> HIDE DEF rk1, rk2
<1>4. Parity(Other(e), rk1) /\ Parity(e, rk2)
  <2>1. Parity(Other(e), rk1)
    BY <1>1, <1>2, <1>3, Parities
  <2>2. Len(rk2) = Len(rk1) + 1
    BY <1>1, <1>3
  <2> QED
    BY <1>2, <2>1, <2>2, Parities, Ends
<1>5. Receiving(e, rk1, dh) /\ Receiving(Other(e), rk2, fresh)
  BY <1>1, <1>3, <1>4, Ends DEF Receiving
<1>6. ASSUME NEW k \in DOMAIN s.skipped
      PROVE  /\ s.skipped[k].step = k[2] /\ Receiving(e, s.skipped[k].root, k[1])
             /\ Len(s.skipped[k].root) < Len(s.rk)
             /\ s.skipped[k].root # s.ckr.root
  <2>1. /\ st.skipped[k].step = k[2] /\ Receiving(e, st.skipped[k].root, k[1])
        /\ Len(st.skipped[k].root) < Len(st.rk)
        /\ Len(st.skipped[k].root) \in Nat
    BY <1>1, <1>2 DEF Sound, IsState, ChainKey
  <2> QED
    BY <1>1, <1>2, <1>3, <2>1
<1>7. Sound(e, s)
  BY <1>1, <1>2, <1>3, <1>4, <1>5, <1>6 DEF Sound
<1>8. ASSUME NEW key \in ChainKey, Passed(st, key) PROVE Passed(s, key)
  <2>1. Len(key.root) \in Nat /\ Len(key.root) < Len(st.rk)
    BY <1>8 DEF Passed, ChainKey
  <2>2. ~Derives(s.ckr, key)
    BY <1>1, <1>2, <1>3, <2>1 DEF Derives
  <2> QED
    BY <1>1, <1>2, <1>3, <1>8, <2>1, <2>2 DEF Passed
<1> QED
  BY <1>7, <1>8

\* So does taking the next key, which is out of reach from then on.
LEMMA AdvancingKeeps ==
  ASSUME NEW e \in End, NEW st, Sound(e, st), NEW s, IsState(s), Advanced(st, s)
  PROVE  /\ Sound(e, s)
         /\ \A key \in ChainKey : Passed(st, key) => Passed(s, key)
         /\ Passed(s, st.ckr) /\ ~Passed(st, st.ckr)
<1>1. /\ st.ckr # Null /\ st.ckr \in ChainKey /\ st.nr \in Nat /\ st.ckr.step = st.nr
      /\ s.nr = st.nr + 1 /\ s.ckr = [root |-> st.ckr.root, step |-> st.nr + 1]
      /\ s.rk = st.rk /\ s.skipped = st.skipped /\ Len(st.rk) \in Nat /\ s.dhr = st.dhr
      /\ Len(st.ckr.root) = Len(st.rk) - 1 /\ Receiving(e, st.ckr.root, st.dhr)
  BY DEF Sound, IsState, Advanced, Root
<1>2. ASSUME NEW k \in DOMAIN s.skipped
      PROVE  /\ s.skipped[k].step = k[2] /\ Receiving(e, s.skipped[k].root, k[1])
             /\ Len(s.skipped[k].root) < Len(s.rk)
             /\ s.skipped[k].root = s.ckr.root => k[2] < s.nr /\ k[2] < st.nr
  <2>1. k[2] \in Nat
    BY DEF IsState
  <2> QED
    BY <1>1, <2>1 DEF Sound
<1>3. Sound(e, s)
  <2>1. /\ s.dhs[1] = e.me /\ Parity(e, s.rk) /\ (s.dhr # Null => s.dhr[1] = e.peer)
        /\ s.cks # Null => /\ s.cks = [root |-> s.rk, step |-> s.ns]
                          /\ Receiving(Other(e), s.rk, s.dhs)
    BY DEF Sound, Advanced
  <2> QED
    BY <1>1, <1>2, <2>1 DEF Sound
<1>4. \A key \in ChainKey : Passed(st, key) => Passed(s, key)
  BY <1>1 DEF Passed, Derives, ChainKey
<1>5. Passed(s, st.ckr)
  <2>1. ~Derives(s.ckr, st.ckr)
    BY <1>1 DEF Derives
  <2>2. \A k \in DOMAIN s.skipped : s.skipped[k] # st.ckr
    BY <1>1, <1>2
  <2> QED
    BY <1>1, <2>1, <2>2 DEF Passed
<1>6. ~Passed(st, st.ckr)
  BY <1>1 DEF Passed, Derives
<1> QED
  BY <1>3, <1>4, <1>5, <1>6

\* A message key that was put aside stands once among the skipped ones.
LEMMA UsingSkippedKeeps ==
  ASSUME NEW e \in End, NEW st, Sound(e, st), NEW k \in DOMAIN st.skipped,
         NEW s, IsState(s), Used(st, s, k)
  PROVE  /\ Sound(e, s)
         /\ \A key \in ChainKey : Passed(st, key) => Passed(s, key)
         /\ Passed(s, st.skipped[k]) /\ ~Passed(st, st.skipped[k])
<1>1. /\ s.dhs = st.dhs /\ s.dhr = st.dhr /\ s.rk = st.rk /\ s.cks = st.cks
      /\ s.ckr = st.ckr /\ s.ns = st.ns /\ s.nr = st.nr
      /\ DOMAIN s.skipped = DOMAIN st.skipped \ {k}
      /\ \A j \in DOMAIN st.skipped \ {k} : s.skipped[j] = st.skipped[j]
  BY DEF Used
<1>2. Sound(e, s)
  BY <1>1 DEF Sound
<1>3. \A key \in ChainKey : Passed(st, key) => Passed(s, key)
  BY <1>1 DEF Passed
<1>4. Passed(s, st.skipped[k])
  <2>1. /\ st.skipped[k].step = k[2] /\ Receiving(e, st.skipped[k].root, k[1])
        /\ Len(st.skipped[k].root) < Len(st.rk) /\ k \in Pair \X Nat
        /\ st.ckr # Null /\ st.skipped[k].root = st.ckr.root => k[2] < st.nr
        /\ st.ckr # Null => st.ckr.step = st.nr
        /\ st.nr \in Nat
    BY DEF Sound, IsState
  <2>2. ~Derives(s.ckr, st.skipped[k])
    BY <1>1, <2>1 DEF Derives
  <2>3. ASSUME NEW j \in DOMAIN s.skipped, s.skipped[j] = st.skipped[k] PROVE FALSE
    <3>1. j \in DOMAIN st.skipped /\ j # k /\ st.skipped[j] = st.skipped[k]
      BY <1>1, <2>3
    <3>2. st.skipped[j].step = j[2] /\ Receiving(e, st.skipped[j].root, j[1]) /\ j \in Pair \X Nat
      BY <3>1 DEF Sound, IsState
    <3>3. j[1] = k[1]
      BY <2>1, <3>1, <3>2, OneStart
    <3>4. j[2] = k[2]
      BY <2>1, <3>1, <3>2
    <3>5. j = <<j[1], j[2]>> /\ k = <<k[1], k[2]>>
      BY <2>1, <3>2
    <3> QED
      BY <3>1, <3>3, <3>4, <3>5
  <2> QED
    BY <1>1, <2>1, <2>2, <2>3 DEF Passed
<1>5. ~Passed(st, st.skipped[k])
  BY DEF Passed
<1> QED
  BY <1>2, <1>3, <1>4, <1>5

\* A call of decrypt from the receiving chain, whole.
LEMMA InChainKeeps ==
  ASSUME NEW e \in End, NEW st, Sound(e, st), NEW msg, msg.n \in Nat, msg.key \in ChainKey,
         NEW d, d = DecryptInChain(st, msg)
  PROVE  /\ Sound(e, d.st) /\ d.ok \in BOOLEAN
         /\ \A key \in ChainKey : Passed(st, key) => Passed(d.st, key)
         /\ d.ok => Passed(d.st, msg.key) /\ ~Passed(st, msg.key)
         /\ d.st.dhs = st.dhs /\ d.st.rk = st.rk /\ d.st.cks = st.cks
         /\ d.st.ns = st.ns /\ d.st.pn = st.pn
<1> DEFINE s == SkipMessageKeys(st, msg.n)
<1>1. IsState(st)
  BY DEF Sound
<1>2. /\ Sound(e, s) /\ \A key \in ChainKey : Passed(st, key) => Passed(s, key)
      /\ s.dhs = st.dhs /\ s.rk = st.rk /\ s.cks = st.cks /\ s.ns = st.ns /\ s.pn = st.pn
  <2>1. Sound(e, s) /\ \A key \in ChainKey : Passed(st, key) => Passed(s, key)
    BY SkippingKeeps
  <2>2. s.dhs = st.dhs /\ s.rk = st.rk /\ s.cks = st.cks /\ s.ns = st.ns /\ s.pn = st.pn
    BY <1>1, Skipping
  <2> QED
    BY <2>1, <2>2
<1>3. \/ d.st = st /\ d.ok = FALSE
      \/ IsState(d.st) /\ Advanced(s, d.st) /\ d.ok \in BOOLEAN /\ (d.ok <=> s.ckr = msg.key)
  <2>1. s = SkipMessageKeys(st, msg.n)
    OBVIOUS
  <2> HIDE DEF s
  <2>2. ChainOutcome(st, msg, s, d)
    BY <1>1, <2>1, InChain
  <2> QED
    BY <2>2 DEF ChainOutcome
<1> HIDE DEF s
<1>4. CASE d.st = st /\ d.ok = FALSE
  BY <1>4
<1>5. CASE IsState(d.st) /\ Advanced(s, d.st) /\ d.ok \in BOOLEAN /\ (d.ok <=> s.ckr = msg.key)
  <2>1. /\ Sound(e, d.st)
        /\ \A key \in ChainKey : Passed(s, key) => Passed(d.st, key)
        /\ Passed(d.st, s.ckr) /\ ~Passed(s, s.ckr)
    BY <1>2, <1>5, AdvancingKeeps
  <2>2. d.st.dhs = s.dhs /\ d.st.rk = s.rk /\ d.st.cks = s.cks /\ d.st.ns = s.ns /\ d.st.pn = s.pn
    BY <1>5 DEF Advanced
  <2> QED
    BY <1>2, <1>5, <2>1, <2>2
<1> QED
  BY <1>3, <1>4, <1>5

\* The sending chain after a call of decrypt: as it was, or that of a new root.
SameSending(st, s) ==
  s.dhs = st.dhs /\ s.rk = st.rk /\ s.cks = st.cks /\ s.ns = st.ns /\ s.pn = st.pn

NewRoot(st, dh, fresh) == Append(Append(st.rk, DH(st.dhs, dh)), DH(fresh, dh))

NewSending(st, s, dh, fresh) ==
  /\ s.dhs = fresh /\ s.rk = NewRoot(st, dh, fresh) /\ s.cks = [root |-> s.rk, step |-> 0]
  /\ s.ns = 0 /\ s.pn = st.ns

\* The root after two ratchet steps, index by index.
LEMMA NewRoots ==
  ASSUME NEW st, st.rk \in Root, st.dhs \in Pair, NEW dh \in Pair, NEW fresh \in Pair,
         NEW r, r = NewRoot(st, dh, fresh)
  PROVE  /\ r \in Root /\ Len(st.rk) \in Nat /\ Len(r) = Len(st.rk) + 2
         /\ \A i \in 1 .. Len(st.rk) : r[i] = st.rk[i]
         /\ r[Len(st.rk) + 1] = DH(st.dhs, dh) /\ r[Len(st.rk) + 2] = DH(fresh, dh)
<1> DEFINE a == DH(st.dhs, dh)  b == DH(fresh, dh)
<1>1. a \in SUBSET Pair /\ b \in SUBSET Pair /\ st.rk \in Seq(SUBSET Pair)
  BY DEF DH, Root
<1>2. r = Append(Append(st.rk, a), b)
  BY DEF NewRoot
<1> HIDE DEF a, b
<1>3. /\ Append(st.rk, a) \in Seq(SUBSET Pair) /\ Len(Append(st.rk, a)) = Len(st.rk) + 1
      /\ Append(st.rk, a)[Len(st.rk) + 1] = a
      /\ \A i \in 1 .. Len(st.rk) : Append(st.rk, a)[i] = st.rk[i]
      /\ Len(st.rk) \in Nat
  BY <1>1
<1>4. /\ r \in Seq(SUBSET Pair) /\ Len(r) = Len(st.rk) + 2 /\ r[Len(st.rk) + 2] = b
      /\ \A i \in 1 .. Len(st.rk) + 1 : r[i] = Append(st.rk, a)[i]
  BY <1>1, <1>2, <1>3
<1> QED
  BY <1>3, <1>4 DEF Root, a, b

\* The new root holds the fresh pair, so it is none its owner had.
LEMMA NewRootIsNew ==
  ASSUME NEW e \in End, NEW st, st.rk \in Root, st.dhs \in Pair, NEW k \in Nat,
         UpTo(e.me, st.rk, k), st.dhs[2] <= k, NEW dh \in Pair, dh[1] = e.peer,
         NEW fresh \in Pair, fresh[1] = e.me, fresh[2] = k + 1, NEW r, r = NewRoot(st, dh, fresh)
  PROVE  UpTo(e.me, r, k + 1) /\ \A x : UpTo(e.me, x, k) => x # r
<1>1. /\ r \in Root /\ Len(st.rk) \in Nat /\ Len(r) = Len(st.rk) + 2
      /\ \A i \in 1 .. Len(st.rk) : r[i] = st.rk[i]
      /\ r[Len(st.rk) + 1] = DH(st.dhs, dh) /\ r[Len(st.rk) + 2] = DH(fresh, dh)
  BY NewRoots, SMTT(30)
<1>2. UpTo(e.me, r, k + 1)
  <2>1. SUFFICES ASSUME NEW i \in 1 .. Len(r), NEW pair \in r[i], pair[1] = e.me
                 PROVE  pair[2] <= k + 1
    BY DEF UpTo
  <2>2. CASE i \in 1 .. Len(st.rk)
    <3>1. pair[2] <= k
      BY <1>1, <2>1, <2>2 DEF UpTo
    <3>2. pair \in Pair
      <4>1. st.rk[i] \in SUBSET Pair
        BY <2>2 DEF Root
      <4> QED
        BY <1>1, <2>2, <4>1
    <3> QED
      BY <3>1, <3>2 DEF Pair
  <2>3. CASE i \in {Len(st.rk) + 1, Len(st.rk) + 2}
    <3>1. pair \in {st.dhs, dh, fresh} /\ pair # dh
      BY <1>1, <2>1, <2>3, Ends DEF DH
    <3> QED
      BY <3>1 DEF Pair
  <2> QED
    BY <1>1, <2>2, <2>3
<1>3. ASSUME NEW x, UpTo(e.me, x, k) PROVE x # r
  <2>1. fresh \in r[Len(r)] /\ Len(r) \in 1 .. Len(r)
    BY <1>1 DEF DH
  <2> QED
    BY <1>3, <2>1 DEF UpTo
<1> QED
  BY <1>2, <1>3

\* decrypt: whatever comes in, the state stays sound and gets nothing back that
\* it had passed; what opens was in its reach before the call and is not after.
\* The sending chain is as it was, or one of a root the fresh pair is part of.
LEMMA Decrypting ==
  ASSUME NEW e \in End, NEW st, Sound(e, st), NEW m, Made(e, m),
         NEW fresh \in Pair, fresh[1] = e.me,
         NEW d, d = Decrypt(st, m, fresh)
  PROVE  /\ Sound(e, d.st) /\ d.ok \in BOOLEAN
         /\ \A key \in ChainKey : Passed(st, key) => Passed(d.st, key)
         /\ d.ok => Passed(d.st, m.key) /\ ~Passed(st, m.key)
         /\ SameSending(st, d.st) \/ NewSending(st, d.st, m.dh, fresh)
<1>1. IsState(st)
  BY DEF Sound
<1>2. m.dh \in Pair /\ m.dh[1] = e.peer /\ m.n \in Nat /\ m.pn \in Nat /\ m.key \in ChainKey
  BY DEF Made, Receiving
<1>3. CASE Slot(m) \in DOMAIN st.skipped
  <2>1. d = DecryptSkipped(st, m)
    BY <1>3 DEF Decrypt, Slot
  <2>2. CASE d.st = st /\ d.ok = FALSE
    BY <2>2 DEF SameSending
  <2>3. CASE st.skipped[Slot(m)] = m.key /\ ~(d.st = st /\ d.ok = FALSE)
    <3>1. d.ok = TRUE /\ IsState(d.st) /\ Used(st, d.st, Slot(m))
      BY <1>1, <1>3, <2>1, <2>3, FromSkipped
    <3>2. /\ Sound(e, d.st)
          /\ \A key \in ChainKey : Passed(st, key) => Passed(d.st, key)
          /\ Passed(d.st, st.skipped[Slot(m)]) /\ ~Passed(st, st.skipped[Slot(m)])
      BY <1>3, <3>1, UsingSkippedKeeps
    <3> QED
      BY <2>3, <3>1, <3>2 DEF Used, SameSending
  <2> QED
    BY <1>1, <1>3, <2>1, <2>2, <2>3, FromSkipped
<1>4. CASE Slot(m) \notin DOMAIN st.skipped /\ st.dhr = m.dh
  <2>1. d = DecryptInChain(st, m)
    BY <1>4 DEF Decrypt, Slot
  <2> QED
    BY <1>2, <2>1, InChainKeeps DEF SameSending
<1>5. CASE Slot(m) \notin DOMAIN st.skipped /\ st.dhr # m.dh
  <2>1. CASE TooManySkipped(st, m.pn)
    BY <1>5, <2>1 DEF Decrypt, Slot, SameSending
  <2>2. CASE ~TooManySkipped(st, m.pn)
    <3> DEFINE s == SkipMessageKeys(st, m.pn)
               t == DhRatchet(s, m.dh, fresh)
    <3>1. d = DecryptInChain(t, m)
      BY <1>5, <2>2 DEF Decrypt, Slot
    <3>2. Sound(e, s) /\ \A key \in ChainKey : Passed(st, key) => Passed(s, key)
      BY <1>2, SkippingKeeps
    <3>3. s.dhs = st.dhs /\ s.rk = st.rk /\ s.ns = st.ns
      BY <1>1, <1>2, Skipping, SMTT(60)
    <3> HIDE DEF s
    <3>4. Sound(e, t) /\ \A key \in ChainKey : Passed(s, key) => Passed(t, key)
      BY <1>2, <3>2, RatchetingKeeps
    <3>5. /\ t.dhs = fresh /\ t.cks = [root |-> t.rk, step |-> 0] /\ t.ns = 0 /\ t.pn = s.ns
          /\ t.rk = Append(Append(s.rk, DH(s.dhs, m.dh)), DH(fresh, m.dh))
      <4>1. IsState(s)
        BY <3>2 DEF Sound
      <4>2. t = DhRatchet(s, m.dh, fresh)
        OBVIOUS
      <4> HIDE DEF t
      <4>3. Ratcheted(s, t, m.dh, fresh)
        BY <1>2, <4>1, <4>2, Ratcheting
      <4> QED
        BY <4>3 DEF Ratcheted
    <3> HIDE DEF t
    <3>6. /\ Sound(e, d.st) /\ d.ok \in BOOLEAN
          /\ \A key \in ChainKey : Passed(t, key) => Passed(d.st, key)
          /\ d.ok => Passed(d.st, m.key) /\ ~Passed(t, m.key)
          /\ d.st.dhs = t.dhs /\ d.st.rk = t.rk /\ d.st.cks = t.cks
          /\ d.st.ns = t.ns /\ d.st.pn = t.pn
      BY <1>2, <3>1, <3>4, InChainKeeps
    <3>7. \A key \in ChainKey : Passed(st, key) => Passed(t, key)
      BY <3>2, <3>4
    <3> QED
      BY <1>2, <3>3, <3>5, <3>6, <3>7 DEF NewSending, NewRoot
  <2> QED
    BY <2>1, <2>2
<1> QED
  BY <1>3, <1>4, <1>5

\* encrypt: the message is sealed with the key the sending chain stands at.
LEMMA Encrypting ==
  ASSUME NEW e \in End, NEW st, Sound(e, st), st.cks # Null,
         NEW s, s = Encrypt(st).st
  PROVE  /\ Sound(e, s) /\ \A key \in ChainKey : Passed(st, key) => Passed(s, key)
         /\ s.dhs = st.dhs /\ s.rk = st.rk /\ s.ns = st.ns + 1 /\ s.pn = st.pn
         /\ s.dhr = st.dhr /\ s.ckr = st.ckr /\ s.nr = st.nr /\ s.skipped = st.skipped
         /\ s.cks # Null
<1>1. /\ IsState(st) /\ st.cks \in ChainKey /\ st.rk \in Root /\ st.ns \in Nat
      /\ st.cks = [root |-> st.rk, step |-> st.ns] /\ Receiving(Other(e), st.rk, st.dhs)
  BY DEF Sound, IsState
<1> DEFINE cks == [root |-> st.rk, step |-> st.ns + 1]
<1>2. cks \in ChainKey /\ cks # Null
  BY <1>1, Absent DEF ChainKey, Root
<1>3. s = [st EXCEPT !.cks = cks, !.ns = st.ns + 1]
  <2>1. [st.cks EXCEPT !.step = @ + 1] = cks
    BY <1>1
  <2> QED
    BY <1>1, <2>1 DEF Encrypt, KdfCk, IsState
<1>4. s = [dhs |-> st.dhs, dhr |-> st.dhr, rk |-> st.rk, cks |-> cks, ckr |-> st.ckr,
           ns |-> st.ns + 1, nr |-> st.nr, pn |-> st.pn, skipped |-> st.skipped]
  BY <1>1, <1>3 DEF IsState
<1>5. cks.root = st.rk /\ cks.step = st.ns + 1
  OBVIOUS
<1> HIDE DEF cks
<1>6. IsState(s)
  BY <1>1, <1>2, <1>4 DEF IsState
<1>7. Sound(e, s)
  BY <1>1, <1>4, <1>5, <1>6 DEF Sound, cks
<1>8. \A key \in ChainKey : Passed(st, key) => Passed(s, key)
  BY <1>4 DEF Passed
<1> QED
  BY <1>2, <1>4, <1>7, <1>8

\* The pairs of e in the roots st knows of are no younger than the one it sends
\* under, and its sending chain starts from that one and the peer's latest.
Aged(e, st) ==
  /\ UpTo(e.me, st.rk, st.dhs[2])
  /\ st.ckr # Null => UpTo(e.me, st.ckr.root, st.dhs[2])
  /\ \A k \in DOMAIN st.skipped : UpTo(e.me, st.skipped[k].root, st.dhs[2])
  /\ st.cks = Null => Len(st.rk) = e.base
  /\ st.cks # Null => st.dhr # Null /\ st.rk[Len(st.rk)] = DH(st.dhs, st.dhr)
  /\ Len(st.rk) > e.base + 1 => st.dhs[2] > 0

\* A bound on the pairs in a root can be raised.
LEMMA UpToMore ==
  ASSUME NEW e, NEW r \in Root, NEW j \in Nat, NEW k \in Nat, j <= k, UpTo(e.me, r, j)
  PROVE  UpTo(e.me, r, k)
<1>1. SUFFICES ASSUME NEW i \in 1 .. Len(r), NEW pair \in r[i], pair[1] = e.me PROVE pair[2] <= k
  BY DEF UpTo
<1>2. pair[2] <= j /\ pair \in Pair
  BY <1>1 DEF UpTo, Root
<1> QED
  BY <1>2 DEF Pair

\* The calls of the ratchet keep the pairs of a state no younger than its own.
LEMMA SkippingAges ==
  ASSUME NEW e \in End, NEW st, Sound(e, st), Aged(e, st), NEW until \in Nat,
         NEW s, s = SkipMessageKeys(st, until)
  PROVE  Aged(e, s)
<1>1. IsState(st) /\ (st.ckr # Null => st.ckr.step = st.nr)
  BY DEF Sound
<1>2. /\ s.dhs = st.dhs /\ s.dhr = st.dhr /\ s.rk = st.rk /\ s.cks = st.cks
      /\ s = st \/ Skipped(st, until, s)
  BY <1>1, Skipping
<1>3. CASE s = st
  BY <1>3
<1>4. CASE Skipped(st, until, s)
  <2>1. s.ckr.root = st.ckr.root /\ st.ckr # Null
    BY <1>4 DEF Skipped
  <2>2. ASSUME NEW k \in DOMAIN s.skipped
        PROVE  \/ s.skipped[k].root = st.ckr.root
               \/ k \in DOMAIN st.skipped /\ s.skipped[k] = st.skipped[k]
    <3>1. \/ s.skipped[k] = [root |-> st.ckr.root, step |-> k[2]]
          \/ k \in DOMAIN st.skipped /\ s.skipped[k] = st.skipped[k]
      BY <1>1, <1>4, <2>1, <2>2, SkippedEntries
    <3> QED
      BY <3>1
  <2> QED
    BY <1>2, <2>1, <2>2 DEF Aged
<1> QED
  BY <1>2, <1>3, <1>4

\* A new root is mixed from the pair before and the new one.
LEMMA RatchetingAges ==
  ASSUME NEW e \in End, NEW st, Sound(e, st), Aged(e, st), NEW dh \in Pair, dh[1] = e.peer,
         NEW fresh \in Pair, fresh[1] = e.me, st.dhs[2] < fresh[2], NEW s, s = DhRatchet(st, dh, fresh)
  PROVE  Aged(e, s)
<1>1. IsState(st) /\ st.rk \in Root /\ st.dhs \in Pair /\ dh # Null
  BY Absent DEF Sound, IsState
<1>2. IsState(s) /\ Ratcheted(st, s, dh, fresh)
  BY <1>1, Ratcheting
<1> DEFINE rk1 == Append(st.rk, DH(st.dhs, dh))
           rk2 == Append(rk1, DH(fresh, dh))
<1>3. /\ rk1 \in Root /\ rk2 \in Root /\ s.dhs = fresh /\ s.dhr = dh /\ s.rk = rk2
      /\ s.cks = [root |-> rk2, step |-> 0] /\ s.ckr = [root |-> rk1, step |-> 0]
      /\ s.skipped = st.skipped /\ s.cks \in ChainKey \cup {Null}
  BY <1>2 DEF Ratcheted, IsState
<1>4. /\ Len(st.rk) \in Nat /\ Len(rk1) = Len(st.rk) + 1 /\ Len(rk2) = Len(st.rk) + 2
      /\ \A i \in 1 .. Len(st.rk) : rk1[i] = st.rk[i] /\ rk2[i] = st.rk[i]
      /\ rk1[Len(st.rk) + 1] = DH(st.dhs, dh) /\ rk2[Len(st.rk) + 1] = DH(st.dhs, dh)
      /\ rk2[Len(st.rk) + 2] = DH(fresh, dh)
  BY <1>1 DEF Root, DH
<1> HIDE DEF rk1, rk2
<1>5. st.dhs[2] \in Nat /\ fresh[2] \in Nat /\ st.dhs[2] <= fresh[2] /\ e.peer # e.me
  BY <1>1, Ends DEF Pair
<1>6. \A r \in Root : UpTo(e.me, r, st.dhs[2]) => UpTo(e.me, r, fresh[2])
  BY <1>5, UpToMore
<1>7. UpTo(e.me, st.rk, fresh[2])
  BY <1>1, <1>6 DEF Aged
<1>8. ASSUME NEW r \in {rk1, rk2}, NEW i \in 1 .. Len(r), NEW pair \in r[i], pair[1] = e.me
      PROVE  pair[2] <= fresh[2]
  <2>1. CASE i \in 1 .. Len(st.rk)
    BY <1>4, <1>7, <1>8, <2>1 DEF UpTo
  <2>2. CASE i \in {Len(st.rk) + 1, Len(st.rk) + 2}
    <3>1. pair \in {st.dhs, dh, fresh}
      BY <1>4, <1>8, <2>2 DEF DH
    <3> QED
      BY <1>5, <1>8, <3>1
  <2> QED
    BY <1>4, <1>8, <2>1, <2>2
<1>9. UpTo(e.me, rk1, fresh[2]) /\ UpTo(e.me, rk2, fresh[2])
  BY <1>8 DEF UpTo
<1>10. \A k \in DOMAIN s.skipped : UpTo(e.me, s.skipped[k].root, fresh[2])
  <2>1. \A k \in DOMAIN st.skipped : st.skipped[k].root \in Root
    BY <1>1 DEF IsState, ChainKey, Root
  <2> QED
    BY <1>3, <1>6, <2>1 DEF Aged
<1>11. s.cks # Null
  <2>1. [root |-> rk2, step |-> 0] \in ChainKey
    BY <1>3 DEF ChainKey, Root
  <2> QED
    BY <1>3, <2>1, Absent
<1>12. s.rk[Len(s.rk)] = DH(s.dhs, s.dhr)
  BY <1>3, <1>4
<1> QED
  BY <1>1, <1>3, <1>5, <1>9, <1>10, <1>11, <1>12 DEF Aged

\* Taking the next key mixes nothing.
LEMMA InChainAges ==
  ASSUME NEW e \in End, NEW st, Sound(e, st), Aged(e, st), NEW msg, msg.n \in Nat,
         NEW d, d = DecryptInChain(st, msg)
  PROVE  Aged(e, d.st)
<1>1. IsState(st)
  BY DEF Sound
<1> DEFINE s == SkipMessageKeys(st, msg.n)
<1>2. Aged(e, s)
  BY <1>1, SkippingAges
<1>3. d.st = st \/ Advanced(s, d.st)
  <2>1. ChainOutcome(st, msg, s, d)
    BY <1>1, InChain
  <2> QED
    BY <2>1 DEF ChainOutcome
<1> HIDE DEF s
<1>4. CASE Advanced(s, d.st)
  BY <1>2, <1>4 DEF Advanced, Aged
<1> QED
  BY <1>3, <1>4

\* A call of decrypt, whole.
LEMMA DecryptingAges ==
  ASSUME NEW e \in End, NEW st, Sound(e, st), Aged(e, st), NEW m, Made(e, m),
         NEW fresh \in Pair, fresh[1] = e.me, st.dhs[2] < fresh[2],
         NEW d, d = Decrypt(st, m, fresh)
  PROVE  Aged(e, d.st)
<1>1. IsState(st)
  BY DEF Sound
<1>2. m.dh \in Pair /\ m.dh[1] = e.peer /\ m.n \in Nat /\ m.pn \in Nat
  BY DEF Made, Receiving
<1>3. CASE Slot(m) \in DOMAIN st.skipped
  <2>1. d = DecryptSkipped(st, m)
    BY <1>3 DEF Decrypt, Slot
  <2>2. d.st = st \/ Used(st, d.st, Slot(m))
    BY <1>1, <1>3, <2>1, FromSkipped
  <2> QED
    BY <2>2 DEF Used, Aged
<1>4. CASE Slot(m) \notin DOMAIN st.skipped /\ st.dhr = m.dh
  <2>1. d = DecryptInChain(st, m)
    BY <1>4 DEF Decrypt, Slot
  <2> QED
    BY <1>2, <2>1, InChainAges
<1>5. CASE Slot(m) \notin DOMAIN st.skipped /\ st.dhr # m.dh
  <2>1. CASE TooManySkipped(st, m.pn)
    BY <1>5, <2>1 DEF Decrypt, Slot
  <2>2. CASE ~TooManySkipped(st, m.pn)
    <3> DEFINE s == SkipMessageKeys(st, m.pn)
               t == DhRatchet(s, m.dh, fresh)
    <3>1. d = DecryptInChain(t, m)
      BY <1>5, <2>2 DEF Decrypt, Slot
    <3>2. Sound(e, s) /\ Aged(e, s) /\ s.dhs = st.dhs
      <4>1. Sound(e, s)
        BY <1>1, <1>2, SkippingKeeps
      <4>2. Aged(e, s)
        BY <1>1, <1>2, SkippingAges
      <4>3. s.dhs = st.dhs
        BY <1>1, <1>2, Skipping
      <4> QED
        BY <4>1, <4>2, <4>3
    <3>3. t = DhRatchet(s, m.dh, fresh)
      OBVIOUS
    <3> HIDE DEF s, t
    <3>4. Sound(e, t)
      BY <1>2, <3>2, <3>3, RatchetingKeeps
    <3>5. Aged(e, t)
      BY <1>2, <3>2, <3>3, RatchetingAges
    <3> QED
      BY <1>2, <3>1, <3>4, <3>5, InChainAges
  <2> QED
    BY <2>1, <2>2
<1> QED
  BY <1>3, <1>4, <1>5

\* The messages S on their way to e, as far as e's session depends on them.
Coherent(e, S) ==
  /\ \A x \in S : Made(e, x)
  /\ \A x, y \in S :
       /\ x.key = y.key => x = y
       /\ x.dh = y.dh => x.key.root = y.key.root
       /\ Len(x.key.root) = Len(y.key.root) => x.key.root = y.key.root
       /\ Len(x.key.root) = Len(y.key.root) - 2 => x.n < y.pn

\* The receiving chains in st, and how far it got on the last, come from S.
Witnessed(e, st, S) ==
  /\ st.ckr = Null => Len(st.rk) <= e.base + 1 /\ st.dhr \in {Null, e.first}
  /\ st.ckr # Null => \E x \in S : x.dh = st.dhr /\ x.key.root = st.ckr.root
  /\ \A k \in DOMAIN st.skipped : \E x \in S : x.dh = k[1] /\ x.key.root = st.skipped[k].root

Reached(st, S) ==
  st.ckr # Null /\ st.nr > 0 => \E x \in S : x.key.root = st.ckr.root /\ x.n = st.nr - 1

\* st can still open m: its key was put aside, or its chain has not got so far,
\* or its chain is yet to come.
OnChain(st, m) == st.ckr # Null /\ m.key.root = st.ckr.root /\ st.nr <= m.n
Readable(st, m) ==
  \/ Slot(m) \in DOMAIN st.skipped
  \/ OnChain(st, m)
  \/ Len(m.key.root) > Len(st.rk)

\* The fields of a message on its way to e.
LEMMA MadeFields ==
  ASSUME NEW e \in End, NEW S, Coherent(e, S), NEW m \in S
  PROVE  /\ m.key \in ChainKey /\ m.key.root \in Root /\ Len(m.key.root) \in Nat
         /\ m.key.step = m.n
         /\ m.n \in Nat /\ m.pn \in Nat
         /\ m.dh \in Pair /\ m.dh[1] = e.peer /\ Receiving(e, m.key.root, m.dh)
BY DEF Coherent, Made, ChainKey, Root, Receiving

\* A chain key is its root and its step.
LEMMA SameKey ==
  ASSUME NEW a \in ChainKey, NEW b \in ChainKey, a.root = b.root, a.step = b.step
  PROVE  a = b
BY DEF ChainKey

\* What is put aside in the slot of a message is the key of that message.
LEMMA SlotIsKey ==
  ASSUME NEW e \in End, NEW st, Sound(e, st), NEW S, Coherent(e, S), Witnessed(e, st, S),
         NEW m \in S, Slot(m) \in DOMAIN st.skipped
  PROVE  st.skipped[Slot(m)] = m.key
<1>1. PICK x \in S : x.dh = Slot(m)[1] /\ x.key.root = st.skipped[Slot(m)].root
  BY DEF Witnessed
<1>2. Slot(m)[1] = m.dh /\ Slot(m)[2] = m.n
  BY DEF Slot
<1>3. x.key.root = m.key.root
  BY <1>1, <1>2 DEF Coherent
<1>4. st.skipped[Slot(m)].step = m.n /\ st.skipped[Slot(m)] \in ChainKey
  <2> DEFINE k == Slot(m)
  <2>1. k \in DOMAIN st.skipped /\ k[2] = m.n
    BY <1>2
  <2> HIDE DEF k
  <2>2. st.skipped[k].step = k[2] /\ st.skipped[k] \in ChainKey
    BY <2>1 DEF Sound, IsState
  <2> QED
    BY <2>1, <2>2 DEF k
<1>5. m.key \in ChainKey /\ m.key.step = m.n
  BY MadeFields
<1> QED
  BY <1>1, <1>3, <1>4, <1>5, SameKey

\* Putting keys aside closes no message, and opens those it skipped.
LEMMA SkippingOpens ==
  ASSUME NEW e \in End, NEW st, Sound(e, st), NEW S, Coherent(e, S), Witnessed(e, st, S),
         NEW until \in Nat, NEW s, s = SkipMessageKeys(st, until)
  PROVE  /\ Witnessed(e, s, S) /\ \A y \in S : Readable(st, y) => Readable(s, y)
         /\ \A y \in S : OnChain(st, y) /\ y.n < until => Slot(y) \in DOMAIN s.skipped
         /\ DOMAIN st.skipped \subseteq DOMAIN s.skipped
<1>1. /\ IsState(st) /\ (st.ckr # Null => st.ckr.step = st.nr /\ Receiving(e, st.ckr.root, st.dhr))
      /\ st.nr \in Nat
  BY DEF Sound, IsState
<1>2. CASE s = st /\ (st.ckr = Null \/ until <= st.nr)
  <2>1. ASSUME NEW y \in S, OnChain(st, y), y.n < until PROVE FALSE
    <3>1. y.n \in Nat
      BY MadeFields
    <3> QED
      BY <1>1, <1>2, <2>1, <3>1 DEF OnChain
  <2> QED
    BY <1>2, <2>1
<1>3. CASE Skipped(st, until, s)
  <2>1. /\ IsState(s) /\ s.dhr = st.dhr /\ s.rk = st.rk
    BY <1>1, Skipping
  <2>2. /\ st.ckr # Null /\ s.nr = until
        /\ s.ckr = [root |-> st.ckr.root, step |-> st.ckr.step + (until - st.nr)]
        /\ s.ckr.root = st.ckr.root
        /\ DOMAIN s.skipped = Skips(st, until) \cup DOMAIN st.skipped
    BY <1>3 DEF Skipped
  <2>3. s.ckr # Null
    <3>1. s.ckr \in ChainKey
      BY <1>1, <2>1, <2>2 DEF IsState, ChainKey
    <3> QED
      BY <3>1, Absent
  <2>4. Witnessed(e, s, S)
    <3>1. PICK w \in S : w.dh = st.dhr /\ w.key.root = st.ckr.root
      BY <2>2 DEF Witnessed
    <3>2. ASSUME NEW k \in DOMAIN s.skipped
          PROVE  \E x \in S : x.dh = k[1] /\ x.key.root = s.skipped[k].root
      <4>1. CASE k[1] = st.dhr /\ s.skipped[k] = [root |-> st.ckr.root, step |-> k[2]]
        <5>1. s.skipped[k].root = st.ckr.root
          BY <4>1
        <5> QED
          BY <3>1, <4>1, <5>1
      <4>2. CASE k \in DOMAIN st.skipped /\ s.skipped[k] = st.skipped[k]
        BY <4>2 DEF Witnessed
      <4>3. st.ckr.step = st.nr
        BY <1>1, <2>2
      <4> QED
        BY <1>1, <1>3, <4>1, <4>2, <4>3, SkippedEntries
    <3> QED
      BY <2>1, <2>2, <2>3, <3>1, <3>2 DEF Witnessed
  <2>5. ASSUME NEW y \in S, OnChain(st, y), y.n < until PROVE Slot(y) \in DOMAIN s.skipped
    <3>1. Receiving(e, y.key.root, y.dh) /\ y.n \in Nat
      BY MadeFields
    <3>2. y.dh = st.dhr
      BY <1>1, <2>2, <2>5, <3>1, OneStart DEF OnChain
    <3>3. y.n \in st.nr .. until - 1
      BY <1>1, <2>5, <3>1 DEF OnChain
    <3> QED
      BY <2>2, <3>2, <3>3 DEF Slot, Skips
  <2>6. ASSUME NEW y \in S, Readable(st, y) PROVE Readable(s, y)
    <3>1. CASE OnChain(st, y) /\ ~(y.n < until)
      <4>1. y.n \in Nat
        BY MadeFields
      <4> QED
        BY <2>2, <2>3, <3>1, <4>1 DEF Readable, OnChain
    <3> QED
      BY <2>1, <2>2, <2>5, <2>6, <3>1 DEF Readable
  <2> QED
    BY <2>2, <2>4, <2>5, <2>6
<1> QED
  BY <1>1, <1>2, <1>3, Skipping

\* t begins the chain of m; what was put aside in st, and all of the chain, is open.
Begun(st, t, m, S) ==
  /\ t.ckr # Null /\ t.ckr.root = m.key.root /\ t.nr = 0
  /\ \A y \in S : Slot(y) \in DOMAIN st.skipped \/ y.key.root = m.key.root => Readable(t, y)

\* A new root, for the message that announces it.
LEMMA RatchetingOpens ==
  ASSUME NEW e \in End, NEW st, Sound(e, st), NEW S, Coherent(e, S), Witnessed(e, st, S),
         NEW m \in S, m.key.root = Append(st.rk, DH(st.dhs, m.dh)),
         NEW fresh \in Pair, NEW t, t = DhRatchet(st, m.dh, fresh)
  PROVE  Witnessed(e, t, S) /\ Reached(t, S) /\ Begun(st, t, m, S)
<1>1. m.dh \in Pair /\ IsState(st)
  BY MadeFields DEF Sound
<1>2. IsState(t) /\ Ratcheted(st, t, m.dh, fresh)
  BY <1>1, Ratcheting
<1>3. /\ t.dhr = m.dh /\ t.ckr = [root |-> m.key.root, step |-> 0] /\ t.nr = 0
      /\ t.skipped = st.skipped
  BY <1>2 DEF Ratcheted
<1>4. t.ckr # Null
  <2>1. [root |-> m.key.root, step |-> 0] \in ChainKey
    BY MadeFields DEF ChainKey, Root
  <2> QED
    BY <1>3, <2>1, Absent
<1>5. t.ckr.root = m.key.root
  BY <1>3
<1>6. Witnessed(e, t, S)
  BY <1>3, <1>4, <1>5 DEF Witnessed
<1>7. ASSUME NEW y \in S, Slot(y) \in DOMAIN st.skipped \/ y.key.root = m.key.root PROVE Readable(t, y)
  <2>1. 0 <= y.n
    BY MadeFields
  <2> QED
    BY <1>3, <1>4, <1>5, <1>7, <2>1 DEF Readable, OnChain
<1> QED
  BY <1>3, <1>4, <1>5, <1>6, <1>7 DEF Reached, Begun

\* Taking the key of m closes m only.
LEMMA AdvancingOpens ==
  ASSUME NEW e \in End, NEW st, Sound(e, st), NEW S, Coherent(e, S), Witnessed(e, st, S),
         NEW m \in S, st.ckr = m.key, NEW s, IsState(s), Advanced(st, s)
  PROVE  /\ Witnessed(e, s, S) /\ Reached(s, S)
         /\ \A y \in S \ {m} : Readable(st, y) => Readable(s, y)
<1>1. /\ st.ckr # Null /\ st.nr \in Nat /\ st.ckr.step = st.nr
      /\ s.nr = st.nr + 1 /\ s.ckr = [root |-> st.ckr.root, step |-> st.ckr.step + 1]
      /\ s.ckr.root = st.ckr.root /\ s.rk = st.rk /\ s.skipped = st.skipped /\ s.dhr = st.dhr
  BY DEF Sound, IsState, Advanced
<1>2. s.ckr # Null
  <2>1. s.ckr \in ChainKey
    BY <1>1, MadeFields DEF ChainKey
  <2> QED
    BY <2>1, Absent
<1>3. m.n = st.nr
  BY <1>1, MadeFields
<1>4. Witnessed(e, s, S)
  BY <1>1, <1>2 DEF Witnessed
<1>5. Reached(s, S)
  BY <1>1, <1>3 DEF Reached
<1>6. ASSUME NEW y \in S \ {m}, Readable(st, y) PROVE Readable(s, y)
  <2>1. CASE OnChain(st, y)
    <3>1. y.n \in Nat /\ y.key \in ChainKey /\ y.key.step = y.n
      BY MadeFields
    <3>2. m.key \in ChainKey /\ m.key.step = m.n
      BY MadeFields
    <3>3. y.n # st.nr
      <4>1. y.key # m.key
        BY DEF Coherent
      <4>2. y.key.root = m.key.root
        BY <2>1 DEF OnChain
      <4> QED
        BY <1>3, <3>1, <3>2, <4>1, <4>2, SameKey
    <3> QED
      BY <1>1, <1>2, <2>1, <3>1, <3>3 DEF Readable, OnChain
  <2> QED
    BY <1>1, <1>6, <2>1 DEF Readable
<1> QED
  BY <1>4, <1>5, <1>6

\* Using the key put aside for m closes m only.
LEMMA UsingSkippedOpens ==
  ASSUME NEW e \in End, NEW st, Sound(e, st), NEW S, Coherent(e, S), Witnessed(e, st, S),
         Reached(st, S), NEW m \in S, Slot(m) \in DOMAIN st.skipped,
         NEW s, Used(st, s, Slot(m))
  PROVE  /\ Witnessed(e, s, S) /\ Reached(s, S)
         /\ \A y \in S \ {m} : Readable(st, y) => Readable(s, y)
<1> USE DEF Used
<1>1. Witnessed(e, s, S)
  BY DEF Witnessed
<1>2. Reached(s, S)
  BY DEF Reached
<1>3. ASSUME NEW y \in S \ {m}, Readable(st, y) PROVE Readable(s, y)
  <2>1. CASE Slot(y) \in DOMAIN st.skipped
    <3>1. st.skipped[Slot(y)] = y.key /\ st.skipped[Slot(m)] = m.key
      BY <2>1, SlotIsKey
    <3>2. Slot(y) # Slot(m)
      BY <3>1 DEF Coherent
    <3> QED
      BY <2>1, <3>2 DEF Readable
  <2> QED
    BY <1>3, <2>1 DEF Readable, OnChain
<1> QED
  BY <1>1, <1>2, <1>3

\* decrypt on the receiving chain of m: m opens unless it is too far ahead.
LEMMA InChainOpens ==
  ASSUME NEW e \in End, NEW st, Sound(e, st), NEW S, Coherent(e, S), Witnessed(e, st, S),
         Reached(st, S), NEW m \in S, OnChain(st, m), NEW d, d = DecryptInChain(st, m)
  PROVE  /\ Witnessed(e, d.st, S) /\ Reached(d.st, S)
         /\ \A y \in S : Readable(st, y) /\ (d.ok => y # m) => Readable(d.st, y)
         /\ ~d.ok => st.nr + MAX_SKIP < m.n
<1>1. IsState(st) /\ m.n \in Nat
  BY MadeFields DEF Sound
<1>2. /\ st.ckr # Null /\ m.key.root = st.ckr.root /\ st.nr <= m.n
      /\ st.ckr \in ChainKey /\ st.nr \in Nat /\ st.ckr.step = st.nr
  BY <1>1 DEF OnChain, Sound, IsState
<1> DEFINE s == SkipMessageKeys(st, m.n)
<1>3. \/ TooManySkipped(st, m.n) /\ d.st = st /\ d.ok = FALSE
      \/ IsState(d.st) /\ Advanced(s, d.st) /\ d.ok \in BOOLEAN /\ (d.ok <=> s.ckr = m.key)
  <2>1. s = SkipMessageKeys(st, m.n)
    OBVIOUS
  <2> HIDE DEF s
  <2>2. ChainOutcome(st, m, s, d)
    BY <1>1, <2>1, InChain
  <2> QED
    BY <1>2, <2>2 DEF ChainOutcome
<1>4. /\ IsState(s) /\ Sound(e, s) /\ Witnessed(e, s, S)
      /\ \A y \in S : Readable(st, y) => Readable(s, y)
  <2>1. Sound(e, s)
    BY <1>1, SkippingKeeps
  <2>2. Witnessed(e, s, S) /\ \A y \in S : Readable(st, y) => Readable(s, y)
    BY <1>1, SkippingOpens
  <2> QED
    BY <2>1, <2>2 DEF Sound
<1>5. s.ckr = m.key
  <2>1. \/ s = st /\ m.n <= st.nr
        \/ Skipped(st, m.n, s)
    BY <1>1, <1>2, Skipping
  <2>2. s.ckr.root = m.key.root /\ s.ckr.step = m.n /\ s.ckr \in ChainKey
    <3>1. CASE s = st /\ m.n <= st.nr
      BY <1>1, <1>2, <3>1
    <3>2. CASE Skipped(st, m.n, s)
      <4>1. s.ckr = [root |-> st.ckr.root, step |-> st.ckr.step + (m.n - st.nr)]
        BY <3>2 DEF Skipped
      <4> HIDE DEF s
      <4> QED
        BY <1>1, <1>2, <4>1 DEF ChainKey
    <3> QED
      BY <2>1, <3>1, <3>2
  <2>3. m.key \in ChainKey /\ m.key.step = m.n
    BY MadeFields
  <2> QED
    BY <2>2, <2>3, SameKey
<1> HIDE DEF s
<1>6. CASE TooManySkipped(st, m.n) /\ d.st = st /\ d.ok = FALSE
  BY <1>6 DEF TooManySkipped
<1>7. CASE IsState(d.st) /\ Advanced(s, d.st) /\ d.ok
  <2>1. /\ Witnessed(e, d.st, S) /\ Reached(d.st, S)
        /\ \A y \in S \ {m} : Readable(s, y) => Readable(d.st, y)
    BY <1>4, <1>5, <1>7, AdvancingOpens
  <2> QED
    BY <1>4, <1>7, <2>1
<1> QED
  BY <1>3, <1>5, <1>6, <1>7

\* A chain st has not heard of begins with its own pair.
Onward(e, st, S) ==
  \A y \in S :
    Len(y.key.root) > Len(st.rk) =>
      y.key.root = Append(st.rk, DH(st.dhs, y.dh)) /\ y.dh # e.first

\* A state is at most one root ahead of what is on the peer's disk, and that root
\* is mixed from the pair found there.
Linked(st, other) ==
  /\ Len(st.rk) <= Len(other.rk) + 1
  /\ \A i \in 1 .. Len(st.rk) - 1 : st.rk[i] = other.rk[i]
  /\ Len(st.rk) = Len(other.rk) + 1 => other.dhs \in st.rk[Len(st.rk)]

\* Why a call of decrypt may fail.
TooFar(st, m) ==
  \/ OnChain(st, m) /\ st.nr + MAX_SKIP < m.n
  \/ Len(m.key.root) > Len(st.rk) /\ st.ckr # Null /\ st.nr + MAX_SKIP < m.pn
  \/ Len(m.key.root) > Len(st.rk) /\ MAX_SKIP < m.n

\* decrypt, on a message that is open: it opens, or too many are missing, and
\* all the others stay open.
LEMMA DecryptingOpens ==
  ASSUME NEW e \in End, NEW st, Sound(e, st), NEW S, Coherent(e, S), Witnessed(e, st, S),
         Reached(st, S), Onward(e, st, S), NEW m \in S, Readable(st, m),
         NEW fresh \in Pair, fresh[1] = e.me, NEW d, d = Decrypt(st, m, fresh)
  PROVE  /\ Witnessed(e, d.st, S) /\ Reached(d.st, S)
         /\ \A y \in S : Readable(st, y) /\ (d.ok => y # m) => Readable(d.st, y)
         /\ ~d.ok => TooFar(st, m)
         /\ d.st.rk # st.rk => m.key.root = Append(st.rk, DH(st.dhs, m.dh))
<1>1. /\ IsState(st) /\ m.n \in Nat /\ m.pn \in Nat /\ m.dh \in Pair /\ m.dh[1] = e.peer
      /\ Receiving(e, m.key.root, m.dh) /\ Made(e, m)
  BY MadeFields DEF Sound, Coherent
<1>2. CASE Slot(m) \in DOMAIN st.skipped
  <2>1. d = DecryptSkipped(st, m)
    BY <1>2 DEF Decrypt, Slot
  <2>2. st.skipped[Slot(m)] = m.key
    BY <1>2, SlotIsKey
  <2>3. d.ok = TRUE /\ Used(st, d.st, Slot(m))
    BY <1>1, <1>2, <2>1, <2>2, FromSkipped
  <2>4. /\ Witnessed(e, d.st, S) /\ Reached(d.st, S)
        /\ \A y \in S \ {m} : Readable(st, y) => Readable(d.st, y)
    BY <1>2, <2>3, UsingSkippedOpens
  <2>5. d.st.rk = st.rk
    BY <2>3 DEF Used
  <2> QED
    BY <2>3, <2>4, <2>5
<1>3. CASE Slot(m) \notin DOMAIN st.skipped /\ st.dhr = m.dh
  <2>1. d = DecryptInChain(st, m)
    BY <1>3 DEF Decrypt, Slot
  <2>2. OnChain(st, m)
    <3>1. st.ckr # Null
      <4>1. SUFFICES ASSUME st.ckr = Null PROVE FALSE
        OBVIOUS
      <4>2. m.dh = e.first
        BY <1>1, <1>3, <4>1, Absent DEF Witnessed
      <4> QED
        BY <1>3, <4>1, <4>2 DEF Readable, OnChain, Onward
    <3>2. PICK x \in S : x.dh = st.dhr /\ x.key.root = st.ckr.root
      BY <3>1 DEF Witnessed
    <3>3. m.key.root = st.ckr.root
      BY <1>3, <3>2 DEF Coherent
    <3>4. Len(st.ckr.root) = Len(st.rk) - 1 /\ Len(st.rk) \in Nat
      BY <1>1, <3>1 DEF Sound, IsState, Root
    <3> QED
      BY <1>3, <3>3, <3>4 DEF Readable
  <2>3. d.st.rk = st.rk
    BY <1>1, <2>1, InChainKeeps DEF Made
  <2> QED
    BY <2>1, <2>2, <2>3, InChainOpens DEF TooFar
<1>4. CASE Slot(m) \notin DOMAIN st.skipped /\ st.dhr # m.dh
  <2>1. Len(m.key.root) > Len(st.rk)
    <3>1. ~OnChain(st, m)
      <4>1. SUFFICES ASSUME OnChain(st, m) PROVE FALSE
        OBVIOUS
      <4>2. Receiving(e, m.key.root, st.dhr)
        BY <4>1 DEF OnChain, Sound
      <4> QED
        BY <1>1, <1>4, <4>2, OneStart
    <3> QED
      BY <1>4, <3>1 DEF Readable
  <2>2. m.key.root = Append(st.rk, DH(st.dhs, m.dh))
    BY <2>1 DEF Onward
  <2>3. CASE TooManySkipped(st, m.pn)
    <3>1. d.st = st /\ d.ok = FALSE
      BY <1>4, <2>3 DEF Decrypt, Slot
    <3> QED
      BY <2>1, <2>3, <3>1 DEF TooManySkipped, TooFar
  <2>4. CASE ~TooManySkipped(st, m.pn)
    <3> DEFINE s == SkipMessageKeys(st, m.pn)
               t == DhRatchet(s, m.dh, fresh)
    <3>1. d = DecryptInChain(t, m)
      BY <1>4, <2>4 DEF Decrypt, Slot
    <3>2. Sound(e, s) /\ s.dhs = st.dhs /\ s.rk = st.rk
      BY <1>1, SkippingKeeps, Skipping, SMTT(20)
    <3>3. /\ Witnessed(e, s, S) /\ DOMAIN st.skipped \subseteq DOMAIN s.skipped
          /\ \A y \in S : OnChain(st, y) /\ y.n < m.pn => Slot(y) \in DOMAIN s.skipped
      BY <1>1, SkippingOpens
    <3>4. t = DhRatchet(s, m.dh, fresh)
      OBVIOUS
    <3> HIDE DEF s, t
    <3>5. Sound(e, t)
      BY <1>1, <3>2, <3>4, RatchetingKeeps
    <3>6. Witnessed(e, t, S) /\ Reached(t, S) /\ Begun(s, t, m, S)
      <4>1. m.key.root = Append(s.rk, DH(s.dhs, m.dh))
        BY <2>2, <3>2
      <4> QED
        BY <3>2, <3>3, <3>4, <4>1, RatchetingOpens
    <3>7. ASSUME NEW y \in S, Readable(st, y) PROVE Readable(t, y)
      <4>1. CASE Slot(y) \in DOMAIN st.skipped
        BY <3>3, <3>6, <4>1 DEF Begun
      <4>2. CASE OnChain(st, y)
        <5>1. Len(y.key.root) = Len(m.key.root) - 2
          <6>1. /\ Len(st.ckr.root) = Len(st.rk) - 1 /\ Len(st.rk) \in Nat
                /\ st.rk \in Root /\ st.dhs \in Pair
            BY <1>1, <4>2 DEF OnChain, Sound, IsState, Root
          <6>2. Len(m.key.root) = Len(st.rk) + 1
            BY <2>2, <6>1 DEF Root, DH
          <6> QED
            BY <4>2, <6>1, <6>2 DEF OnChain
        <5>2. y.n < m.pn
          BY <5>1 DEF Coherent
        <5> QED
          BY <3>3, <3>6, <4>2, <5>2 DEF Begun
      <4>3. CASE Len(y.key.root) > Len(st.rk)
        <5>1. Len(y.key.root) = Len(m.key.root)
          <6>1. y.key.root = Append(st.rk, DH(st.dhs, y.dh)) /\ y.dh \in Pair
            BY <4>3, MadeFields DEF Onward
          <6>2. st.rk \in Root /\ st.dhs \in Pair
            BY <1>1 DEF IsState
          <6> QED
            BY <1>1, <2>2, <6>1, <6>2 DEF Root, DH
        <5> QED
          BY <3>6, <5>1 DEF Begun, Coherent
      <4> QED
        BY <3>7, <4>1, <4>2, <4>3 DEF Readable
    <3>8. OnChain(t, m)
      BY <1>1, <3>6 DEF OnChain, Begun
    <3>9. /\ Witnessed(e, d.st, S) /\ Reached(d.st, S)
          /\ \A y \in S : Readable(t, y) /\ (d.ok => y # m) => Readable(d.st, y)
          /\ ~d.ok => 0 + MAX_SKIP < m.n
      BY <3>1, <3>5, <3>6, <3>8, InChainOpens DEF Begun
    <3>10. MAX_SKIP \in Nat
      BY RatchetAssumption
    <3> QED
      BY <1>1, <2>1, <2>2, <3>7, <3>9, <3>10 DEF TooFar
  <2> QED
    BY <2>3, <2>4
<1> QED
  BY <1>2, <1>3, <1>4
-----------------------------------------------------------------------------
\* Two ends that save at once what they do.  `out` is what the end e has sent, as
\* far as it was opened or may still be, when its owner has generated k key pairs
\* and encrypted c messages.
Own(e, st, out, k, c) ==
  /\ Sound(e, st) /\ Len(st.rk) >= e.base
  /\ st.dhs[2] <= k /\ UpTo(e.me, st.rk, k) /\ st.ns <= c /\ st.pn <= c
  /\ st.cks # Null => Len(st.rk) > e.base /\ st.dhs # e.first
  /\ Coherent(Other(e), out)
  /\ \A x \in out :
       /\ Len(x.key.root) > e.base /\ x.dh # e.first
       /\ UpTo(e.me, x.key.root, k) /\ x.n < c /\ x.pn <= c
       /\ Prefix(x.key.root, st.rk)
       /\ (x.key.root = st.rk) = (x.dh = st.dhs)
       /\ x.key.root = st.rk => x.n < st.ns
       /\ Len(x.key.root) = Len(st.rk) - 2 => x.n < st.pn

\* Of the messages `in` the end e has opened `got`, and can open the others.
Heard(e, st, other, in, got) ==
  /\ got \subseteq in
  /\ Linked(st, other) /\ Witnessed(e, st, got) /\ Reached(st, got)
  /\ \A y \in in \ got : Readable(st, y)

\* The fields of a state, and of a message it sent.
LEMMA OwnFields ==
  ASSUME NEW e \in End, NEW k, NEW c, NEW out, NEW st, Own(e, st, out, k, c)
  PROVE  /\ IsState(st) /\ st.rk \in Root /\ Len(st.rk) \in Nat /\ st.dhs \in Pair
         /\ st.dhs[1] = e.me /\ st.dhs[2] \in Nat /\ Parity(e, st.rk)
         /\ st.ns \in Nat /\ st.nr \in Nat /\ st.pn \in Nat
         /\ \A x \in out :
              /\ x.key \in ChainKey /\ x.key.root \in Root /\ Len(x.key.root) \in Nat
              /\ x.key.step = x.n /\ x.n \in Nat /\ x.pn \in Nat
              /\ x.dh \in Pair /\ x.dh[1] = e.me /\ x.dh[2] \in Nat
              /\ Receiving(Other(e), x.key.root, x.dh) /\ Parity(e, x.key.root)
<1>1. /\ IsState(st) /\ st.rk \in Root /\ Len(st.rk) \in Nat /\ st.dhs \in Pair
      /\ st.dhs[1] = e.me /\ Parity(e, st.rk)
      /\ st.ns \in Nat /\ st.nr \in Nat /\ st.pn \in Nat
  BY DEF Own, Sound, IsState, Root
<1>2. ASSUME NEW x \in out
      PROVE  /\ x.key \in ChainKey /\ x.key.root \in Root /\ Len(x.key.root) \in Nat
             /\ x.key.step = x.n /\ x.n \in Nat /\ x.pn \in Nat
             /\ x.dh \in Pair /\ x.dh[1] = e.me
             /\ Receiving(Other(e), x.key.root, x.dh) /\ Parity(e, x.key.root)
  <2>1. Other(e) \in End /\ Other(e).peer = e.me /\ Other(Other(e)) = e /\ Coherent(Other(e), out)
    BY Ends DEF Own
  <2>2. /\ x.key \in ChainKey /\ x.key.root \in Root /\ Len(x.key.root) \in Nat
        /\ x.key.step = x.n /\ x.n \in Nat /\ x.pn \in Nat
        /\ x.dh \in Pair /\ x.dh[1] = e.me /\ Receiving(Other(e), x.key.root, x.dh)
    BY <2>1, MadeFields
  <2> QED
    BY <2>1, <2>2 DEF Receiving
<1> QED
  BY <1>1, <1>2 DEF Pair

\* The bounds may grow, and messages be lost that were not opened.
LEMMA OwnLater ==
  ASSUME NEW e \in End, NEW k \in Nat, NEW c \in Nat, NEW out, NEW st, Own(e, st, out, k, c),
         NEW k2 \in Nat, NEW c2 \in Nat, k <= k2, c <= c2, NEW rest \in SUBSET out
  PROVE  Own(e, st, rest, k2, c2)
<1>1. /\ st.rk \in Root /\ st.dhs[2] \in Nat /\ st.ns \in Nat /\ st.pn \in Nat
      /\ \A x \in out : x.key.root \in Root /\ x.n \in Nat /\ x.pn \in Nat
  BY OwnFields
<1>2. UpTo(e.me, st.rk, k2) /\ \A x \in out : UpTo(e.me, x.key.root, k2)
  BY <1>1, UpToMore DEF Own
<1>3. Coherent(Other(e), rest)
  BY DEF Own, Coherent
<1> QED
  BY <1>1, <1>2, <1>3 DEF Own

LEMMA HeardLess ==
  ASSUME NEW e, NEW st, NEW other, NEW in, NEW got, Heard(e, st, other, in, got),
         NEW rest \in SUBSET in, got \subseteq rest
  PROVE  Heard(e, st, other, rest, got)
BY DEF Heard

\* encrypt (ratchet.js:91-102): the message is one more of its owner's, under a
\* key no other has.
LEMMA EncryptingOwn ==
  ASSUME NEW e \in End, NEW k \in Nat, NEW c \in Nat, NEW out, NEW st, Own(e, st, out, k, c),
         st.cks # Null, NEW r, r = Encrypt(st)
  PROVE  Own(e, r.st, out \cup {r.msg}, k, c + 1) /\ r.msg \notin out
<1> DEFINE m == r.msg  s == r.st
<1>1. /\ Sound(e, st) /\ Len(st.rk) > e.base /\ st.dhs # e.first
      /\ UpTo(e.me, st.rk, k) /\ st.dhs[2] <= k /\ st.ns <= c /\ st.pn <= c
      /\ Coherent(Other(e), out) /\ Len(st.rk) >= e.base
  BY DEF Own
<1>2. /\ IsState(st) /\ st.rk \in Root /\ Len(st.rk) \in Nat /\ st.dhs \in Pair
      /\ st.ns \in Nat /\ st.pn \in Nat
      /\ \A x \in out :
              /\ x.key \in ChainKey /\ x.key.root \in Root /\ Len(x.key.root) \in Nat
              /\ x.key.step = x.n /\ x.n \in Nat /\ x.pn \in Nat
  BY OwnFields
<1>3. /\ st.cks \in ChainKey /\ st.cks.root = st.rk /\ st.cks.step = st.ns
      /\ Receiving(Other(e), st.rk, st.dhs)
  BY <1>1, <1>2 DEF Sound, IsState
<1>4. m.dh = st.dhs /\ m.pn = st.pn /\ m.n = st.ns /\ m.key = st.cks
  BY DEF Encrypt
<1>5. s = Encrypt(st).st
  OBVIOUS
<1> HIDE DEF m, s
<1>6. Sound(e, s) /\ s.dhs = st.dhs /\ s.rk = st.rk /\ s.ns = st.ns + 1 /\ s.pn = st.pn
  BY <1>1, <1>5, Encrypting
<1>7. Made(Other(e), m)
  BY <1>2, <1>3, <1>4 DEF Made
<1>8. ASSUME NEW x \in out
      PROVE  /\ x.key # m.key /\ x.dh = m.dh <=> x.key.root = m.key.root
             /\ Len(x.key.root) = Len(m.key.root) => x.key.root = m.key.root
             /\ Len(x.key.root) = Len(m.key.root) - 2 => x.n < m.pn
             /\ Len(m.key.root) # Len(x.key.root) - 2
  <2>1. /\ Prefix(x.key.root, st.rk) /\ (x.key.root = st.rk) = (x.dh = st.dhs)
        /\ x.key.root = st.rk => x.n < st.ns
        /\ Len(x.key.root) = Len(st.rk) - 2 => x.n < st.pn
    BY DEF Own
  <2>2. x.key # m.key
    <3>1. CASE x.key.root = st.rk
      <4>1. x.key.step # m.key.step
        BY <1>2, <1>3, <1>4, <2>1, <3>1
      <4> QED
        BY <4>1
    <3>2. CASE x.key.root # st.rk
      BY <1>3, <1>4, <3>2
    <3> QED
      BY <3>1, <3>2
  <2>3. Len(x.key.root) = Len(st.rk) => x.key.root = st.rk
    BY <1>2, <2>1, PrefixOrder
  <2>4. Len(st.rk) # Len(x.key.root) - 2
    BY <1>2, <2>1 DEF Prefix
  <2> QED
    BY <1>3, <1>4, <2>1, <2>2, <2>3, <2>4
<1>9. Coherent(Other(e), out \cup {m})
  <2>1. Len(m.key.root) # Len(m.key.root) - 2
    BY <1>2, <1>3, <1>4
  <2>2. \A x \in out : Made(Other(e), x)
    BY <1>1 DEF Coherent
  <2>3. ASSUME NEW x \in out \cup {m}, NEW y \in out \cup {m}
        PROVE  /\ x.key = y.key => x = y
               /\ x.dh = y.dh => x.key.root = y.key.root
               /\ Len(x.key.root) = Len(y.key.root) => x.key.root = y.key.root
               /\ Len(x.key.root) = Len(y.key.root) - 2 => x.n < y.pn
    <3>1. CASE x \in out /\ y \in out
      BY <1>1, <3>1 DEF Coherent
    <3>2. CASE x \in out /\ y = m
      BY <1>8, <3>2
    <3>3. CASE x = m /\ y \in out
      BY <1>8, <3>3
    <3>4. CASE x = m /\ y = m
      BY <2>1, <3>4
    <3> QED
      BY <2>3, <3>1, <3>2, <3>3, <3>4
  <2> QED
    BY <1>7, <2>2, <2>3 DEF Coherent
<1>10. ASSUME NEW x \in out \cup {m}
       PROVE  /\ Len(x.key.root) > e.base /\ x.dh # e.first
              /\ UpTo(e.me, x.key.root, k) /\ x.n < c + 1 /\ x.pn <= c + 1
              /\ Prefix(x.key.root, s.rk)
              /\ (x.key.root = s.rk) = (x.dh = s.dhs)
              /\ x.key.root = s.rk => x.n < s.ns
              /\ Len(x.key.root) = Len(s.rk) - 2 => x.n < s.pn
  <2>1. CASE x \in out
    <3>1. /\ Len(x.key.root) > e.base /\ x.dh # e.first
          /\ UpTo(e.me, x.key.root, k) /\ x.n < c /\ x.pn <= c
          /\ Prefix(x.key.root, st.rk) /\ (x.key.root = st.rk) = (x.dh = st.dhs)
          /\ x.key.root = st.rk => x.n < st.ns
          /\ Len(x.key.root) = Len(st.rk) - 2 => x.n < st.pn
      BY <2>1 DEF Own
    <3> QED
      BY <1>2, <1>6, <2>1, <3>1
  <2>2. CASE x = m
    <3>1. Prefix(st.rk, st.rk)
      BY <1>2, PrefixOrder
    <3> QED
      BY <1>1, <1>2, <1>3, <1>4, <1>6, <2>2, <3>1, SMTT(30)
  <2> QED
    BY <2>1, <2>2
<1>11. s.cks # Null => Len(s.rk) > e.base /\ s.dhs # e.first
  BY <1>1, <1>6
<1>12. s.dhs[2] <= k /\ UpTo(e.me, s.rk, k) /\ s.ns <= c + 1 /\ s.pn <= c + 1
  BY <1>1, <1>2, <1>6
<1>13. Own(e, s, out \cup {m}, k, c + 1)
  BY <1>1, <1>6, <1>9, <1>10, <1>11, <1>12 DEF Own
<1>14. m \notin out
  BY <1>8
<1> QED
  BY <1>13, <1>14 DEF m, s

\* The one who encrypts has heard what it had.
LEMMA EncryptingHeard ==
  ASSUME NEW e \in End, NEW st, Sound(e, st), st.cks # Null, NEW s, s = Encrypt(st).st,
         NEW other, NEW in, NEW got, Heard(e, st, other, in, got)
  PROVE  Heard(e, s, other, in, got)
<1>1. /\ s.rk = st.rk /\ s.dhr = st.dhr /\ s.ckr = st.ckr /\ s.nr = st.nr
      /\ s.skipped = st.skipped
  BY Encrypting
<1>2. Linked(s, other) /\ Witnessed(e, s, got) /\ Reached(s, got)
  BY <1>1 DEF Heard, Linked, Witnessed, Reached
<1>3. \A y \in in \ got : Readable(s, y)
  BY <1>1 DEF Heard, Readable, OnChain
<1> QED
  BY <1>2, <1>3 DEF Heard

\* What is encrypted is open to the other end.
LEMMA EncryptingOpens ==
  ASSUME NEW e \in End, NEW k \in Nat, NEW c \in Nat, NEW out, NEW st, Own(e, st, out, k, c),
         st.cks # Null, NEW r, r = Encrypt(st),
         NEW other, Sound(Other(e), other), NEW got, Heard(Other(e), other, st, out, got)
  PROVE  Heard(Other(e), other, r.st, out \cup {r.msg}, got)
<1> DEFINE m == r.msg  s == r.st
<1>1. Sound(e, st) /\ Len(st.rk) > e.base
  BY DEF Own
<1>2. /\ st.rk \in Root /\ Len(st.rk) \in Nat /\ st.ns \in Nat /\ Parity(e, st.rk)
      /\ IsState(st)
      /\ \A x \in out : x.key.root \in Root /\ x.n \in Nat
  BY OwnFields
<1>3. m.n = st.ns /\ m.key = st.cks /\ st.cks.root = st.rk
  BY <1>1 DEF Encrypt, Sound
<1>4. s = Encrypt(st).st
  OBVIOUS
<1> HIDE DEF m, s
<1>5. s.rk = st.rk /\ s.dhs = st.dhs
  BY <1>1, <1>4, Encrypting
<1>6. /\ IsState(other) /\ Len(other.rk) \in Nat /\ other.nr \in Nat /\ Parity(Other(e), other.rk)
      /\ other.ckr # Null => /\ Len(other.ckr.root) = Len(other.rk) - 1
                             /\ other.ckr \in ChainKey
  BY DEF Sound, IsState, Root
<1>7. Linked(other, st) /\ Witnessed(Other(e), other, got) /\ Reached(other, got) /\ got \subseteq out
  BY DEF Heard
<1>8. Readable(other, m)
  <2>1. SUFFICES ASSUME ~(Len(st.rk) > Len(other.rk)) PROVE OnChain(other, m)
    BY <1>3 DEF Readable
  <2>2. Len(st.rk) = Len(other.rk) - 1
    <3>1. Other(e).side = 1 - e.side /\ e.side \in {0, 1}
      BY Ends
    <3>2. Len(st.rk) # Len(other.rk)
      <4>1. Len(st.rk) % 2 = e.side /\ Len(other.rk) % 2 = 1 - e.side
        BY <1>2, <1>6, <3>1 DEF Parity
      <4>2. e.side # 1 - e.side
        BY <3>1
      <4> QED
        BY <4>1, <4>2
    <3>3. Len(other.rk) <= Len(st.rk) + 1
      BY <1>7 DEF Linked
    <3> QED
      BY <1>2, <1>6, <2>1, <3>2, <3>3
  <2>3. other.ckr # Null
    <3>1. Other(e).base = e.base /\ e.base \in Nat
      BY Ends
    <3> QED
      BY <1>1, <1>2, <1>6, <1>7, <2>2, <3>1 DEF Witnessed
  <2>4. st.rk = other.ckr.root
    <3>1. PICK x \in got : x.key.root = other.ckr.root
      BY <1>7, <2>3 DEF Witnessed
    <3>2. x.key.root \in Root /\ Prefix(x.key.root, st.rk)
      BY <1>2, <1>7 DEF Own
    <3> QED
      BY <1>2, <1>6, <2>2, <2>3, <3>1, <3>2, PrefixOrder
  <2>5. other.nr <= m.n
    <3>1. CASE other.nr = 0
      BY <1>2, <1>3, <3>1
    <3>2. CASE other.nr > 0
      <4>1. PICK x \in got : x.key.root = other.ckr.root /\ x.n = other.nr - 1
        BY <1>7, <2>3, <3>2 DEF Reached
      <4>2. x.n < st.ns /\ x.n \in Nat
        BY <1>2, <1>7, <2>4, <4>1 DEF Own
      <4> QED
        BY <1>2, <1>3, <1>6, <4>1, <4>2
    <3> QED
      BY <1>6, <3>1, <3>2
  <2> QED
    BY <1>3, <2>3, <2>4, <2>5 DEF OnChain
<1>9. Linked(other, s)
  BY <1>5, <1>7 DEF Linked
<1>10. Heard(Other(e), other, s, out \cup {m}, got)
  BY <1>7, <1>8, <1>9 DEF Heard
<1> QED
  BY <1>10 DEF m, s
\* decrypt (ratchet.js:104-137), whatever comes in: what its owner has sent is
\* still its own.
LEMMA DecryptingOwn ==
  ASSUME NEW e \in End, NEW k \in Nat, NEW c \in Nat, NEW out, NEW st, Own(e, st, out, k, c),
         NEW m, Made(e, m), NEW fresh, fresh = <<e.me, k + 1>>, fresh # e.first,
         NEW d, d = Decrypt(st, m, fresh)
  PROVE  Own(e, d.st, out, IF d.st.dhs = fresh THEN k + 1 ELSE k, c)
<1> DEFINE s == d.st
<1>1. /\ Sound(e, st) /\ Len(st.rk) >= e.base /\ st.dhs[2] <= k /\ UpTo(e.me, st.rk, k)
      /\ st.ns <= c /\ st.pn <= c /\ Coherent(Other(e), out)
      /\ st.cks # Null => Len(st.rk) > e.base /\ st.dhs # e.first
  BY DEF Own
<1>2. /\ st.rk \in Root /\ Len(st.rk) \in Nat /\ st.dhs \in Pair /\ st.dhs[2] \in Nat
      /\ st.ns \in Nat /\ e.base \in Nat /\ e.me \in Member
      /\ \A x \in out : /\ x.key.root \in Root /\ Len(x.key.root) \in Nat /\ x.n \in Nat
                        /\ x.pn \in Nat
                        /\ x.dh[1] = e.me /\ Receiving(Other(e), x.key.root, x.dh)
  BY OwnFields, Ends
<1>3. /\ fresh \in Pair /\ fresh[1] = e.me /\ fresh[2] = k + 1
      /\ m.dh \in Pair /\ m.dh[1] = e.peer
  BY <1>2 DEF Pair, Made, Receiving
<1>4. Sound(e, s) /\ (SameSending(st, s) \/ NewSending(st, s, m.dh, fresh))
  BY <1>1, <1>3, Decrypting
<1> HIDE DEF s
<1>5. CASE SameSending(st, s)
  <2>1. s.dhs = st.dhs /\ s.rk = st.rk /\ s.cks = st.cks /\ s.ns = st.ns /\ s.pn = st.pn
    BY <1>5 DEF SameSending
  <2>2. s.dhs # fresh
    BY <1>1, <1>2, <1>3, <2>1
  <2>3. Own(e, s, out, k, c)
    BY <1>1, <1>4, <2>1 DEF Own
  <2> QED
    BY <2>2, <2>3 DEF s
<1>6. CASE NewSending(st, s, m.dh, fresh)
  <2>1. /\ s.dhs = fresh /\ s.rk = NewRoot(st, m.dh, fresh) /\ s.ns = 0 /\ s.pn = st.ns
    BY <1>6 DEF NewSending
  <2>2. /\ s.rk \in Root /\ Len(s.rk) = Len(st.rk) + 2
        /\ \A i \in 1 .. Len(st.rk) : s.rk[i] = st.rk[i]
    <3>1. st.rk \in Root /\ st.dhs \in Pair
      BY <1>2
    <3>2. fresh \in Pair /\ m.dh \in Pair /\ s.rk = NewRoot(st, m.dh, fresh)
      BY <1>3, <2>1
    <3> QED
      BY <3>1, <3>2, NewRoots, SMTT(30)
  <2>3. UpTo(e.me, s.rk, k + 1) /\ \A x : UpTo(e.me, x, k) => x # s.rk
    BY <1>1, <1>2, <1>3, <2>1, NewRootIsNew, SMTT(30)
  <2>4. Prefix(st.rk, s.rk)
    BY <1>2, <2>2 DEF Prefix
  <2>5. ASSUME NEW x \in out
        PROVE  /\ Len(x.key.root) > e.base /\ x.dh # e.first
               /\ UpTo(e.me, x.key.root, k + 1) /\ x.n < c /\ x.pn <= c
               /\ Prefix(x.key.root, s.rk)
               /\ x.key.root # s.rk /\ x.dh # s.dhs
               /\ Len(x.key.root) = Len(s.rk) - 2 => x.n < s.pn
    <3>1. /\ Len(x.key.root) > e.base /\ x.dh # e.first
          /\ UpTo(e.me, x.key.root, k) /\ x.n < c /\ x.pn <= c
          /\ Prefix(x.key.root, st.rk)
          /\ x.key.root = st.rk => x.n < st.ns
      BY DEF Own
    <3>2. UpTo(e.me, x.key.root, k + 1)
      <4>1. k + 1 \in Nat /\ k <= k + 1 /\ x.key.root \in Root
        BY <1>2
      <4> QED
        BY <3>1, <4>1, UpToMore
    <3>3. Prefix(x.key.root, s.rk)
      BY <1>2, <2>2, <2>4, <3>1, PrefixOrder
    <3>4. x.key.root # s.rk
      BY <2>3, <3>1
    <3>5. x.dh # s.dhs
      <4>1. x.dh \in x.key.root[Len(x.key.root)] /\ Len(x.key.root) \in 1 .. Len(x.key.root)
        BY <1>2 DEF Receiving, DH
      <4>2. x.dh[2] <= k
        BY <1>2, <3>1, <4>1 DEF UpTo
      <4> QED
        BY <1>3, <2>1, <4>2
    <3>6. Len(x.key.root) = Len(s.rk) - 2 => x.n < s.pn
      <4>1. SUFFICES ASSUME Len(x.key.root) = Len(s.rk) - 2 PROVE x.n < s.pn
        OBVIOUS
      <4>2. x.key.root = st.rk
        <5>1. Len(x.key.root) = Len(st.rk)
          BY <1>2, <2>2, <4>1
        <5> QED
          BY <1>2, <3>1, <5>1, PrefixOrder
      <4> QED
        BY <2>1, <3>1, <4>2
    <3> QED
      BY <3>1, <3>2, <3>3, <3>4, <3>5, <3>6
  <2>6. /\ Len(s.rk) >= e.base /\ Len(s.rk) > e.base /\ s.dhs # e.first /\ s.dhs[2] <= k + 1
        /\ s.ns <= c /\ s.pn <= c
    BY <1>1, <1>2, <1>3, <2>1, <2>2
  <2>7. Own(e, s, out, k + 1, c)
    BY <1>1, <1>4, <2>3, <2>5, <2>6 DEF Own
  <2> QED
    BY <2>1, <2>7 DEF s
<1> QED
  BY <1>4, <1>5, <1>6
\* What the other end sends on a chain that is yet to come, it sends on the next.
LEMMA OnwardFromOwn ==
  ASSUME NEW e \in End, NEW k, NEW c, NEW in, NEW other, Own(Other(e), other, in, k, c),
         NEW st, Sound(e, st), Linked(other, st)
  PROVE  /\ Onward(e, st, in)
         /\ \A y \in in : Len(y.key.root) > Len(st.rk) => y.key.root = other.rk /\ y.dh = other.dhs
<1>1. /\ Other(e) \in End /\ Other(e).me = e.peer /\ Other(e).first = e.first
      /\ Other(Other(e)) = e /\ e.me # e.peer
  BY Ends
<1>2. /\ st.rk \in Root /\ Len(st.rk) \in Nat /\ st.dhs \in Pair /\ st.dhs[1] = e.me
  BY DEF Sound, IsState, Root
<1>3. SUFFICES ASSUME NEW y \in in, Len(y.key.root) > Len(st.rk)
               PROVE  /\ y.key.root = Append(st.rk, DH(st.dhs, y.dh)) /\ y.dh # e.first
                      /\ y.key.root = other.rk /\ y.dh = other.dhs
  BY DEF Onward
<1>4. /\ other.rk \in Root /\ Len(other.rk) \in Nat
      /\ y.key.root \in Root /\ Len(y.key.root) \in Nat
      /\ y.dh \in Pair /\ y.dh[1] = e.peer /\ Receiving(e, y.key.root, y.dh)
  BY <1>1, OwnFields
<1>5. /\ Prefix(y.key.root, other.rk) /\ y.dh # e.first
      /\ (y.key.root = other.rk) = (y.dh = other.dhs)
  BY <1>1 DEF Own
<1>6. Len(y.key.root) = Len(other.rk) /\ Len(other.rk) = Len(st.rk) + 1
  <2>1. Len(y.key.root) <= Len(other.rk) /\ Len(other.rk) <= Len(st.rk) + 1
    BY <1>5 DEF Prefix, Linked
  <2> QED
    BY <1>2, <1>3, <1>4, <2>1
<1>7. y.key.root = other.rk
  BY <1>4, <1>5, <1>6, PrefixOrder
<1>8. st.dhs \in y.key.root[Len(st.rk) + 1] /\ \A i \in 1 .. Len(st.rk) : y.key.root[i] = st.rk[i]
  BY <1>2, <1>6, <1>7 DEF Linked
<1> DEFINE z == DH(st.dhs, y.dh)
           r == Append(st.rk, z)
<1>9. y.key.root[Len(st.rk) + 1] = z
  <2>1. PICK own \in Pair : own[1] = e.me /\ y.key.root[Len(st.rk) + 1] = DH(own, y.dh)
    BY <1>4, <1>6 DEF Receiving
  <2>2. st.dhs # y.dh
    BY <1>1, <1>2, <1>4
  <2> QED
    BY <1>8, <2>1, <2>2 DEF DH
<1>10. z \in SUBSET Pair
  BY <1>2, <1>4 DEF DH
<1> HIDE DEF z
<1>11. /\ r \in Root /\ Len(r) = Len(st.rk) + 1 /\ r[Len(st.rk) + 1] = z
       /\ \A i \in 1 .. Len(st.rk) : r[i] = st.rk[i]
  BY <1>2, <1>10 DEF Root
<1> HIDE DEF r
<1>12. Prefix(y.key.root, r) /\ Len(y.key.root) = Len(r)
  <2>1. Len(y.key.root) = Len(st.rk) + 1
    BY <1>6
  <2>2. ASSUME NEW i \in 1 .. Len(y.key.root) PROVE y.key.root[i] = r[i]
    <3>1. i \in 1 .. Len(st.rk) \/ i = Len(st.rk) + 1
      BY <1>2, <2>1
    <3> QED
      BY <1>8, <1>9, <1>11, <3>1
  <2> QED
    BY <1>2, <1>11, <2>1, <2>2 DEF Prefix
<1>13. y.key.root = r
  BY <1>4, <1>11, <1>12, PrefixOrder
<1> QED
  BY <1>5, <1>7, <1>13 DEF r, z

\* The other end has heard what it had of the one who decrypts.
LEMMA DecryptingLinked ==
  ASSUME NEW e \in End, NEW st, Sound(e, st), NEW m, Made(e, m),
         NEW fresh \in Pair, fresh[1] = e.me, NEW d, d = Decrypt(st, m, fresh),
         NEW other, other.rk \in Root, NEW out, NEW got, Heard(Other(e), other, st, out, got)
  PROVE  Heard(Other(e), other, d.st, out, got)
<1>1. Linked(other, st)
  BY DEF Heard
<1>2. SUFFICES Linked(other, d.st)
  BY DEF Heard
<1>3. CASE SameSending(st, d.st)
  BY <1>1, <1>3 DEF SameSending, Linked
<1>4. CASE NewSending(st, d.st, m.dh, fresh)
  <2>1. st.rk \in Root /\ st.dhs \in Pair /\ m.dh \in Pair /\ Len(other.rk) \in Nat
    BY DEF Sound, IsState, Made, Root
  <2>2. d.st.rk = NewRoot(st, m.dh, fresh)
    BY <1>4 DEF NewSending
  <2>3. /\ Len(st.rk) \in Nat /\ Len(d.st.rk) = Len(st.rk) + 2
        /\ \A i \in 1 .. Len(st.rk) : d.st.rk[i] = st.rk[i]
    BY <2>1, <2>2, NewRoots
  <2>4. Len(other.rk) <= Len(d.st.rk) + 1 /\ Len(other.rk) # Len(d.st.rk) + 1
    BY <1>1, <2>1, <2>3 DEF Linked
  <2>5. \A i \in 1 .. Len(other.rk) - 1 : i \in 1 .. Len(st.rk)
    BY <1>1, <2>1, <2>3 DEF Linked
  <2> QED
    BY <1>1, <2>3, <2>4, <2>5 DEF Linked
<1> QED
  BY <1>3, <1>4, Decrypting

\* One more message.
Adds(S, m, more) == more = S \cup {m}

\* Fewer witnesses are needed than there are.
LEMMA WitnessedMore ==
  ASSUME NEW e, NEW st, NEW S, NEW more, S \subseteq more, Witnessed(e, st, S), Reached(st, S)
  PROVE  Witnessed(e, st, more) /\ Reached(st, more)
BY DEF Witnessed, Reached

\* decrypt, of a message that was not opened yet: it opens, and the others can
\* still be opened, as long as no call may have to skip more than MAX_SKIP keys.
LEMMA DecryptingHeard ==
  ASSUME NEW e \in End, NEW k, NEW c \in Nat, c <= MAX_SKIP, NEW in, NEW other,
         Own(Other(e), other, in, k, c),
         NEW st, Sound(e, st), Linked(other, st), NEW got, Heard(e, st, other, in, got),
         NEW m \in in \ got, NEW fresh \in Pair, fresh[1] = e.me,
         NEW d, d = Decrypt(st, m, fresh),
         NEW more, Adds(got, m, more)
  PROVE  d.ok /\ Heard(e, d.st, other, in, more)
<1>1. Other(e) \in End /\ Other(Other(e)) = e
  BY Ends
<1>2. /\ Coherent(e, in) /\ m.n < c /\ m.pn <= c /\ Prefix(m.key.root, other.rk)
  BY <1>1 DEF Own
<1>3. /\ Onward(e, st, in)
      /\ Len(m.key.root) > Len(st.rk) => m.key.root = other.rk /\ m.dh = other.dhs
  BY OnwardFromOwn
<1>4. /\ got \subseteq in /\ Linked(st, other) /\ Witnessed(e, st, got) /\ Reached(st, got)
      /\ \A y \in in \ got : Readable(st, y)
  BY DEF Heard
<1>5. /\ Witnessed(e, st, in) /\ Reached(st, in) /\ Witnessed(e, st, more) /\ Reached(st, more)
  BY <1>4, WitnessedMore DEF Adds
<1>6. Coherent(e, more) /\ Onward(e, st, more) /\ m \in more /\ Readable(st, m)
  BY <1>2, <1>3, <1>4 DEF Coherent, Onward, Adds
<1>7. Made(e, m)
  BY <1>2 DEF Coherent
<1>8. /\ \A y \in in : Readable(st, y) /\ (d.ok => y # m) => Readable(d.st, y)
      /\ ~d.ok => TooFar(st, m)
      /\ d.st.rk # st.rk => m.key.root = Append(st.rk, DH(st.dhs, m.dh))
  BY <1>2, <1>3, <1>5, <1>6, DecryptingOpens
<1>9. Witnessed(e, d.st, more) /\ Reached(d.st, more)
  BY <1>5, <1>6, DecryptingOpens
<1>10. /\ st.rk \in Root /\ st.dhs \in Pair /\ Len(st.rk) \in Nat /\ st.nr \in Nat
       /\ m.n \in Nat /\ m.pn \in Nat /\ m.dh \in Pair
  BY <1>7 DEF Sound, IsState, Made, Root
<1>11. d.ok = TRUE
  <2>1. ~TooFar(st, m)
    BY <1>2, <1>10, RatchetAssumption DEF TooFar
  <2>2. d.ok \in BOOLEAN
    BY <1>7, Decrypting
  <2> QED
    BY <1>8, <2>1, <2>2, Zenon
<1>12. Linked(d.st, other)
  <2>1. CASE SameSending(st, d.st)
    BY <1>4, <2>1 DEF SameSending, Linked
  <2>2. CASE NewSending(st, d.st, m.dh, fresh)
    <3>1. d.st.rk = NewRoot(st, m.dh, fresh)
      BY <2>2 DEF NewSending
    <3>2. /\ Len(d.st.rk) = Len(st.rk) + 2
          /\ \A i \in 1 .. Len(st.rk) : d.st.rk[i] = st.rk[i]
          /\ d.st.rk[Len(st.rk) + 1] = DH(st.dhs, m.dh)
          /\ d.st.rk[Len(st.rk) + 2] = DH(fresh, m.dh)
      BY <1>10, <3>1, NewRoots
    <3>3. m.key.root = Append(st.rk, DH(st.dhs, m.dh))
      <4>1. d.st.rk # st.rk
        BY <1>10, <3>2
      <4> QED
        BY <1>8, <4>1
    <3>4. /\ Len(m.key.root) = Len(st.rk) + 1
          /\ \A i \in 1 .. Len(st.rk) : m.key.root[i] = st.rk[i]
          /\ m.key.root[Len(st.rk) + 1] = DH(st.dhs, m.dh)
      <4> DEFINE z == DH(st.dhs, m.dh)
      <4>1. z \in SUBSET Pair /\ m.key.root = Append(st.rk, z)
        BY <1>10, <3>3 DEF DH
      <4> HIDE DEF z
      <4>2. /\ Len(m.key.root) = Len(st.rk) + 1
            /\ \A i \in 1 .. Len(st.rk) : m.key.root[i] = st.rk[i]
            /\ m.key.root[Len(st.rk) + 1] = z
        BY <1>10, <4>1 DEF Root
      <4> QED
        BY <4>2 DEF z
    <3>5. m.key.root = other.rk /\ m.dh = other.dhs
      BY <1>3, <1>10, <3>4
    <3>6. /\ Len(other.rk) = Len(st.rk) + 1 /\ Len(d.st.rk) = Len(other.rk) + 1
          /\ \A i \in 1 .. Len(st.rk) + 1 : d.st.rk[i] = other.rk[i]
      <4>1. Len(other.rk) = Len(st.rk) + 1 /\ Len(d.st.rk) = Len(other.rk) + 1
        BY <1>10, <3>2, <3>4, <3>5
      <4>2. ASSUME NEW i \in 1 .. Len(st.rk) + 1 PROVE d.st.rk[i] = other.rk[i]
        <5>1. i \in 1 .. Len(st.rk) \/ i = Len(st.rk) + 1
          BY <1>10
        <5> QED
          BY <3>2, <3>4, <3>5, <5>1
      <4> QED
        BY <4>1, <4>2
    <3>7. other.dhs \in d.st.rk[Len(st.rk) + 2]
      BY <3>2, <3>5 DEF DH
    <3>8. \A i \in 1 .. Len(d.st.rk) - 1 : i \in 1 .. Len(st.rk) + 1
      BY <1>10, <3>2
    <3> QED
      BY <1>10, <3>2, <3>6, <3>7, <3>8 DEF Linked
  <2> QED
    BY <1>7, <2>1, <2>2, Decrypting
<1>13. \A y \in in \ more : Readable(d.st, y)
  BY <1>4, <1>8 DEF Adds
<1>14. more \subseteq in
  BY <1>4 DEF Adds
<1>15. Heard(e, d.st, other, in, more)
  BY <1>9, <1>12, <1>13, <1>14 DEF Heard
<1> QED
  BY <1>11, <1>15

\* The pairs in a secret, and those the ends begin with, are among the first k and
\* the first k2 that their owners generated.
Generated(e, s, dhs, k, k2) ==
  /\ \A pair \in s : /\ pair[1] = e.me => pair[2] <= k
                     /\ pair[1] = e.peer => pair[2] <= k2
  /\ e.first[2] <= k2 /\ e.first[1] = e.peer /\ dhs[2] <= k /\ dhs[1] = e.me

\* Sessions made from one secret at the two ends, the sender's with the pair dhs.
FromSecret(e, s, dhs, st, other) ==
  st = InitSender(<<s>>, dhs, e.first) /\ other = InitReceiver(<<s>>, e.first)

\* initSender and initReceiver (ratchet.js:27-59), from one X3DH secret s: the two
\* ends begin together.
LEMMA Beginning ==
  ASSUME NEW e \in End, e.side = 0, e.base = 1,
         NEW s \in SUBSET Pair, NEW k \in Nat, NEW c \in Nat, NEW k2 \in Nat, NEW c2 \in Nat,
         NEW dhs \in Pair, Generated(e, s, dhs, k, k2),
         NEW st, NEW other, FromSecret(e, s, dhs, st, other)
  PROVE  /\ Own(e, st, {}, k, c) /\ st.cks # Null
         /\ Own(Other(e), other, {}, k2, c2)
         /\ Heard(e, st, other, {}, {}) /\ Heard(Other(e), other, st, {}, {})
<1>1. /\ Other(e).me = e.peer /\ Other(e).peer = e.me /\ Other(e).side = 1
      /\ Other(e).first = e.first /\ Other(e).base = 1 /\ Other(Other(e)) = e
      /\ e.me # e.peer /\ e.first \in Pair /\ e.first[1] = e.peer /\ dhs[1] = e.me
  BY Ends DEF Generated
<1> DEFINE root == <<s>>
           z == DH(dhs, e.first)
           rk == Append(root, z)
           cks == [root |-> rk, step |-> 0]
           none == [i \in {} |-> Null]
<1>2. z \in SUBSET Pair /\ e.first \in z /\ z = {dhs, e.first}
  BY <1>1 DEF DH
<1> HIDE DEF z
<1>3. root \in Root /\ Len(root) = 1 /\ root[1] = s
  BY DEF Root
<1>4. rk \in Root /\ Len(rk) = 2 /\ rk[1] = s /\ rk[2] = z
  BY <1>2, <1>3 DEF Root
<1> HIDE DEF root, rk
<1>5. cks \in ChainKey /\ cks # Null /\ cks.root = rk /\ cks.step = 0
  BY <1>4, Absent DEF ChainKey, Root
<1>6. st = [dhs |-> dhs, dhr |-> e.first, rk |-> rk, cks |-> cks, ckr |-> Null,
            ns |-> 0, nr |-> 0, pn |-> 0, skipped |-> none]
  BY DEF FromSecret, InitSender, KdfRk, Chain, NoSkipped, rk, root, z
<1>7. other = [dhs |-> e.first, dhr |-> Null, rk |-> root, cks |-> Null, ckr |-> Null,
               ns |-> 0, nr |-> 0, pn |-> 0, skipped |-> none]
  BY DEF FromSecret, InitReceiver, NoSkipped, root
<1>8. DOMAIN none = {}
  OBVIOUS
<1> HIDE DEF none, cks
<1>9. IsState(st) /\ IsState(other)
  BY <1>1, <1>3, <1>4, <1>5, <1>6, <1>7, <1>8 DEF IsState
<1>10. /\ st.dhs = dhs /\ st.dhr = e.first /\ st.rk = rk /\ st.cks = cks /\ st.ckr = Null
       /\ st.ns = 0 /\ st.pn = 0 /\ DOMAIN st.skipped = {}
  BY <1>6, <1>8
<1>11. /\ other.dhs = e.first /\ other.dhr = Null /\ other.rk = root /\ other.cks = Null
       /\ other.ckr = Null /\ other.ns = 0 /\ other.pn = 0 /\ DOMAIN other.skipped = {}
  BY <1>7, <1>8
<1>12. Parity(e, rk) /\ Parity(Other(e), root)
  <2>1. 2 % 2 = 0 /\ 1 % 2 = 1
    OBVIOUS
  <2> QED
    BY <1>1, <1>3, <1>4, <2>1 DEF Parity
<1>13. Receiving(Other(e), rk, dhs)
  <2>1. rk[2] = DH(e.first, dhs)
    BY <1>2, <1>4 DEF DH
  <2> QED
    BY <1>1, <1>4, <1>12, <2>1 DEF Receiving
<1>14. Sound(e, st)
  <2>1. /\ st.dhs[1] = e.me /\ Parity(e, st.rk) /\ st.dhr[1] = e.peer /\ st.ckr = Null
        /\ st.cks = [root |-> st.rk, step |-> st.ns] /\ Receiving(Other(e), st.rk, st.dhs)
    BY <1>1, <1>10, <1>12, <1>13 DEF cks
  <2> QED
    BY <1>9, <1>10, <2>1 DEF Sound
<1>15. Sound(Other(e), other)
  BY <1>1, <1>11, <1>9, <1>12 DEF Sound
<1>16. UpTo(e.me, rk, k) /\ UpTo(e.peer, root, k2)
  <2>1. ASSUME NEW i \in 1 .. Len(rk), NEW pair \in rk[i], pair[1] = e.me PROVE pair[2] <= k
    <3>1. i = 1 \/ i = 2
      BY <1>4
    <3> QED
      BY <1>1, <1>2, <1>4, <2>1, <3>1 DEF Generated
  <2>2. ASSUME NEW i \in 1 .. Len(root), NEW pair \in root[i], pair[1] = e.peer PROVE pair[2] <= k2
    <3>1. i = 1
      BY <1>3
    <3> QED
      BY <1>3, <2>2, <3>1 DEF Generated
  <2> QED
    BY <2>1, <2>2 DEF UpTo
<1>17. Coherent(Other(e), {}) /\ Coherent(e, {})
  BY DEF Coherent
<1>18. Own(e, st, {}, k, c)
  <2>1. /\ Len(st.rk) = 2 /\ st.dhs[2] <= k /\ st.dhs # e.first /\ UpTo(e.me, st.rk, k)
        /\ st.ns <= c /\ st.pn <= c
    BY <1>1, <1>4, <1>10, <1>16 DEF Generated
  <2> QED
    BY <1>14, <1>17, <2>1 DEF Own
<1>19. Own(Other(e), other, {}, k2, c2)
  BY <1>1, <1>3, <1>11, <1>15, <1>16, <1>17 DEF Own, Generated
<1>20. Heard(e, st, other, {}, {})
  <2>1. Linked(st, other)
    <3>1. Len(st.rk) = 2 /\ Len(other.rk) = 1 /\ st.rk[1] = other.rk[1] /\ other.dhs \in st.rk[2]
      BY <1>2, <1>3, <1>4, <1>10, <1>11
    <3>2. \A i \in 1 .. Len(st.rk) - 1 : i = 1
      BY <3>1
    <3> QED
      BY <3>1, <3>2 DEF Linked
  <2>2. Witnessed(e, st, {}) /\ Reached(st, {})
    <3>1. st.ckr = Null /\ st.dhr = e.first /\ Len(st.rk) = 2 /\ e.base + 1 = 2
      BY <1>4, <1>10
    <3> QED
      BY <1>10, <3>1 DEF Witnessed, Reached
  <2> QED
    BY <2>1, <2>2 DEF Heard
<1>21. Heard(Other(e), other, st, {}, {})
  <2>1. Linked(other, st)
    <3>1. Len(st.rk) = 2 /\ Len(other.rk) = 1
      BY <1>3, <1>4, <1>10, <1>11
    <3>2. \A i \in 1 .. Len(other.rk) - 1 : FALSE
      BY <3>1
    <3> QED
      BY <3>1, <3>2 DEF Linked
  <2>2. Witnessed(Other(e), other, {}) /\ Reached(other, {})
    <3>1. other.ckr = Null /\ other.dhr = Null /\ Len(other.rk) = 1 /\ Other(e).base + 1 = 2
      BY <1>1, <1>3, <1>11
    <3> QED
      BY <1>11, <3>1 DEF Witnessed, Reached
  <2> QED
    BY <2>1, <2>2 DEF Heard
<1> QED
  BY <1>5, <1>10, <1>18, <1>19, <1>20, <1>21

\* The two ends of a session, face to face: each has said something, heard some of what
\* the other said, and can open the rest.
Facing(e, st, other, out, in, told, got, k, c, k2, c2) ==
  /\ Own(e, st, out, k, c) /\ Own(Other(e), other, in, k2, c2)
  /\ Heard(e, st, other, in, got) /\ Heard(Other(e), other, st, out, told)

\* What encrypt makes of a state that can send, and decrypt of a message.
Encrypts(st, r, out, more) ==
  st.cks # Null /\ r = Encrypt(st) /\ Adds(out, r.msg, more)

Decrypts(e, st, m, k, d, in, got, more) ==
  /\ m \in in \ got /\ e.first[2] = 0 /\ e.base = 1
  /\ d = Decrypt(st, m, <<e.me, k + 1>>) /\ Adds(got, m, more)

\* encrypt, for both ends of a session.
LEMMA EncryptingBoth ==
  ASSUME NEW e \in End, NEW k \in Nat, NEW c \in Nat, NEW k2, NEW c2,
         NEW st, NEW other, NEW out, NEW in, NEW told, NEW got,
         Facing(e, st, other, out, in, told, got, k, c, k2, c2),
         NEW r, NEW more, Encrypts(st, r, out, more)
  PROVE  /\ Facing(e, r.st, other, more, in, told, got, k, c + 1, k2, c2)
         /\ Sound(e, r.st) /\ r.st.rk = st.rk /\ r.msg \notin out
<1>0. /\ Own(e, st, out, k, c) /\ Own(Other(e), other, in, k2, c2)
      /\ Heard(e, st, other, in, got) /\ Heard(Other(e), other, st, out, told)
  BY DEF Facing
<1>a. st.cks # Null /\ r = Encrypt(st) /\ more = out \cup {r.msg}
  BY DEF Encrypts, Adds
<1>1. Sound(e, st) /\ Sound(Other(e), other)
  BY <1>0 DEF Own
<1>2. /\ Own(e, r.st, out \cup {r.msg}, k, c + 1)
      /\ r.msg \notin out
  BY <1>0, <1>a, EncryptingOwn
<1>3. Heard(e, r.st, other, in, got)
  BY <1>0, <1>1, <1>a, EncryptingHeard
<1>4. Heard(Other(e), other, r.st, out \cup {r.msg}, told)
  BY <1>0, <1>1, <1>a, EncryptingOpens
<1>5. Sound(e, r.st) /\ r.st.rk = st.rk
  BY <1>1, <1>a, Encrypting
<1> QED
  BY <1>0, <1>2, <1>3, <1>4, <1>5, <1>a DEF Facing

\* decrypt, for both ends of a session.
LEMMA DecryptingBoth ==
  ASSUME NEW e \in End, NEW k \in Nat, NEW c \in Nat, NEW k2, NEW c2 \in Nat, c2 <= MAX_SKIP,
         NEW st, NEW other, NEW out, NEW in, NEW told, NEW got,
         Facing(e, st, other, out, in, told, got, k, c, k2, c2),
         NEW m, NEW d, NEW more, Decrypts(e, st, m, k, d, in, got, more)
  PROVE  /\ d.ok
         /\ Facing(e, d.st, other, out, in, told, more,
                   IF d.st.dhs = <<e.me, k + 1>> THEN k + 1 ELSE k, c, k2, c2)
         /\ Sound(e, d.st) /\ d.st.rk[1] = st.rk[1]
<1> DEFINE fresh == <<e.me, k + 1>>
<1>0. /\ Own(e, st, out, k, c) /\ Own(Other(e), other, in, k2, c2)
      /\ Heard(e, st, other, in, got) /\ Heard(Other(e), other, st, out, told)
  BY DEF Facing
<1>a. /\ m \in in \ got /\ e.first[2] = 0 /\ e.base = 1
      /\ d = Decrypt(st, m, fresh) /\ Adds(got, m, more)
  BY DEF Decrypts
<1>1. /\ Other(Other(e)) = e /\ e.me \in Member
  BY Ends
<1>2. /\ Sound(e, st) /\ Sound(Other(e), other) /\ other.rk \in Root
      /\ st.rk \in Root /\ st.dhs \in Pair /\ Len(st.rk) >= 1
  BY <1>0, <1>a DEF Own, Sound, IsState
<1>3. Made(e, m)
  <2>1. Coherent(e, in)
    BY <1>0, <1>1 DEF Own
  <2> QED
    BY <1>a, <2>1 DEF Coherent
<1>4. m.dh \in Pair
  BY <1>3 DEF Made
<1>5. fresh \in Pair /\ fresh[1] = e.me /\ fresh # e.first
  <2>1. fresh \in Pair /\ fresh[1] = e.me /\ fresh[2] = k + 1
    BY <1>1 DEF Pair
  <2>2. k + 1 # 0
    OBVIOUS
  <2> QED
    BY <1>a, <2>1, <2>2
<1> HIDE DEF fresh
<1>6. Own(e, d.st, out, IF d.st.dhs = fresh THEN k + 1 ELSE k, c)
  BY <1>0, <1>3, <1>5, <1>a, DecryptingOwn DEF fresh
<1>7. Linked(other, st)
  BY <1>0 DEF Heard
<1>8. d.ok /\ Heard(e, d.st, other, in, more)
  <2>1. fresh \in Pair /\ fresh[1] = e.me
    BY <1>5
  <2>2. Sound(e, st) /\ Linked(other, st)
    BY <1>2, <1>7
  <2> QED
    BY <1>0, <1>a, <2>1, <2>2, DecryptingHeard DEF fresh
<1>9. Heard(Other(e), other, d.st, out, told)
  BY <1>0, <1>2, <1>3, <1>5, <1>a, DecryptingLinked
<1>10. Sound(e, d.st) /\ (SameSending(st, d.st) \/ NewSending(st, d.st, m.dh, fresh))
  BY <1>2, <1>3, <1>5, <1>a, Decrypting
<1>11. d.st.rk[1] = st.rk[1]
  <2>1. CASE SameSending(st, d.st)
    BY <2>1 DEF SameSending
  <2>2. CASE NewSending(st, d.st, m.dh, fresh)
    <3>1. d.st.rk = NewRoot(st, m.dh, fresh)
      BY <2>2 DEF NewSending
    <3>2. Len(st.rk) \in Nat /\ \A i \in 1 .. Len(st.rk) : d.st.rk[i] = st.rk[i]
      BY <1>2, <1>4, <1>5, <3>1, NewRoots
    <3> QED
      BY <1>2, <3>2
  <2> QED
    BY <1>10, <2>1, <2>2
<1> QED
  BY <1>0, <1>6, <1>8, <1>9, <1>10, <1>11 DEF Facing, fresh
=============================================================================
