---------------------------- MODULE RelayMailProofs ----------------------------
(***************************************************************************)
(* Proofs about the relay's mail queue, for every set of handles, queue    *)
(* limit, TTL and bound.                                                   *)
(*                                                                         *)
(* The inductive invariant has a part per argument:                        *)
(*                                                                         *)
(*   Typed      the types, with finite files and sweeps never in the       *)
(*              future;                                                    *)
(*   Intact     without an interrupted write no file has a fragment and    *)
(*              every line parses;                                         *)
(*   KeptAlive  without an interrupted write, every envelope that is       *)
(*              neither acknowledged nor expired has its line;             *)
(*   Bounded    QueueBound itself;                                         *)
(*   Swept      AbandonedMailGoes itself;                                  *)
(*   Asked      a recipient only acknowledges what it was given.           *)
(*                                                                         *)
(* On top of it, Stamped and Contained are what TearsAreContained needs:   *)
(* a fragment counts as the envelope it is going to spoil.                 *)
(***************************************************************************)
EXTENDS RelayMail, FiniteSetTheorems, TLAPS

NoTears == tears = [append |-> 0, rewrite |-> 0]

Typed ==
  /\ TypeOK
  /\ \A h \in Handle : IsFiniteSet(file[h])
  /\ swept <= now

Intact ==
  NoTears => \A h \in Handle : ~torn[h] /\ \A l \in file[h] : l.ok

KeptAlive ==
  NoTears =>
    \A e \in accepted :
      now - e.at < TTL /\ e.id \notin removed[e.to] =>
        \E l \in file[e.to] : l.id = e.id /\ l.at = e.at

Asked == \A h \in Handle : \A ids \in batches[h] : ids \subseteq given[h]

IInv == Typed /\ Intact /\ KeptAlive /\ QueueBound /\ AbandonedMailGoes /\ Asked

-----------------------------------------------------------------------------
\* A drained file is a part of the file.
LEMMA DrainSubset ==
  ASSUME NEW h PROVE Drain(h) \subseteq file[h]
  BY DEF Drain

\* A line number is a natural number when files are finite.
LEMMA LineCountNat ==
  ASSUME Typed, NEW h \in Handle
  PROVE  /\ Cardinality(file[h]) \in Nat
         /\ LineCount(h) = Cardinality(file[h]) + (IF torn[h] THEN 1 ELSE 0)
         /\ LineCount(h) \in Nat
<1>1. Cardinality(file[h]) \in Nat
  BY FS_CardinalityType DEF Typed
<1> QED BY <1>1 DEF LineCount

\* Writing back a part of a file leaves it finite, no longer, and with room for
\* a fragment unless all of it was written back.
LEMMA PartOfFile ==
  ASSUME Typed, NEW h \in Handle, NEW part \in SUBSET file[h]
  PROVE  /\ IsFiniteSet(part)
         /\ Cardinality(part) \in Nat
         /\ Cardinality(part) <= Cardinality(file[h])
         /\ part # file[h] => Cardinality(part) + 1 <= Cardinality(file[h])
<1>1. IsFiniteSet(file[h])
  BY DEF Typed
<1>2. /\ IsFiniteSet(part)
      /\ Cardinality(part) <= Cardinality(file[h])
      /\ Cardinality(file[h]) = Cardinality(part) => file[h] = part
  BY <1>1, FS_Subset
<1>3. Cardinality(file[h]) \in Nat /\ Cardinality(part) \in Nat
  BY <1>1, <1>2, FS_CardinalityType
<1> QED BY <1>2, <1>3

\* One more line makes a file at most one longer.
LEMMA OneMoreLine ==
  ASSUME Typed, NEW h \in Handle, NEW l
  PROVE  /\ IsFiniteSet(file[h] \cup {l})
         /\ Cardinality(file[h] \cup {l}) \in Nat
         /\ Cardinality(file[h] \cup {l}) <= Cardinality(file[h]) + 1
<1>1. IsFiniteSet(file[h])
  BY DEF Typed
<1>2. /\ IsFiniteSet(file[h] \cup {l})
      /\ Cardinality(file[h] \cup {l}) =
           IF l \in file[h] THEN Cardinality(file[h]) ELSE Cardinality(file[h]) + 1
  BY <1>1, FS_AddElement
<1>3. Cardinality(file[h]) \in Nat
  BY <1>1, FS_CardinalityType
<1> QED BY <1>2, <1>3

-----------------------------------------------------------------------------
LEMMA InitEstablishes == Init => IInv
<1> SUFFICES ASSUME Init PROVE IInv
  OBVIOUS
<1> USE BoundsAssumption
<1>1. Typed
  BY FS_EmptySet DEF Init, Typed, TypeOK
<1>2. Intact /\ KeptAlive /\ AbandonedMailGoes /\ Asked
  BY DEF Init, Intact, KeptAlive, AbandonedMailGoes, Asked
<1>3. QueueBound
  BY FS_EmptySet DEF Init, QueueBound, LineCount
<1> QED BY <1>1, <1>2, <1>3 DEF IInv

LEMMA EnqueueKeeps ==
  ASSUME IInv, NEW h \in Handle, Enqueue(h) PROVE IInv'
<1> USE BoundsAssumption DEF IInv
<1> DEFINE l == Appended(h)
<1>1. l \in Line /\ l.at = now /\ l.id = nextId /\ l.ok = ~torn[h]
  BY DEF Appended, Line, Typed, TypeOK
<1>2. file' = [file EXCEPT ![h] = @ \cup {l}] /\ file'[h] = file[h] \cup {l}
  BY DEF Enqueue, Typed, TypeOK
<1> HIDE DEF l
<1>3. Typed'
  <2>1. TypeOK'
    BY <1>1, <1>2 DEF Enqueue, Typed, TypeOK
  <2>2. \A g \in Handle : IsFiniteSet(file'[g])
    BY <1>2, OneMoreLine DEF Typed, TypeOK
  <2> QED BY <2>1, <2>2 DEF Enqueue, Typed
<1>4. Intact'
  BY <1>1, <1>2 DEF Enqueue, Intact, NoTears, Typed, TypeOK
<1>5. KeptAlive'
  <2> SUFFICES ASSUME NoTears, NEW e \in accepted',
                      now - e.at < TTL, e.id \notin removed[e.to]
               PROVE  \E k \in file'[e.to] : k.id = e.id /\ k.at = e.at
    BY DEF Enqueue, KeptAlive, NoTears
  <2>1. CASE e \in accepted
    <3>1. e.to \in Handle
      BY <2>1 DEF Typed, TypeOK
    <3> QED BY <1>2, <2>1, <3>1 DEF KeptAlive, Typed, TypeOK
  <2>2. CASE e = [id |-> nextId, to |-> h, at |-> now]
    BY <1>1, <1>2, <2>2
  <2> QED BY <2>1, <2>2 DEF Enqueue
<1>6. QueueBound'
  <2> SUFFICES ASSUME NEW g \in Handle PROVE LineCount(g)' <= MaxQueue
    BY DEF QueueBound
  <2>1. CASE g = h
    <3>1. /\ Cardinality(file[h]) \in Nat
          /\ Cardinality(file[h]) <= LineCount(h)
          /\ LineCount(h) \in Nat /\ LineCount(h) < MaxQueue
      BY LineCountNat DEF Enqueue
    <3>2. /\ Cardinality(file'[h]) \in Nat
          /\ Cardinality(file'[h]) <= Cardinality(file[h]) + 1
      BY <1>2, OneMoreLine
    <3>3. ~torn'[h]
      BY DEF Enqueue, Typed, TypeOK
    <3>4. LineCount(h)' = Cardinality(file'[h])
      BY <3>2, <3>3 DEF LineCount
    <3> QED BY <2>1, <3>1, <3>2, <3>4
  <2>2. CASE g # h
    BY <1>2, <2>2 DEF Enqueue, QueueBound, LineCount, Typed, TypeOK
  <2> QED BY <2>1, <2>2
<1>7. AbandonedMailGoes'
  <2> SUFFICES ASSUME NEW g \in Handle, file'[g] # {}
               PROVE  \E k \in file'[g] : swept - k.at < TTL
    BY DEF Enqueue, AbandonedMailGoes
  <2>1. CASE g = h
    BY <1>1, <1>2, <2>1 DEF Typed, TypeOK
  <2>2. CASE g # h
    BY <1>2, <2>2 DEF AbandonedMailGoes, Typed, TypeOK
  <2> QED BY <2>1, <2>2
<1>8. Asked'
  BY DEF Enqueue, Asked
<1> QED BY <1>3, <1>4, <1>5, <1>6, <1>7, <1>8

LEMMA InboxKeeps ==
  ASSUME IInv, NEW h \in Handle, Inbox(h) PROVE IInv'
<1> USE DEF IInv
<1>1. Ids(Drain(h)) \subseteq Nat
  BY DEF Ids, Drain, Line, Typed, TypeOK
<1>2. Typed'
  BY <1>1 DEF Inbox, Typed, TypeOK
<1>3. Intact' /\ KeptAlive' /\ QueueBound' /\ AbandonedMailGoes'
  BY DEF Inbox, Intact, KeptAlive, NoTears, QueueBound, LineCount, AbandonedMailGoes
<1>4. Asked'
  BY DEF Inbox, Asked, Typed, TypeOK
<1> QED BY <1>2, <1>3, <1>4

\* What acknowledging, sweeping and interrupted rewrites have in common: each
\* file is replaced by a part of it.
LEMMA ReplacedByParts ==
  ASSUME IInv,
         \A h \in Handle : file'[h] \subseteq file[h],
         \A h \in Handle :
           torn'[h] => torn[h] \/ Cardinality(file'[h]) + 1 <= Cardinality(file[h]),
         torn' \in [Handle -> BOOLEAN]
  PROVE  /\ \A h \in Handle : IsFiniteSet(file'[h])
         /\ QueueBound'
<1> USE BoundsAssumption DEF IInv
<1>1. ASSUME NEW h \in Handle
      PROVE  IsFiniteSet(file'[h]) /\ LineCount(h)' <= MaxQueue
  <2>1. /\ IsFiniteSet(file'[h])
        /\ Cardinality(file'[h]) \in Nat
        /\ Cardinality(file'[h]) <= Cardinality(file[h])
    BY PartOfFile
  <2>2. /\ Cardinality(file[h]) \in Nat
        /\ LineCount(h) = Cardinality(file[h]) + (IF torn[h] THEN 1 ELSE 0)
    BY LineCountNat
  <2>3. LineCount(h)' = Cardinality(file'[h]) + (IF torn'[h] THEN 1 ELSE 0)
    BY DEF LineCount
  <2>4. LineCount(h) <= MaxQueue
    BY DEF QueueBound
  <2>5. CASE torn'[h] /\ ~torn[h]
    BY <2>1, <2>2, <2>3, <2>4, <2>5
  <2>6. CASE ~torn'[h] \/ torn[h]
    BY <2>1, <2>2, <2>3, <2>4, <2>6
  <2> QED BY <2>1, <2>5, <2>6
<1> QED BY <1>1 DEF QueueBound

LEMMA AckKeeps ==
  ASSUME IInv, NEW h \in Handle, NEW ids \in batches[h], Ack(h, ids)
  PROVE  IInv'
<1> USE BoundsAssumption DEF IInv
<1>1. /\ Kept(h, ids) \subseteq file[h]
      /\ \A l \in Kept(h, ids) : now - l.at < TTL
      /\ \A l \in file[h] :
           l.ok /\ now - l.at < TTL /\ l.id \notin ids => l \in Kept(h, ids)
  BY DEF Kept, Drain
<1>2. /\ file' = [file EXCEPT ![h] = Kept(h, ids)]
      /\ torn' = [torn EXCEPT ![h] = FALSE]
      /\ removed' = [removed EXCEPT ![h] = @ \cup ids]
      /\ batches' = [batches EXCEPT ![h] = @ \ {ids}]
      /\ UNCHANGED <<now, nextId, swept, accepted, given, tears>>
  BY DEF Ack
<1>3. ids \subseteq Nat
  BY DEF Typed, TypeOK
<1>4. TypeOK'
  BY <1>1, <1>2, <1>3 DEF Typed, TypeOK
<1>5. (\A g \in Handle : IsFiniteSet(file'[g])) /\ QueueBound'
  <2>1. \A g \in Handle : file'[g] \subseteq file[g] /\ (torn'[g] => torn[g])
    BY <1>1, <1>2 DEF Typed, TypeOK
  <2> QED BY <1>4, <2>1, ReplacedByParts DEF TypeOK
<1>6. Typed'
  BY <1>2, <1>4, <1>5 DEF Typed
<1>7. Intact'
  BY <1>1, <1>2 DEF Intact, NoTears, Typed, TypeOK
<1>8. KeptAlive'
  <2> SUFFICES ASSUME NoTears, NEW e \in accepted,
                      now - e.at < TTL, e.id \notin removed'[e.to]
               PROVE  \E k \in file'[e.to] : k.id = e.id /\ k.at = e.at
    BY <1>2 DEF KeptAlive, NoTears
  <2>1. e.to \in Handle
    BY DEF Typed, TypeOK
  <2>2. e.id \notin removed[e.to] /\ (e.to = h => e.id \notin ids)
    BY <1>2, <2>1 DEF Typed, TypeOK
  <2>3. PICK k \in file[e.to] : k.id = e.id /\ k.at = e.at
    BY <2>2 DEF KeptAlive
  <2>4. k.ok
    BY <2>1 DEF Intact
  <2>5. k \in file'[e.to]
    BY <1>1, <1>2, <2>1, <2>2, <2>3, <2>4 DEF Typed, TypeOK
  <2> QED BY <2>3, <2>5
<1>9. AbandonedMailGoes'
  <2> SUFFICES ASSUME NEW g \in Handle, file'[g] # {}
               PROVE  \E k \in file'[g] : swept - k.at < TTL
    BY <1>2 DEF AbandonedMailGoes
  <2>1. CASE g = h
    <3>1. PICK k \in Kept(h, ids) : now - k.at < TTL
      BY <1>1, <1>2, <2>1 DEF Typed, TypeOK
    <3>2. k.at \in Nat
      BY <1>1 DEF Typed, TypeOK, Line
    <3> QED BY <1>2, <2>1, <3>1, <3>2 DEF Typed, TypeOK
  <2>2. CASE g # h
    BY <1>2, <2>2 DEF AbandonedMailGoes, Typed, TypeOK
  <2> QED BY <2>1, <2>2
<1>10. Asked'
  BY <1>2 DEF Asked, Typed, TypeOK
<1> QED BY <1>5, <1>6, <1>7, <1>8, <1>9, <1>10

LEMMA AckLostKeeps ==
  ASSUME IInv, NEW h \in Handle, NEW ids \in batches[h], AckLost(h, ids)
  PROVE  IInv'
<1> USE DEF IInv
<1>1. Typed'
  BY DEF AckLost, Typed, TypeOK
<1>2. Intact' /\ KeptAlive' /\ QueueBound' /\ AbandonedMailGoes'
  BY DEF AckLost, Intact, KeptAlive, NoTears, QueueBound, LineCount, AbandonedMailGoes
<1>3. Asked'
  BY DEF AckLost, Asked, Typed, TypeOK
<1> QED BY <1>1, <1>2, <1>3

\* What a pass leaves of a file is a part of it that holds its living lines,
\* and unless it is empty one of them.
LEMMA SweptFile ==
  ASSUME NEW h \in Handle
  PROVE  /\ Swept(h) \subseteq file[h]
         /\ Drain(h) \subseteq Swept(h)
         /\ Swept(h) # {} => Drain(h) # {}
  BY DrainSubset DEF Swept

LEMMA SweepKeeps == ASSUME IInv, Sweep PROVE IInv'
<1> USE BoundsAssumption DEF IInv
<1>1. /\ file' = [h \in Handle |-> Swept(h)]
      /\ torn' = [h \in Handle |-> IF Swept(h) = {} THEN FALSE ELSE torn[h]]
      /\ swept' = now
      /\ UNCHANGED <<now, nextId, batches, accepted, given, removed, tears>>
  BY DEF Sweep
<1>2. TypeOK'
  BY <1>1, SweptFile DEF Typed, TypeOK
<1>3. (\A h \in Handle : IsFiniteSet(file'[h])) /\ QueueBound'
  <2>1. \A h \in Handle : file'[h] \subseteq file[h] /\ (torn'[h] => torn[h])
    BY <1>1, SweptFile
  <2> QED BY <1>2, <2>1, ReplacedByParts DEF TypeOK
<1>4. Typed'
  <2>1. swept' <= now'
    BY <1>1 DEF Typed, TypeOK
  <2> QED BY <1>2, <1>3, <2>1 DEF Typed
<1>5. Intact'
  BY <1>1, SweptFile DEF Intact, NoTears
<1>6. KeptAlive'
  <2> SUFFICES ASSUME NoTears, NEW e \in accepted,
                      now - e.at < TTL, e.id \notin removed[e.to]
               PROVE  \E k \in file'[e.to] : k.id = e.id /\ k.at = e.at
    BY <1>1 DEF KeptAlive, NoTears
  <2>1. e.to \in Handle
    BY DEF Typed, TypeOK
  <2>2. PICK k \in file[e.to] : k.id = e.id /\ k.at = e.at
    BY DEF KeptAlive
  <2>3. k \in Drain(e.to)
    BY <2>1, <2>2 DEF Intact, Drain
  <2> QED BY <1>1, <2>1, <2>2, <2>3, SweptFile
<1>7. AbandonedMailGoes'
  <2> SUFFICES ASSUME NEW h \in Handle, file'[h] # {}
               PROVE  \E k \in file'[h] : now - k.at < TTL
    BY <1>1 DEF AbandonedMailGoes
  <2>1. Drain(h) # {} /\ Drain(h) \subseteq file'[h]
    BY <1>1, SweptFile
  <2> QED BY <2>1 DEF Drain
<1>8. Asked'
  BY <1>1 DEF Asked
<1> QED BY <1>3, <1>4, <1>5, <1>6, <1>7, <1>8

LEMMA TickKeeps == ASSUME IInv, Tick PROVE IInv'
<1> USE BoundsAssumption DEF IInv
<1>1. now \in Nat /\ now' = now + 1
      /\ UNCHANGED <<file, torn, nextId, batches, swept, accepted, given, removed, tears>>
  BY DEF Tick, Typed, TypeOK
<1>2. Typed'
  <2>1. TypeOK'
    BY <1>1 DEF Typed, TypeOK
  <2>2. swept' <= now'
    BY <1>1 DEF Typed, TypeOK
  <2> QED BY <1>1, <2>1, <2>2 DEF Typed
<1>3. KeptAlive'
  <2> SUFFICES ASSUME NoTears, NEW e \in accepted,
                      now' - e.at < TTL, e.id \notin removed[e.to]
               PROVE  \E k \in file[e.to] : k.id = e.id /\ k.at = e.at
    BY <1>1 DEF KeptAlive, NoTears
  <2>1. e.at \in Nat
    BY DEF Typed, TypeOK
  <2>2. now - e.at < TTL
    BY <1>1, <2>1
  <2> QED BY <2>2 DEF KeptAlive
<1>4. Intact' /\ QueueBound' /\ AbandonedMailGoes' /\ Asked'
  BY <1>1 DEF Intact, NoTears, QueueBound, LineCount, AbandonedMailGoes, Asked
<1> QED BY <1>2, <1>3, <1>4

\* An interrupted write leaves a trace in tears, so that the parts of the
\* invariant that are conditional on there being none hold at once.
LEMMA TearsShow ==
  ASSUME tears \in [append : Nat, rewrite : Nat],
         \/ tears' = [tears EXCEPT !.append = @ + 1]
         \/ tears' = [tears EXCEPT !.rewrite = @ + 1]
  PROVE  ~NoTears' /\ Intact' /\ KeptAlive'
<1>1. tears'.append # 0 \/ tears'.rewrite # 0
  OBVIOUS
<1>2. ~NoTears'
  BY <1>1 DEF NoTears
<1> QED BY <1>2 DEF Intact, KeptAlive

LEMMA TornAppendKeeps ==
  ASSUME IInv, NEW h \in Handle, TornAppend(h) PROVE IInv'
<1> USE BoundsAssumption DEF IInv
<1>1. /\ LineCount(h) < MaxQueue
      /\ torn' = [torn EXCEPT ![h] = TRUE]
      /\ tears' = [tears EXCEPT !.append = @ + 1]
      /\ UNCHANGED <<now, file, nextId, batches, swept, accepted, given, removed>>
  BY DEF TornAppend
<1>2. Typed'
  BY <1>1 DEF Typed, TypeOK
<1>3. Intact' /\ KeptAlive'
  BY <1>1, TearsShow DEF Typed, TypeOK
<1>4. QueueBound'
  <2> SUFFICES ASSUME NEW g \in Handle PROVE LineCount(g)' <= MaxQueue
    BY DEF QueueBound
  <2>1. CASE g = h
    <3>1. /\ Cardinality(file[h]) \in Nat
          /\ LineCount(h) = Cardinality(file[h]) + (IF torn[h] THEN 1 ELSE 0)
      BY LineCountNat
    <3>2. LineCount(h)' <= Cardinality(file[h]) + 1
      BY <1>1, <3>1 DEF LineCount
    <3>3. Cardinality(file[h]) < MaxQueue
      BY <1>1, <3>1
    <3>4. LineCount(h)' \in Nat
      BY <1>1, <3>1 DEF LineCount
    <3> QED BY <2>1, <3>1, <3>2, <3>3, <3>4
  <2>2. CASE g # h
    BY <1>1, <2>2 DEF QueueBound, LineCount, Typed, TypeOK
  <2> QED BY <2>1, <2>2
<1>5. AbandonedMailGoes' /\ Asked'
  BY <1>1 DEF AbandonedMailGoes, Asked
<1> QED BY <1>2, <1>3, <1>4, <1>5

LEMMA TornRewriteKeeps ==
  ASSUME IInv, NEW h \in Handle, NEW ids \in batches[h], TornRewrite(h, ids)
  PROVE  IInv'
<1> USE BoundsAssumption DEF IInv
<1>1. PICK part \in SUBSET Kept(h, ids) :
        part # Kept(h, ids) /\ file' = [file EXCEPT ![h] = part]
  BY DEF TornRewrite
<1>2. PICK fragment \in BOOLEAN : torn' = [torn EXCEPT ![h] = fragment]
  BY DEF TornRewrite
<1>3. /\ batches' = [batches EXCEPT ![h] = @ \ {ids}]
      /\ removed' = [removed EXCEPT ![h] = @ \cup ids]
      /\ tears' = [tears EXCEPT !.rewrite = @ + 1]
      /\ UNCHANGED <<now, nextId, swept, accepted, given>>
  BY DEF TornRewrite
<1>4. /\ Kept(h, ids) \subseteq file[h]
      /\ \A l \in Kept(h, ids) : now - l.at < TTL
  BY DEF Kept, Drain
<1>5. TypeOK'
  BY <1>1, <1>2, <1>3, <1>4 DEF Typed, TypeOK
<1>6. (\A g \in Handle : IsFiniteSet(file'[g])) /\ QueueBound'
  <2>1. part \subseteq file[h] /\ part # file[h]
    BY <1>1, <1>4
  <2>2. Cardinality(part) + 1 <= Cardinality(file[h])
    BY <2>1, PartOfFile
  <2>3. \A g \in Handle :
          /\ file'[g] \subseteq file[g]
          /\ torn'[g] => torn[g] \/ Cardinality(file'[g]) + 1 <= Cardinality(file[g])
    <3> SUFFICES ASSUME NEW g \in Handle
                 PROVE  /\ file'[g] \subseteq file[g]
                        /\ torn'[g] => \/ torn[g]
                                       \/ Cardinality(file'[g]) + 1 <= Cardinality(file[g])
      OBVIOUS
    <3>1. CASE g = h
      BY <1>1, <2>1, <2>2, <3>1 DEF Typed, TypeOK
    <3>2. CASE g # h
      BY <1>1, <1>2, <3>2 DEF Typed, TypeOK
    <3> QED BY <3>1, <3>2
  <2> QED BY <1>5, <2>3, ReplacedByParts DEF TypeOK
<1>7. Typed'
  BY <1>3, <1>5, <1>6 DEF Typed
<1>8. Intact' /\ KeptAlive'
  BY <1>3, TearsShow DEF Typed, TypeOK
<1>9. AbandonedMailGoes'
  <2> SUFFICES ASSUME NEW g \in Handle, file'[g] # {}
               PROVE  \E k \in file'[g] : swept - k.at < TTL
    BY <1>3 DEF AbandonedMailGoes
  <2>1. CASE g = h
    <3>1. PICK k \in part : now - k.at < TTL
      BY <1>1, <1>4, <2>1 DEF Typed, TypeOK
    <3>2. k.at \in Nat
      BY <1>1, <1>4 DEF Typed, TypeOK, Line
    <3> QED BY <1>1, <2>1, <3>1, <3>2 DEF Typed, TypeOK
  <2>2. CASE g # h
    BY <1>1, <2>2 DEF AbandonedMailGoes, Typed, TypeOK
  <2> QED BY <2>1, <2>2
<1>10. Asked'
  BY <1>3 DEF Asked, Typed, TypeOK
<1> QED BY <1>6, <1>7, <1>8, <1>9, <1>10

-----------------------------------------------------------------------------
LEMMA StepKeeps == IInv /\ [Next]_vars => IInv'
<1> SUFFICES ASSUME IInv, [Next]_vars PROVE IInv'
  OBVIOUS
<1>1. ASSUME NEW h \in Handle, Enqueue(h) PROVE IInv'
  BY <1>1, EnqueueKeeps
<1>2. ASSUME NEW h \in Handle, Inbox(h) PROVE IInv'
  BY <1>2, InboxKeeps
<1>3. ASSUME NEW h \in Handle, TornAppend(h) PROVE IInv'
  BY <1>3, TornAppendKeeps
<1>4. ASSUME NEW h \in Handle, NEW ids \in batches[h], Ack(h, ids) PROVE IInv'
  BY <1>4, AckKeeps
<1>5. ASSUME NEW h \in Handle, NEW ids \in batches[h], AckLost(h, ids) PROVE IInv'
  BY <1>5, AckLostKeeps
<1>6. ASSUME NEW h \in Handle, NEW ids \in batches[h], TornRewrite(h, ids) PROVE IInv'
  BY <1>6, TornRewriteKeeps
<1>7. CASE Sweep
  BY <1>7, SweepKeeps
<1>8. CASE Tick
  BY <1>8, TickKeeps
<1>9. CASE UNCHANGED vars
  BY <1>9 DEF vars, IInv, Typed, TypeOK, Intact, NoTears, KeptAlive, QueueBound,
              LineCount, AbandonedMailGoes, Asked
<1> QED BY <1>1, <1>2, <1>3, <1>4, <1>5, <1>6, <1>7, <1>8, <1>9 DEF Next

LEMMA Invariance == Spec => []IInv
<1>1. Init => IInv
  BY InitEstablishes
<1>2. IInv /\ [Next]_vars => IInv'
  BY StepKeeps
<1> QED BY <1>1, <1>2, PTL DEF Spec

(* The variables of the mail queue keep their types: identifiers, times    *)
(* and interrupted writes are natural numbers, and every file is a set of  *)
(* lines (relay.mjs:82-149).                                               *)
THEOREM TypeCorrect == Spec => []TypeOK
<1>1. IInv => TypeOK
  BY DEF IInv, Typed
<1> QED BY <1>1, Invariance, PTL

(* As long as no write is interrupted, mail the relay answered 202 for     *)
(* stays collectable until it is acknowledged or its TTL is over           *)
(* (relay.mjs:92-149).                                                     *)
THEOREM MailIsNotLost == Spec => []NoLoss
<1>1. IInv => NoLoss
  <2> SUFFICES ASSUME IInv, NoTears, NEW e \in Lost PROVE FALSE
    BY DEF NoLoss, NoTears
  <2>1. /\ e \in accepted /\ now - e.at < TTL /\ e.id \notin removed[e.to]
        /\ e.id \notin Ids(Drain(e.to))
    BY DEF Lost
  <2>2. e.to \in Handle
    BY <2>1 DEF IInv, Typed, TypeOK
  <2>3. PICK l \in file[e.to] : l.id = e.id /\ l.at = e.at
    BY <2>1 DEF IInv, KeptAlive
  <2>4. l \in Drain(e.to)
    BY <2>1, <2>2, <2>3 DEF IInv, Intact, Drain
  <2> QED BY <2>1, <2>3, <2>4 DEF Ids
<1> QED BY <1>1, Invariance, PTL

(* No queue file ever holds more than MAX_QUEUE_PER_DEVICE lines, even     *)
(* when writes are interrupted (relay.mjs:94-101).                         *)
THEOREM QueuesAreBounded == Spec => []QueueBound
<1>1. IInv => QueueBound
  BY DEF IInv
<1> QED BY <1>1, Invariance, PTL

(* A file that survives a sweep holds a line that was alive at the sweep   *)
(* or was written since (relay.mjs:132-149).                               *)
THEOREM AbandonedMailIsSwept == Spec => []AbandonedMailGoes
<1>1. IInv => AbandonedMailGoes
  BY DEF IInv
<1> QED BY <1>1, Invariance, PTL

-----------------------------------------------------------------------------
\* What interrupted appends can account for: an envelope that was lost, or a
\* fragment that is going to spoil the next one.
Account ==
  {<<"lost", e>> : e \in Lost} \cup {<<"torn", h>> : h \in {g \in Handle : torn[g]}}

\* A line carries the time its envelope was accepted, which decides what a tick
\* takes away.
Stamped ==
  /\ \A h \in Handle : \A l \in file[h] : l.id < nextId
  /\ \A e \in accepted : e.id < nextId
  /\ \A e \in accepted : \A l \in file[e.to] : l.id = e.id => l.at = e.at

\* TearsAreContained with the fragments counted in, which makes it inductive.
Contained ==
  tears.rewrite = 0 => IsFiniteSet(Account) /\ Cardinality(Account) <= tears.append

LEMMA AccountShrinks ==
  ASSUME Contained, Account' \subseteq Account, tears' = tears, tears.append \in Nat
  PROVE  Contained'
<1> SUFFICES ASSUME tears.rewrite = 0
             PROVE  IsFiniteSet(Account') /\ Cardinality(Account') <= tears.append
  BY DEF Contained
<1>1. IsFiniteSet(Account) /\ Cardinality(Account) <= tears.append
  BY DEF Contained
<1>2. /\ IsFiniteSet(Account') /\ Cardinality(Account') <= Cardinality(Account)
      /\ Cardinality(Account) \in Nat /\ Cardinality(Account') \in Nat
  BY <1>1, FS_Subset, FS_CardinalityType
<1> QED BY <1>1, <1>2

LEMMA FewerLost ==
  ASSUME Lost' \subseteq Lost, \A h \in Handle : torn'[h] => torn[h]
  PROVE  Account' \subseteq Account
  BY DEF Account

\* Nothing that is still collectable is lost when files are only replaced by
\* parts that keep what is alive and not acknowledged.
LEMMA NotLost ==
  ASSUME IInv, UNCHANGED <<now, accepted>>,
         \A h \in Handle : removed[h] \subseteq removed'[h],
         \A h \in Handle : \A l \in Drain(h) : l \in file'[h] \/ l.id \in removed'[h]
  PROVE  Lost' \subseteq Lost
<1> SUFFICES ASSUME NEW e \in Lost' PROVE e \in Lost
  OBVIOUS
<1>1. /\ e \in accepted /\ now - e.at < TTL /\ e.id \notin removed'[e.to]
      /\ e.id \notin Ids({l \in file'[e.to] : l.ok /\ now - l.at < TTL})
  BY DEF Lost, Drain
<1>2. e.to \in Handle
  BY <1>1 DEF IInv, Typed, TypeOK
<1>3. ASSUME NEW l \in Drain(e.to), l.id = e.id PROVE FALSE
  <2>1. l \in file'[e.to]
    BY <1>1, <1>2, <1>3
  <2> QED BY <1>1, <1>3, <2>1 DEF Ids, Drain
<1>4. e.id \notin Ids(Drain(e.to))
  BY <1>3 DEF Ids
<1> QED BY <1>1, <1>2, <1>4 DEF Lost

LEMMA EnqueueContained ==
  ASSUME IInv, Stamped, Contained, NEW h \in Handle, Enqueue(h)
  PROVE  Contained'
<1> DEFINE l == Appended(h)
           new == [id |-> nextId, to |-> h, at |-> now]
<1>1. /\ now \in Nat /\ tears.append \in Nat /\ tears' = tears
      /\ l.at = now /\ l.id = nextId /\ l.ok = ~torn[h]
      /\ file'[h] = file[h] \cup {l}
      /\ \A g \in Handle : g # h => file'[g] = file[g]
      /\ \A g \in Handle : torn'[g] = (g # h /\ torn[g])
      /\ accepted' = accepted \cup {new}
      /\ UNCHANGED <<now, removed>>
  BY DEF IInv, Typed, TypeOK, Enqueue, Appended
<1>2. \A e \in accepted : e.to \in Handle
  BY DEF IInv, Typed, TypeOK
<1> HIDE DEF l
<1>3. \A g \in Handle : Drain(g) \subseteq Drain(g)'
  BY <1>1 DEF Drain
<1>4. Lost' \subseteq Lost \cup {new}
  BY <1>1, <1>2, <1>3 DEF Lost, Ids
<1>5. CASE ~torn[h]
  <2>1. l \in Drain(h)'
    <3>1. l.ok /\ now' - l.at < TTL /\ l \in file'[h]
      <4>1. TTL \in Nat /\ TTL > 0
        BY BoundsAssumption
      <4>2. now' - l.at = 0
        BY <1>1
      <4> QED BY <1>1, <1>5, <4>1, <4>2
    <3> QED BY <3>1 DEF Drain
  <2>2. new \notin Lost'
    BY <1>1, <2>1 DEF Lost, Ids
  <2>3. Account' \subseteq Account
    BY <1>1, <1>4, <2>2, FewerLost
  <2> QED BY <1>1, <2>3, AccountShrinks
<1>6. CASE torn[h]
  <2> SUFFICES ASSUME tears.rewrite = 0
               PROVE  IsFiniteSet(Account') /\ Cardinality(Account') <= tears.append
    BY <1>1 DEF Contained
  <2> DEFINE kept == Account \ {<<"torn", h>>}
             most == kept \cup {<<"lost", new>>}
  <2>1. IsFiniteSet(Account) /\ Cardinality(Account) <= tears.append
    BY DEF Contained
  <2>2. <<"torn", h>> \in Account
    BY <1>6 DEF Account
  <2>3. Account' \subseteq most
    <3> SUFFICES ASSUME NEW x \in Account' PROVE x \in most
      OBVIOUS
    <3>1. CASE \E e \in Lost' : x = <<"lost", e>>
      BY <1>4, <3>1 DEF Account
    <3>2. CASE \E g \in Handle : torn'[g] /\ x = <<"torn", g>>
      <4>1. PICK g \in Handle : torn'[g] /\ x = <<"torn", g>>
        BY <3>2
      <4>2. torn[g] /\ x # <<"torn", h>>
        BY <1>1, <4>1
      <4> QED BY <4>1, <4>2 DEF Account
    <3> QED BY <3>1, <3>2 DEF Account
  <2>4. IsFiniteSet(kept) /\ Cardinality(kept) = Cardinality(Account) - 1
    BY <2>1, <2>2, FS_RemoveElement
  <2>5. Cardinality(Account) \in Nat /\ Cardinality(kept) \in Nat
    BY <2>1, <2>4, FS_CardinalityType
  <2> HIDE DEF kept
  <2>6. IsFiniteSet(most) /\ Cardinality(most) <= Cardinality(kept) + 1
    <3>1. /\ IsFiniteSet(most)
          /\ Cardinality(most) = IF <<"lost", new>> \in kept THEN Cardinality(kept)
                                                            ELSE Cardinality(kept) + 1
      BY <2>4, FS_AddElement
    <3> QED BY <2>5, <3>1
  <2> HIDE DEF most
  <2>7. /\ IsFiniteSet(Account') /\ Cardinality(Account') <= Cardinality(most)
        /\ Cardinality(most) \in Nat /\ Cardinality(Account') \in Nat
    BY <2>3, <2>6, FS_Subset, FS_CardinalityType
  <2> QED BY <1>1, <2>1, <2>4, <2>5, <2>6, <2>7
<1> QED BY <1>5, <1>6

LEMMA TornAppendContained ==
  ASSUME IInv, Contained, NEW h \in Handle, TornAppend(h)
  PROVE  Contained'
<1>1. /\ tears.append \in Nat /\ tears'.append = tears.append + 1 /\ tears'.rewrite = tears.rewrite
      /\ \A g \in Handle : torn'[g] = (g = h \/ torn[g])
  BY DEF IInv, Typed, TypeOK, TornAppend
<1>2. Lost' = Lost
  BY DEF TornAppend, Lost, Drain
<1> SUFFICES ASSUME tears.rewrite = 0
             PROVE  IsFiniteSet(Account') /\ Cardinality(Account') <= tears.append + 1
  BY <1>1 DEF Contained
<1>3. IsFiniteSet(Account) /\ Cardinality(Account) <= tears.append
  BY DEF Contained
<1>4. Account' = Account \cup {<<"torn", h>>}
  BY <1>1, <1>2 DEF Account
<1>5. Cardinality(Account) \in Nat
  BY <1>3, FS_CardinalityType
<1>6. /\ IsFiniteSet(Account')
      /\ Cardinality(Account') = IF <<"torn", h>> \in Account THEN Cardinality(Account)
                                                            ELSE Cardinality(Account) + 1
  BY <1>3, <1>4, FS_AddElement
<1> QED BY <1>1, <1>3, <1>5, <1>6

LEMMA TickContained ==
  ASSUME IInv, Stamped, Contained, Tick
  PROVE  Contained'
<1>1. /\ now \in Nat /\ now' = now + 1 /\ tears.append \in Nat
      /\ UNCHANGED <<file, torn, accepted, removed, tears>>
  BY DEF IInv, Typed, TypeOK, Tick
<1>2. \A e \in accepted : e.to \in Handle /\ e.at \in Nat
  BY DEF IInv, Typed, TypeOK
<1>3. ASSUME NEW e \in Lost' PROVE e \in Lost
  <2>1. e \in accepted /\ now' - e.at < TTL /\ e.id \notin removed[e.to]
    BY <1>1 DEF Lost
  <2>2. e.id \notin {l.id : l \in {k \in file[e.to] : k.ok /\ now' - k.at < TTL}}
    BY <1>1 DEF Lost, Drain, Ids
  <2>3. \A l \in Drain(e.to) : l.id # e.id
    BY <2>1, <2>2 DEF Stamped, Drain
  <2>4. now - e.at < TTL
    BY <1>1, <1>2, <2>1, BoundsAssumption
  <2> QED BY <2>1, <2>3, <2>4 DEF Lost, Ids
<1>4. Account' \subseteq Account
  BY <1>1, <1>3, FewerLost
<1> QED BY <1>1, <1>4, AccountShrinks

LEMMA StampedKept ==
  ASSUME IInv, Stamped, [Next]_vars PROVE Stamped'
<1>1. nextId \in Nat /\ \A e \in accepted : e.to \in Handle /\ e.id \in Nat
  BY DEF IInv, Typed, TypeOK
<1>2. ASSUME NEW h \in Handle, Enqueue(h) PROVE Stamped'
  <2> DEFINE l == Appended(h)
             new == [id |-> nextId, to |-> h, at |-> now]
  <2>1. /\ l.id = nextId /\ l.at = now /\ nextId' = nextId + 1
        /\ file'[h] = file[h] \cup {l}
        /\ \A g \in Handle : g # h => file'[g] = file[g]
        /\ accepted' = accepted \cup {new}
    BY <1>2 DEF IInv, Typed, TypeOK, Enqueue, Appended
  <2> HIDE DEF l
  <2>2. \A g \in Handle : \A k \in file[g] : k.id \in Nat
    BY DEF IInv, Typed, TypeOK, Line
  <2>3. new.id = nextId /\ new.to = h /\ new.at = now
    OBVIOUS
  <2> HIDE DEF new
  <2>4. \A e \in accepted' : e.id < nextId'
    BY <1>1, <2>1, <2>3 DEF Stamped
  <2>5. \A g \in Handle : \A k \in file'[g] : k.id < nextId'
    BY <1>1, <2>1, <2>2 DEF Stamped
  <2>6. ASSUME NEW e \in accepted', NEW k \in file'[e.to], k.id = e.id PROVE k.at = e.at
    <3>1. CASE e \in accepted /\ k \in file[e.to]
      BY <2>6, <3>1 DEF Stamped
    <3>2. CASE e = new /\ k = l
      BY <2>1, <2>3, <3>2
    <3>3. CASE e \in accepted /\ k = l
      BY <1>1, <2>1, <2>6, <3>3 DEF Stamped
    <3>4. CASE e = new /\ k \in file[h]
      BY <1>1, <2>1, <2>2, <2>3, <2>6, <3>4 DEF Stamped
    <3> QED BY <1>1, <2>1, <2>3, <3>1, <3>2, <3>3, <3>4
  <2> QED BY <2>4, <2>5, <2>6 DEF Stamped
<1>3. ASSUME UNCHANGED <<nextId, accepted>>, \A h \in Handle : file'[h] \subseteq file[h]
      PROVE  Stamped'
  BY <1>1, <1>3 DEF Stamped
<1>4. ASSUME NEW h \in Handle, NEW ids \in batches[h], Ack(h, ids) PROVE Stamped'
  <2>1. \A g \in Handle : file'[g] \subseteq file[g]
    BY <1>4 DEF Ack, Kept, Drain, IInv, Typed, TypeOK
  <2> QED BY <1>3, <1>4, <2>1 DEF Ack
<1>5. ASSUME NEW h \in Handle, NEW ids \in batches[h], TornRewrite(h, ids) PROVE Stamped'
  <2>1. \A g \in Handle : file'[g] \subseteq file[g]
    BY <1>5 DEF TornRewrite, Kept, Drain, IInv, Typed, TypeOK
  <2> QED BY <1>3, <1>5, <2>1 DEF TornRewrite
<1>6. CASE Sweep
  BY <1>3, <1>6, SweptFile DEF Sweep
<1>7. UNCHANGED <<file, nextId, accepted>> => Stamped'
  BY DEF Stamped
<1>8. ASSUME NEW h \in Handle, Inbox(h) \/ TornAppend(h) PROVE Stamped'
  BY <1>7, <1>8 DEF Inbox, TornAppend
<1>9. ASSUME NEW h \in Handle, NEW ids \in batches[h], AckLost(h, ids) PROVE Stamped'
  BY <1>7, <1>9 DEF AckLost
<1>10. CASE Tick \/ UNCHANGED vars
  BY <1>7, <1>10 DEF Tick, vars
<1> QED BY <1>2, <1>4, <1>5, <1>6, <1>8, <1>9, <1>10 DEF Next

LEMMA ContainedKept ==
  ASSUME IInv, Stamped, Contained, [Next]_vars PROVE Contained'
<1>1. tears \in [append : Nat, rewrite : Nat] /\ tears.append \in Nat /\ tears.rewrite \in Nat
  BY DEF IInv, Typed, TypeOK
<1>2. ASSUME NEW h \in Handle, Enqueue(h) PROVE Contained'
  BY <1>2, EnqueueContained
<1>3. ASSUME NEW h \in Handle, TornAppend(h) PROVE Contained'
  BY <1>3, TornAppendContained
<1>4. ASSUME NEW h \in Handle, NEW ids \in batches[h], TornRewrite(h, ids) PROVE Contained'
  <2>1. tears'.rewrite # 0
    BY <1>1, <1>4 DEF TornRewrite
  <2> QED BY <2>1 DEF Contained
<1>5. ASSUME NEW h \in Handle, NEW ids \in batches[h], Ack(h, ids) PROVE Contained'
  <2>1. /\ \A g \in Handle : removed[g] \subseteq removed'[g]
        /\ \A g \in Handle : \A l \in Drain(g) : l \in file'[g] \/ l.id \in removed'[g]
        /\ \A g \in Handle : torn'[g] => torn[g]
    BY <1>5 DEF Ack, Kept, Drain, IInv, Typed, TypeOK
  <2>2. Lost' \subseteq Lost /\ tears' = tears
    BY <1>5, <2>1, NotLost DEF Ack
  <2> QED BY <1>1, <2>1, <2>2, FewerLost, AccountShrinks
<1>6. CASE Sweep
  <2>1. /\ \A g \in Handle : \A l \in Drain(g) : l \in file'[g]
        /\ \A g \in Handle : torn'[g] => torn[g]
    BY <1>6, SweptFile DEF Sweep
  <2>2. Lost' \subseteq Lost /\ tears' = tears
    BY <1>6, <2>1, NotLost DEF Sweep
  <2> QED BY <1>1, <2>1, <2>2, FewerLost, AccountShrinks
<1>7. CASE Tick
  BY <1>7, TickContained
<1>8. UNCHANGED <<now, file, torn, accepted, removed, tears>> => Contained'
  BY DEF Contained, Account, Lost, Drain
<1>9. ASSUME NEW h \in Handle, Inbox(h) PROVE Contained'
  BY <1>8, <1>9 DEF Inbox
<1>10. ASSUME NEW h \in Handle, NEW ids \in batches[h], AckLost(h, ids) PROVE Contained'
  BY <1>8, <1>10 DEF AckLost
<1>11. CASE UNCHANGED vars
  BY <1>8, <1>11 DEF vars
<1> QED BY <1>2, <1>3, <1>4, <1>5, <1>6, <1>7, <1>9, <1>10, <1>11 DEF Next

(* An interrupted append costs at most one envelope, the one written after *)
(* its fragment, however appends, rounds of the recipient and sweeps       *)
(* follow one another, as long as no rewrite was interrupted               *)
(* (relay.mjs:101, 109-120, 128).                                          *)
THEOREM TornAppendsAreContained == Spec => []TearsAreContained
<1>1. Init => Stamped /\ Contained
  <2> SUFFICES ASSUME Init PROVE Stamped /\ Contained
    OBVIOUS
  <2>1. Account = {} /\ tears.append = 0
    BY DEF Init, Account, Lost
  <2> QED BY <2>1, FS_EmptySet DEF Init, Stamped, Contained
<1>2. IInv /\ Stamped /\ Contained /\ [Next]_vars => (Stamped /\ Contained)'
  BY StampedKept, ContainedKept
<1>3. IInv /\ Contained => TearsAreContained
  <2> SUFFICES ASSUME IInv, Contained, tears.rewrite = 0
               PROVE  Cardinality(Lost) <= tears.append
    BY DEF TearsAreContained
  <2> DEFINE tagged == {<<"lost", e>> : e \in Lost}
             tag == [e \in Lost |-> <<"lost", e>>]
  <2>1. IsFiniteSet(Account) /\ Cardinality(Account) <= tears.append /\ tears.append \in Nat
    BY DEF Contained, IInv, Typed, TypeOK
  <2>2. IsFiniteSet(tagged) /\ Cardinality(tagged) <= Cardinality(Account)
    BY <2>1, FS_Subset DEF Account
  <2>3. tag \in Injection(Lost, tagged)
    BY DEF Injection, IsInjective
  <2>4. IsFiniteSet(Lost) /\ Cardinality(Lost) <= Cardinality(tagged)
    BY <2>2, <2>3, FS_Injection
  <2>5. /\ Cardinality(Lost) \in Nat /\ Cardinality(tagged) \in Nat
        /\ Cardinality(Account) \in Nat
    BY <2>1, <2>2, <2>4, FS_CardinalityType
  <2> QED BY <2>1, <2>2, <2>4, <2>5
<1> QED BY <1>1, <1>2, <1>3, Invariance, PTL DEF Spec

-----------------------------------------------------------------------------
\* The view of the queue that the mailbox has.
Waiting(h) == {[id |-> l.id, at |-> l.at] : l \in Drain(h)}
WaitingMail == [h \in Handle |-> Waiting(h)]

\* Without torn writes there is never an interrupted one.
LEMMA NeverTorn ==
  ASSUME TornWrites = FALSE PROVE Spec => []NoTears
<1>1. Init => NoTears
  BY DEF Init, NoTears
<1>2. NoTears /\ [Next]_vars => NoTears'
  BY DEF NoTears, Next, vars, Enqueue, Inbox, Ack, AckLost, Sweep, Tick, TornAppend, TornRewrite
<1> QED BY <1>1, <1>2, PTL DEF Spec

LEMMA SameWaiting ==
  ASSUME \A h \in Handle : Drain(h)' = Drain(h) PROVE WaitingMail' = WaitingMail
  BY DEF WaitingMail, Waiting

LEMMA EnqueueDeposits ==
  ASSUME IInv, NoTears, NEW h \in Handle, Enqueue(h)
  PROVE  AbstractMailbox!Deposit(h)
<1> USE BoundsAssumption
<1>1. /\ Appended(h).ok /\ Appended(h).at = now /\ Appended(h).id = nextId
      /\ now \in Nat
  BY DEF IInv, Intact, Appended, Typed, TypeOK
<1>2. /\ file' = [file EXCEPT ![h] = @ \cup {Appended(h)}]
      /\ nextId' = nextId + 1 /\ UNCHANGED <<now, given>>
  BY DEF Enqueue
<1>3. Drain(h)' = Drain(h) \cup {Appended(h)}
  <2>1. file'[h] = file[h] \cup {Appended(h)}
    BY <1>2 DEF IInv, Typed, TypeOK
  <2> QED BY <1>1, <1>2, <2>1 DEF Drain
<1>4. ASSUME NEW g \in Handle, g # h PROVE Drain(g)' = Drain(g)
  BY <1>2, <1>4 DEF Drain, IInv, Typed, TypeOK
<1>5. Waiting(h)' = Waiting(h) \cup {[id |-> nextId, at |-> now]}
  BY <1>1, <1>3 DEF Waiting
<1>6. \A g \in Handle : g # h => Waiting(g)' = Waiting(g)
  BY <1>4 DEF Waiting
<1>7. WaitingMail' = [WaitingMail EXCEPT ![h] = @ \cup {[id |-> nextId, at |-> now]}]
  BY <1>5, <1>6 DEF WaitingMail
<1> QED BY <1>2, <1>7 DEF AbstractMailbox!Deposit, WaitingMail, Waiting

LEMMA InboxCollects ==
  ASSUME IInv, NEW h \in Handle, Inbox(h) PROVE AbstractMailbox!Collect(h)
<1>1. WaitingMail' = WaitingMail
  BY SameWaiting DEF Inbox, Drain
<1>2. Ids(Drain(h)) = {e.id : e \in WaitingMail[h]}
  <2>1. WaitingMail[h] = Waiting(h)
    BY DEF WaitingMail
  <2>2. ASSUME NEW l \in Drain(h) PROVE l.id \in {e.id : e \in Waiting(h)}
    <3>1. [id |-> l.id, at |-> l.at] \in Waiting(h)
      BY DEF Waiting
    <3> QED BY <3>1
  <2>3. ASSUME NEW e \in Waiting(h) PROVE e.id \in Ids(Drain(h))
    BY DEF Waiting, Ids
  <2> QED BY <2>1, <2>2, <2>3 DEF Ids
<1> QED BY <1>1, <1>2 DEF Inbox, AbstractMailbox!Collect, WaitingMail, Waiting

LEMMA AckRemoves ==
  ASSUME IInv, NEW h \in Handle, NEW ids \in batches[h], Ack(h, ids)
  PROVE  ids \in SUBSET given[h] /\ AbstractMailbox!Remove(h, ids)
<1>1. ids \in SUBSET given[h]
  BY DEF IInv, Asked
<1>2. file' = [file EXCEPT ![h] = Kept(h, ids)] /\ UNCHANGED <<now, given, nextId>>
  BY DEF Ack
<1>3. Drain(h)' = {l \in Drain(h) : l.id \notin ids}
  BY <1>2 DEF Drain, Kept, IInv, Typed, TypeOK
<1>4. ASSUME NEW g \in Handle, g # h PROVE Drain(g)' = Drain(g)
  BY <1>2, <1>4 DEF Drain, IInv, Typed, TypeOK
<1>5. Waiting(h)' = {e \in Waiting(h) : e.id \notin ids}
  BY <1>3 DEF Waiting
<1>6. \A g \in Handle : g # h => Waiting(g)' = Waiting(g)
  BY <1>4 DEF Waiting
<1>7. WaitingMail' = [WaitingMail EXCEPT ![h] = {e \in @ : e.id \notin ids}]
  BY <1>5, <1>6 DEF WaitingMail
<1> QED BY <1>1, <1>2, <1>7 DEF AbstractMailbox!Remove, WaitingMail, Waiting

LEMMA SweepHidden ==
  ASSUME IInv, Sweep PROVE UNCHANGED <<now, WaitingMail, given, nextId>>
<1>1. \A h \in Handle : Drain(h)' = Drain(h)
  BY SweptFile DEF Sweep, Drain
<1> QED BY <1>1, SameWaiting DEF Sweep

LEMMA TickTicks == ASSUME IInv, Tick PROVE AbstractMailbox!Tick
<1>1. now' = now + 1 /\ UNCHANGED <<file, given, nextId>> /\ now \in Nat
  BY DEF Tick, IInv, Typed, TypeOK
<1>2. ASSUME NEW h \in Handle
      PROVE  Drain(h)' = {l \in Drain(h) : now' - l.at < TTL}
  <2>1. \A l \in file[h] : l.at \in Nat
    BY DEF IInv, Typed, TypeOK, Line
  <2> QED BY <1>1, <2>1, BoundsAssumption DEF Drain
<1>3. ASSUME NEW h \in Handle
      PROVE  Waiting(h)' = {e \in Waiting(h) : now' - e.at < TTL}
  BY <1>2 DEF Waiting
<1>4. WaitingMail' = [h \in Handle |-> {e \in WaitingMail[h] : now' - e.at < TTL}]
  BY <1>3 DEF WaitingMail
<1> QED BY <1>1, <1>4 DEF AbstractMailbox!Tick, WaitingMail, Waiting

(* Seen from outside, and as long as no write is interrupted, the files    *)
(* implement the abstract mailbox: every step of the relay is a deposit, a *)
(* collection, a removal by the recipient, an expiry, or invisible         *)
(* (relay.mjs:92-149).                                                     *)
THEOREM ImplementsMailbox ==
  ASSUME TornWrites = FALSE PROVE Spec => MailboxSpec
<1>1. Init => AbstractMailbox!Init
  BY DEF Init, AbstractMailbox!Init, Drain
<1>2. IInv /\ NoTears /\ [Next]_vars => [AbstractMailbox!Next]_AbstractMailbox!mailboxVars
  <2> SUFFICES ASSUME IInv, NoTears, [Next]_vars
               PROVE  [AbstractMailbox!Next]_AbstractMailbox!mailboxVars
    OBVIOUS
  <2>1. ASSUME NEW h \in Handle, Enqueue(h) PROVE AbstractMailbox!Next
    BY <2>1, EnqueueDeposits DEF AbstractMailbox!Next
  <2>2. ASSUME NEW h \in Handle, Inbox(h) PROVE AbstractMailbox!Next
    BY <2>2, InboxCollects DEF AbstractMailbox!Next
  <2>3. ASSUME NEW h \in Handle, NEW ids \in batches[h], Ack(h, ids)
        PROVE  AbstractMailbox!Next
    BY <2>3, AckRemoves DEF AbstractMailbox!Next
  <2>4. ASSUME NEW h \in Handle, NEW ids \in batches[h], AckLost(h, ids)
        PROVE  UNCHANGED AbstractMailbox!mailboxVars
    <3>1. WaitingMail' = WaitingMail
      BY <2>4, SameWaiting DEF AckLost, Drain
    <3> QED BY <2>4, <3>1 DEF AckLost, AbstractMailbox!mailboxVars, WaitingMail, Waiting
  <2>5. CASE Sweep
    BY <2>5, SweepHidden DEF AbstractMailbox!mailboxVars, WaitingMail, Waiting
  <2>6. CASE Tick
    BY <2>6, TickTicks DEF AbstractMailbox!Next
  <2>7. CASE UNCHANGED vars
    <3>1. WaitingMail' = WaitingMail
      BY <2>7, SameWaiting DEF vars, Drain
    <3> QED BY <2>7, <3>1 DEF vars, AbstractMailbox!mailboxVars, WaitingMail, Waiting
  <2>8. /\ \A h \in Handle : ~TornAppend(h)
        /\ \A h \in Handle : \A ids \in batches[h] : ~TornRewrite(h, ids)
    BY DEF TornAppend, TornRewrite
  <2> QED BY <2>1, <2>2, <2>3, <2>4, <2>5, <2>6, <2>7, <2>8 DEF Next
<1>3. Spec => []NoTears
  BY NeverTorn
<1> QED BY <1>1, <1>2, <1>3, Invariance, PTL DEF Spec, MailboxSpec, AbstractMailbox!Spec
=============================================================================
