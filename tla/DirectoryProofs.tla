--------------------------- MODULE DirectoryProofs ---------------------------
(***************************************************************************)
(* Proofs about the signed member directory, for every set of handles,     *)
(* every bound and every combination of faults.                            *)
(*                                                                         *)
(* The serial comparison of the client only keeps a revoked member out     *)
(* because the operator's tool never takes a revocation back: that is      *)
(* Grows, and it is what ties the tool's half to the client's half.  The   *)
(* comparison is made before the second fetch and used after it, so that   *)
(* nothing may be adopted in between: that is Fresh, and it needs the      *)
(* assumption that only one loadDirectory call is in progress at a time    *)
(* (without it the run DirectoryOverlap shows the serial going back).      *)
(*                                                                         *)
(*   Grows      of two directories ever published, the one with the        *)
(*              greater serial revokes at least as much; the tool's own    *)
(*              copy has the greatest serial;                              *)
(*   InUse      what the app uses, has stored and remembers of revocations *)
(*              comes from one and the same directory;                     *)
(*   Fresh      a load past its rollback check is still no rollback.       *)
(***************************************************************************)
EXTENDS Directory, TLAPS

OneLoad == \A k, l \in Load : k = l

Grows ==
  /\ \A d \in json : d.serial <= repo.serial
  /\ \A d, e \in json \cup {repo} : d.serial <= e.serial => d.revoked \subseteq e.revoked

InUse ==
  /\ cached = Null => (directory = {} /\ shunned = {} /\ lastSerial = 0)
  /\ cached # Null => /\ directory \subseteq AcceptedMembers(cached)
                      /\ shunned \subseteq cached.revoked
                      /\ lastSerial = cached.serial

Fresh == \A l \in Load : loads[l] # Null => loads[l].serial >= lastSerial

IInv == TypeOK /\ Grows /\ InUse /\ Fresh

-----------------------------------------------------------------------------
\* What sealing leaves in the tool's copy.
LEMMA SealGrows ==
  ASSUME IInv, NEW d \in Dir, d.serial = repo.serial, repo.revoked \subseteq d.revoked,
         Seal(d), json' = json
  PROVE  repo' \in Dir /\ sig' \in Dir \cup {Null} /\ Grows'
<1> DEFINE new == [d EXCEPT !.serial = @ + 1]
<1>1. repo.serial \in 0 .. MaxSerial /\ MaxSerial \in Nat /\ repo \in Dir /\ json \subseteq Dir
  BY DirectoryBounds DEF IInv, TypeOK, Dir
<1>2. /\ new \in Dir /\ new.serial = repo.serial + 1 /\ new.revoked = d.revoked
      /\ repo' = new
  BY <1>1 DEF Seal, Dir
<1>3. sig' \in Dir \cup {Null}
  BY <1>2 DEF Seal, IInv, TypeOK
<1>4. \A e \in json : e.serial \in Nat /\ e.serial <= repo.serial /\ e.revoked \subseteq repo.revoked
  BY <1>1 DEF IInv, Grows, Dir
<1>5. (\A e \in json : e.serial <= repo.serial)'
  BY <1>1, <1>2, <1>4
<1>6. ASSUME NEW e \in json \cup {new}, NEW f \in json \cup {new}, e.serial <= f.serial
      PROVE  e.revoked \subseteq f.revoked
  <2>1. CASE e \in json /\ f \in json
    BY <1>6, <2>1 DEF IInv, Grows
  <2>2. CASE f = new
    BY <1>2, <1>4, <2>2
  <2>3. CASE e = new /\ f \in json
    BY <1>1, <1>2, <1>4, <1>6, <2>3
  <2> QED BY <2>1, <2>2, <2>3
<1>7. (\A e, f \in json \cup {repo} : e.serial <= f.serial => e.revoked \subseteq f.revoked)'
  BY <1>2, <1>6
<1> QED BY <1>2, <1>3, <1>5, <1>7 DEF Grows

\* The tool's commands leave the app alone.
LEMMA OperatorKeeps ==
  ASSUME IInv, repo' \in Dir, sig' \in Dir \cup {Null}, Grows',
         UNCHANGED <<json, sigs, latest, appVars>>
  PROVE  IInv'
<1>1. TypeOK'
  BY DEF IInv, TypeOK, appVars
<1>2. InUse' /\ Fresh'
  BY DEF IInv, InUse, Fresh, appVars, AcceptedMembers
<1> QED BY <1>1, <1>2 DEF IInv

\* A load takes up a published directory that is no rollback.
LEMMA StartLoadKeeps ==
  ASSUME IInv, NEW l \in Load, StartLoad(l)
  PROVE  IInv'
<1>1. PICK dir \in json : /\ dir.serial >= lastSerial
                          /\ loads' = [loads EXCEPT ![l] = dir]
  <2>1. PICK answer \in Fetched(json, latest.json) :
          LET dir == IF answer = Null THEN cached ELSE answer
          IN /\ dir # Null
             /\ ~IsRollback(dir.serial, lastSerial)
             /\ loads' = [loads EXCEPT ![l] = dir]
    BY DEF StartLoad
  <2>2. answer \in json \cup {Null} /\ cached \in json \cup {Null}
    BY DEF Fetched, IInv, TypeOK
  <2>3. \A d \in json : d.serial \in Nat
    BY DEF IInv, TypeOK, Dir
  <2> DEFINE dir == IF answer = Null THEN cached ELSE answer
  <2>4. dir \in json /\ ~(dir.serial < lastSerial) /\ loads' = [loads EXCEPT ![l] = dir]
    BY <2>1, <2>2 DEF IsRollback
  <2>5. dir.serial >= lastSerial
    BY <2>3, <2>4 DEF IInv, TypeOK
  <2> HIDE DEF dir
  <2> QED BY <2>4, <2>5, Zenon
<1>2. UNCHANGED <<operatorVars, directory, lastSerial, cached, listening, starts, shunned>>
  BY DEF StartLoad
<1>3. TypeOK'
  BY <1>1, <1>2 DEF IInv, TypeOK, operatorVars
<1>4. Grows' /\ InUse'
  BY <1>2 DEF IInv, Grows, InUse, operatorVars, AcceptedMembers
<1>5. Fresh'
  BY <1>1, <1>2 DEF IInv, Fresh, TypeOK
<1> QED BY <1>3, <1>4, <1>5 DEF IInv

\* A directory is adopted only over an older one, or over itself.
LEMMA FinishLoadKeeps ==
  ASSUME OneLoad, IInv, NEW l \in Load, FinishLoad(l)
  PROVE  IInv'
<1> DEFINE dir == loads[l]
<1>1. dir \in json /\ dir \in Dir /\ dir.serial \in 0 .. MaxSerial /\ dir.serial >= lastSerial
  BY DEF FinishLoad, IInv, TypeOK, Fresh, Dir
<1>2. /\ loads' = [loads EXCEPT ![l] = Null]
      /\ listening' = TRUE /\ UNCHANGED <<operatorVars, starts>>
  BY DEF FinishLoad
<1>3. \A k \in Load : loads'[k] = Null
  BY <1>2 DEF OneLoad, IInv, TypeOK
<1>4. Fresh'
  BY <1>3 DEF Fresh
<1>5. Grows'
  BY <1>2 DEF IInv, Grows, operatorVars
<1>6. CASE Adopt(dir) /\ shunned' = shunned \cup dir.revoked
  <2>1. dir # Null /\ cached' = dir /\ lastSerial' = dir.serial
        /\ directory' = AcceptedMembers(dir) /\ dir.revoked \subseteq Handle
        /\ AcceptedMembers(dir) \subseteq Member
    BY <1>1, <1>6 DEF Adopt, FinishLoad, Dir, AcceptedMembers
  <2>2. shunned \subseteq dir.revoked
    <3>1. CASE cached = Null
      BY <3>1 DEF IInv, InUse
    <3>2. CASE cached # Null
      BY <1>1, <3>2 DEF IInv, InUse, TypeOK, Grows
    <3> QED BY <3>1, <3>2
  <2>3. TypeOK'
    BY <1>1, <1>2, <1>3, <1>6, <2>1 DEF IInv, TypeOK, operatorVars
  <2>4. InUse'
    <3>1. cached' # Null /\ shunned' \subseteq cached'.revoked /\ lastSerial' = cached'.serial
      BY <1>6, <2>1, <2>2
    <3>2. directory' \subseteq AcceptedMembers(cached')
      BY <2>1
    <3> QED BY <3>1, <3>2 DEF InUse, AcceptedMembers
  <2> QED BY <1>4, <1>5, <2>3, <2>4 DEF IInv
<1>7. CASE UNCHANGED <<directory, lastSerial, cached, shunned>>
  <2>1. TypeOK'
    BY <1>2, <1>3, <1>7 DEF IInv, TypeOK, operatorVars
  <2>2. InUse'
    BY <1>7 DEF IInv, InUse, AcceptedMembers
  <2> QED BY <1>4, <1>5, <2>1, <2>2 DEF IInv
<1> QED BY <1>6, <1>7 DEF FinishLoad

-----------------------------------------------------------------------------
LEMMA Inductive == ASSUME OneLoad, IInv, [Next]_vars PROVE IInv'
<1>1. ASSUME NEW h \in Handle, NEW k \in 1 .. MaxKey, Enroll(h, k) PROVE IInv'
  <2> DEFINE d == [repo EXCEPT !.members = @ \cup {[handle |-> h, key |-> k]}]
  <2>1. d \in Dir /\ d.serial = repo.serial /\ d.revoked = repo.revoked /\ Seal(d)
        /\ UNCHANGED <<json, sigs, latest, appVars>>
    BY <1>1 DEF Enroll, IInv, TypeOK, Dir, Member
  <2> HIDE DEF d
  <2> QED BY <2>1, SealGrows, OperatorKeeps
<1>2. ASSUME NEW m \in repo.members, Revoke(m) PROVE IInv'
  <2> DEFINE d == [repo EXCEPT !.members = @ \ {m}, !.revoked = @ \cup {m.handle}]
  <2>1. m \in Member /\ m.handle \in Handle
    BY DEF IInv, TypeOK, Dir, Member
  <2>2. d \in Dir /\ d.serial = repo.serial /\ repo.revoked \subseteq d.revoked /\ Seal(d)
        /\ UNCHANGED <<json, sigs, latest, appVars>>
    BY <1>2, <2>1 DEF Revoke, IInv, TypeOK, Dir
  <2> HIDE DEF d
  <2> QED BY <2>2, SealGrows, OperatorKeeps
<1>3. CASE Reseal
  BY <1>3, SealGrows, OperatorKeeps DEF Reseal, IInv, TypeOK
<1>4. CASE Publish
  <2>1. /\ json' = json \cup {repo} /\ sigs' = sigs \cup {sig}
        /\ latest' = [json |-> repo, sig |-> sig] /\ UNCHANGED <<repo, sig, appVars>>
    BY <1>4 DEF Publish
  <2>2. TypeOK'
    BY <2>1 DEF IInv, TypeOK, appVars
  <2>3. Grows'
    BY <2>1, DirectoryBounds DEF IInv, Grows, TypeOK, Dir
  <2>4. InUse' /\ Fresh'
    BY <2>1 DEF IInv, InUse, Fresh, appVars, AcceptedMembers
  <2> QED BY <2>2, <2>3, <2>4 DEF IInv
<1>5. ASSUME NEW l \in Load, StartLoad(l) \/ FinishLoad(l) PROVE IInv'
  BY <1>5, StartLoadKeeps, FinishLoadKeeps
<1>6. CASE NoLoad \/ \E m \in latest.json.members : EnvelopeFrom(m)
  <2>1. listening' \in BOOLEAN
        /\ UNCHANGED <<operatorVars, loads, directory, lastSerial, cached, starts, shunned>>
    BY <1>6 DEF NoLoad, EnvelopeFrom, IInv, TypeOK
  <2>2. TypeOK'
    BY <2>1 DEF IInv, TypeOK, operatorVars
  <2> QED BY <2>1, <2>2 DEF IInv, Grows, InUse, Fresh, operatorVars, AcceptedMembers
<1>7. CASE Start
  <2>1. /\ starts' \in 0 .. MaxStarts /\ loads' = [l \in Load |-> Null] /\ directory' = {}
        /\ listening' = FALSE /\ UNCHANGED <<operatorVars, lastSerial, cached, shunned>>
    BY <1>7, DirectoryBounds DEF Start, IInv, TypeOK
  <2>2. TypeOK'
    BY <2>1 DEF IInv, TypeOK, operatorVars
  <2>3. Grows' /\ InUse'
    BY <2>1 DEF IInv, Grows, InUse, operatorVars, AcceptedMembers
  <2>4. Fresh'
    BY <2>1 DEF Fresh
  <2> QED BY <2>2, <2>3, <2>4 DEF IInv
<1>8. CASE UNCHANGED vars
  BY <1>8 DEF vars, operatorVars, appVars, IInv, TypeOK, Grows, InUse, Fresh, AcceptedMembers
<1> QED BY <1>1, <1>2, <1>3, <1>4, <1>5, <1>6, <1>7, <1>8 DEF Next

LEMMA InitInvariant == Init => IInv
<1> SUFFICES ASSUME Init PROVE IInv
  OBVIOUS
<1>1. Empty \in Dir
  BY DirectoryBounds DEF Empty, Dir
<1>2. TypeOK
  <2>1. /\ repo \in Dir /\ sig \in Dir \cup {Null}
        /\ json \subseteq Dir /\ sigs \subseteq Dir \cup {Null}
    BY <1>1 DEF Init
  <2>2. latest.json \in json /\ latest.sig \in sigs
    BY DEF Init
  <2>3. loads \in [Load -> json \cup {Null}] /\ directory \subseteq Member
    BY DEF Init
  <2>4. lastSerial \in 0 .. MaxSerial /\ cached \in json \cup {Null} /\ directory = {}
    BY DirectoryBounds DEF Init
  <2>5. listening \in BOOLEAN /\ shunned \subseteq Handle
    BY DEF Init
  <2>6. starts \in 0 .. MaxStarts
    BY DirectoryBounds DEF Init
  <2> QED BY <2>1, <2>2, <2>3, <2>4, <2>5, <2>6 DEF TypeOK
<1>3. Grows /\ InUse /\ Fresh
  BY DEF Init, Grows, InUse, Fresh, Empty
<1> QED BY <1>2, <1>3 DEF IInv

LEMMA Invariance == ASSUME OneLoad PROVE Spec => []IInv
BY Inductive, InitInvariant, PTL DEF Spec

(* The types, and with them that the stored serial is the one of the       *)
(* stored directory (app.js:182-231, root-key.mjs:67-175).                 *)
THEOREM TypeCorrect == ASSUME OneLoad PROVE Spec => []TypeOK
<1>1. IInv => TypeOK
  BY DEF IInv
<1> QED BY <1>1, Invariance, PTL

(* As long as directories are loaded one at a time, revocation lasts:      *)
(* whatever old or mismatched files the host serves, whichever fetches     *)
(* fail and however often the app is restarted, a member whose revocation  *)
(* the app has once seen is not in its directory (app.js:197-225).         *)
THEOREM RevocationLasts == ASSUME OneLoad PROVE Spec => []RevokedStaysOut
<1>1. IInv => RevokedStaysOut
  BY DEF IInv, InUse, RevokedStaysOut, Handles, AcceptedMembers
<1> QED BY <1>1, Invariance, PTL

(* Under the same assumption the serial never goes back (app.js:197-203).  *)
THEOREM SerialNeverGoesBack == ASSUME OneLoad PROVE Spec => NeverRollsBack
<1>1. IInv /\ [Next]_vars => [lastSerial' >= lastSerial]_vars
  <2> SUFFICES ASSUME IInv, [Next]_vars PROVE lastSerial' >= lastSerial
    OBVIOUS
  <2>1. lastSerial \in Nat
    BY DEF IInv, TypeOK
  <2>2. ASSUME NEW l \in Load, FinishLoad(l) PROVE lastSerial' >= lastSerial
    <3>1. loads[l].serial >= lastSerial
      BY <2>2 DEF FinishLoad, IInv, Fresh
    <3> QED BY <2>1, <2>2, <3>1 DEF FinishLoad, Adopt
  <2>3. CASE UNCHANGED lastSerial
    BY <2>1, <2>3
  <2> QED BY <2>2, <2>3 DEF Next, Enroll, Revoke, Reseal, Publish, StartLoad, NoLoad, Start,
          EnvelopeFrom, appVars, vars
<1> QED BY <1>1, Invariance, PTL DEF Spec, NeverRollsBack
=============================================================================
