------------------------------ MODULE Directory ------------------------------
(***************************************************************************)
(* The signed member directory: the operator's tool that edits and signs   *)
(* it (tools/root-key.mjs), the host that serves its two files, the        *)
(* verification (client/crypto/trust.js), and an app that loads it         *)
(* (loadDirectory of client/app.js) and judges senders by it               *)
(* (_onEnvelope of client/net/transport.js).                               *)
(*                                                                         *)
(* Signatures are symbolic: members.sig is the directory it was made over, *)
(* and matches no other.  A member entry is made by the tool and therefore *)
(* carries a good signature of its own.  The host serves each of the two   *)
(* files in any version that was ever published, or not at all: caches,    *)
(* half-done deployments and replays are among the cases.                  *)
(***************************************************************************)
EXTENDS Integers

CONSTANTS
  Handle, Null,
  Load,        \* the loadDirectory calls that may be in progress at once
  Faults,      \* what may go wrong: "fail", a fetch brings nothing; "stale", it
               \* brings an old version; "torn", the tool dies between its two writes
  MaxKey,      \* bound: identity keys one handle goes through
  MaxSerial,   \* bound: times the directory is sealed
  MaxStarts    \* bound: times the app is started

ASSUME DirectoryBounds ==
  /\ MaxKey \in Nat /\ MaxSerial \in Nat /\ MaxStarts \in Nat
  /\ Faults \subseteq {"fail", "stale", "torn"}

VARIABLES
  repo,       \* directory/members.json at the operator's: serial, members, revoked
  sig,        \* members.sig: the directory it signs
  json,       \* every version of members.json published, newest last to be added
  sigs,       \* every version of members.sig published
  latest,     \* the files published last
  loads,      \* what each loadDirectory call past the rollback check read, or Null
  \* The app.
  directory,  \* app.directory: the member records in use
  lastSerial, \* localStorage zenvx.dirSerial
  cached,     \* localStorage zenvx.directory
  listening,  \* has startTransport been called?
  starts,
  \* History, read by the properties only.
  shunned,    \* handles revoked in a directory the app has put to use
  discarded   \* members whose envelope was discarded for its sender

operatorVars == <<repo, sig, json, sigs, latest>>
appVars == <<directory, lastSerial, cached, listening, starts, loads, shunned, discarded>>
vars == <<operatorVars, appVars>>

Member == [handle : Handle, key : 1 .. MaxKey]
Dir == [serial : 0 .. MaxSerial, members : SUBSET Member, revoked : SUBSET Handle]
Empty == [serial |-> 0, members |-> {}, revoked |-> {}]

Handles(ms) == {m.handle : m \in ms}

TypeOK ==
  /\ repo \in Dir /\ sig \in Dir \cup {Null}
  /\ json \subseteq Dir /\ sigs \subseteq Dir \cup {Null}
  /\ latest.json \in json /\ latest.sig \in sigs
  /\ loads \in [Load -> json \cup {Null}]
  /\ directory \subseteq Member
  /\ lastSerial \in 0 .. MaxSerial /\ cached \in json \cup {Null}
  /\ directory # {} => (cached # Null /\ lastSerial = cached.serial)
  /\ listening \in BOOLEAN /\ starts \in 0 .. MaxStarts
  /\ shunned \subseteq Handle

Init ==
  /\ repo = Empty /\ sig = Null
  /\ json = {Empty} /\ sigs = {Null} /\ latest = [json |-> Empty, sig |-> Null]
  /\ loads = [l \in Load |-> Null] /\ directory = {} /\ lastSerial = 0 /\ cached = Null
  /\ listening = FALSE /\ starts = 0
  /\ shunned = {} /\ discarded = {}

-----------------------------------------------------------------------------
\* seal: the serial goes up, members.json is written, and then members.sig; the
\* tool may die between the two.
Seal(d) ==
  LET new == [d EXCEPT !.serial = @ + 1]
  IN /\ repo.serial < MaxSerial
     /\ repo' = new
     /\ sig' \in {new} \cup (IF "torn" \in Faults THEN {sig} ELSE {})

\* enroll: the handle must not be among the members.
Enroll(h, k) ==
  /\ h \notin Handles(repo.members)
  /\ Seal([repo EXCEPT !.members = @ \cup {[handle |-> h, key |-> k]}])
  /\ UNCHANGED <<json, sigs, latest, appVars>>

\* revoke: the entry goes, and the handle is noted.
Revoke(m) ==
  /\ m \in repo.members
  /\ Seal([repo EXCEPT !.members = @ \ {m}, !.revoked = @ \cup {m.handle}])
  /\ UNCHANGED <<json, sigs, latest, appVars>>

Reseal ==
  /\ Seal(repo)
  /\ UNCHANGED <<json, sigs, latest, appVars>>

\* The operator commits and pushes directory/.
Publish ==
  /\ sig # Null
  /\ latest' = [json |-> repo, sig |-> sig]
  /\ json' = json \cup {repo} /\ sigs' = sigs \cup {sig}
  /\ UNCHANGED <<repo, sig, appVars>>

-----------------------------------------------------------------------------
\* What the fetch of a file may bring of its versions; Null when it fails.
Fetched(versions, newest) ==
  (IF "stale" \in Faults THEN versions ELSE {newest})
    \cup (IF "fail" \in Faults THEN {Null} ELSE {})

\* The definitions named Bug... are not the code: each is a mistake that could
\* have been made at the definition that follows it, and breaks a property.
BugIsRollback(serial, last) == serial + 1 < last

\* isRollback.
IsRollback(serial, last) == serial < last

\* The members an app or the relay accepts from a directory.
AcceptedMembers(d) == {m \in d.members : m.handle \notin d.revoked}

\* loadDirectory up to its second fetch: members.json, or the cached copy when
\* it cannot be had, and the rollback check.
StartLoad(l) ==
  /\ loads[l] = Null
  /\ \E answer \in Fetched(json, latest.json) :
       LET dir == IF answer = Null THEN cached ELSE answer
       IN /\ dir # Null
          /\ ~IsRollback(dir.serial, lastSerial)
          /\ loads' = [loads EXCEPT ![l] = dir]
  /\ UNCHANGED <<operatorVars, directory, lastSerial, cached, listening, starts, shunned, discarded>>

\* loadDirectory gives up: nothing to load, or a rollback.  The app goes on
\* with the directory it has, and connects.
NoLoad ==
  /\ \E answer \in Fetched(json, latest.json) :
       LET dir == IF answer = Null THEN cached ELSE answer
       IN dir # Null => IsRollback(dir.serial, lastSerial)
  /\ listening' = TRUE
  /\ UNCHANGED <<operatorVars, loads, directory, lastSerial, cached, starts, shunned, discarded>>

BugAdopt(dir) == directory' = AcceptedMembers(dir) /\ cached' = dir /\ UNCHANGED lastSerial

\* What a load that passed every check leaves behind.
Adopt(dir) == directory' = AcceptedMembers(dir) /\ cached' = dir /\ lastSerial' = dir.serial

\* The signature is fetched and checked: the directory is put to use only when
\* it is the one that was signed.
FinishLoad(l) ==
  /\ loads[l] # Null
  /\ loads' = [loads EXCEPT ![l] = Null]
  /\ \E signed \in Fetched(sigs, latest.sig) :
       IF signed = loads[l]
         THEN Adopt(loads[l]) /\ shunned' = shunned \cup loads[l].revoked
         ELSE UNCHANGED <<directory, lastSerial, cached, shunned>>
  /\ listening' = TRUE
  /\ UNCHANGED <<operatorVars, starts, discarded>>

\* The app is started: only what localStorage holds is left.
Start ==
  /\ starts < MaxStarts
  /\ starts' = starts + 1
  /\ loads' = [l \in Load |-> Null] /\ directory' = {} /\ listening' = FALSE
  /\ UNCHANGED <<operatorVars, lastSerial, cached, shunned, discarded>>

\* An envelope from a member of the published directory arrives: it is handed
\* on if the app's directory has the sender, else discarded and acknowledged.
EnvelopeFrom(m) ==
  /\ listening /\ m \in AcceptedMembers(latest.json)
  /\ m.handle \notin Handles(directory)
  /\ discarded' = discarded \cup {m}
  /\ UNCHANGED <<operatorVars, loads, directory, lastSerial, cached, listening, starts, shunned>>

Next ==
  \/ \E h \in Handle, k \in 1 .. MaxKey : Enroll(h, k)
  \/ \E m \in repo.members : Revoke(m)
  \/ Reseal \/ Publish
  \/ \E l \in Load : StartLoad(l) \/ FinishLoad(l)
  \/ NoLoad
  \/ Start
  \/ \E m \in latest.json.members : EnvelopeFrom(m)

Spec == Init /\ [][Next]_vars

-----------------------------------------------------------------------------
(* An app that has accepted one directory never goes back to an older one, *)
(* whatever the host serves and however often it is restarted              *)
(* (app.js:197-203, trust.js:110-114).                                     *)
NeverRollsBack == [][lastSerial' >= lastSerial]_vars

(* Revocation lasts: once the app has seen a directory in which a member   *)
(* was revoked, the member does not come back, although every older        *)
(* directory is still validly signed (app.js:197-203, README.md:40).       *)
RevokedStaysOut == shunned \cap Handles(directory) = {}

(* "Revoke first to re-key" (root-key.mjs:131): whoever the tool has       *)
(* enrolled is accepted by whoever loads the directory.                    *)
EnrolledIsAccepted == \A m \in repo.members : m \in AcceptedMembers(repo)

(* Only undecryptable mail is acknowledged unread (transport.js:298): mail *)
(* from a member of the published directory is not discarded.              *)
MembersMailIsKept == discarded = {}

(* The app works offline (sw.js:3): with a directory in its cache, an app  *)
(* that has finished loading has members to talk to.                       *)
CacheIsUsed ==
  (/\ listening /\ \A l \in Load : loads[l] = Null
   /\ cached # Null /\ AcceptedMembers(cached) # {})
  => directory # {}
=============================================================================
