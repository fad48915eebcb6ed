------------------------------ MODULE RelayMail ------------------------------
(***************************************************************************)
(* The mail queue of the relay (server/relay.mjs): one append-only JSONL   *)
(* file per recipient, written by enqueue, read by drain, rewritten by ack *)
(* and thinned by sweep.  The functions are synchronous, so each is one    *)
(* step; what interleaves is the recipient's side, which reads its inbox   *)
(* in one request and acknowledges what it read in a later one, several    *)
(* such rounds at a time, while mail keeps arriving and time passes.       *)
(*                                                                         *)
(* A line is the record a file holds: its identifier, the time it was      *)
(* queued and whether it still parses.  Identifiers are handed out in      *)
(* increasing order and every rewrite keeps the order of the lines, so a   *)
(* file is the set of its lines and its order is the order of the          *)
(* identifiers.  An absent file is the empty set.  The envelope itself is  *)
(* opaque to the relay and to this module.                                 *)
(*                                                                         *)
(* TornWrites adds what a full disk or a power cut does: an append that    *)
(* leaves a fragment with no end of line, and a rewrite that leaves only a *)
(* first part of the file.                                                 *)
(***************************************************************************)
EXTENDS Integers, FiniteSets

CONSTANTS
  Handle,      \* recipients that have a mailbox
  MaxQueue,    \* MAX_QUEUE_PER_DEVICE
  TTL,         \* TTL_MS, in ticks of the clock
  TornWrites,  \* may a write stop half way?
  MaxId,       \* bound: envelopes queued in a behaviour
  MaxNow,      \* bound: the last tick
  MaxBatches,  \* bound: inbox rounds of one recipient in progress at once
  MaxTorn      \* bound: interrupted writes

ASSUME BoundsAssumption ==
  /\ MaxQueue \in Nat /\ TTL \in Nat \ {0}
  /\ MaxId \in Nat /\ MaxNow \in Nat /\ MaxBatches \in Nat /\ MaxTorn \in Nat
  /\ TornWrites \in BOOLEAN

VARIABLES
  now,       \* Date.now(), in ticks
  file,      \* file[h]: the complete lines of queue/<h>.jsonl
  torn,      \* torn[h]: does the file end in a fragment with no end of line?
  nextId,    \* the identifier the next enqueue draws
  batches,   \* batches[h]: the sets of ids that h read and has yet to acknowledge
  swept,     \* the time of the last sweep
  \* History, read by the properties only.
  accepted,  \* the envelopes [id, to, at] that enqueue answered ok
  given,     \* given[h]: the ids an inbox answer ever contained
  removed,   \* removed[h]: the ids h acknowledged
  tears      \* [append, rewrite |-> Nat]: interrupted writes so far

vars == <<now, file, torn, nextId, batches, swept, accepted, given, removed, tears>>

Line == [id : Nat, at : Nat, ok : BOOLEAN]

TypeOK ==
  /\ now \in Nat /\ nextId \in Nat /\ swept \in Nat
  /\ file \in [Handle -> SUBSET Line]
  /\ torn \in [Handle -> BOOLEAN]
  /\ batches \in [Handle -> SUBSET SUBSET Nat]
  /\ accepted \subseteq [id : Nat, to : Handle, at : Nat]
  /\ given \in [Handle -> SUBSET Nat]
  /\ removed \in [Handle -> SUBSET Nat]
  /\ tears \in [append : Nat, rewrite : Nat]

Init ==
  /\ now = 0 /\ nextId = 0 /\ swept = 0
  /\ file = [h \in Handle |-> {}]
  /\ torn = [h \in Handle |-> FALSE]
  /\ batches = [h \in Handle |-> {}]
  /\ accepted = {}
  /\ given = [h \in Handle |-> {}]
  /\ removed = [h \in Handle |-> {}]
  /\ tears = [append |-> 0, rewrite |-> 0]

-----------------------------------------------------------------------------
\* What enqueue counts: every line that is not blank, expired and damaged ones
\* and a trailing fragment included.
LineCount(h) == Cardinality(file[h]) + (IF torn[h] THEN 1 ELSE 0)

\* The definitions named Bug... are not the code: each is a mistake that could
\* have been made at the definition that follows it, and breaks a property.
BugDrain(h) == {l \in file[h] : l.ok /\ now - l.at <= TTL}

\* drain: the lines that parse and are younger than the TTL.
Drain(h) == {l \in file[h] : l.ok /\ now - l.at < TTL}

Ids(lines) == {l.id : l \in lines}

BugAppended(h) == [id |-> nextId, at |-> now - TTL, ok |-> ~torn[h]]

\* A line written after a fragment shares its line and does not parse.
Appended(h) == [id |-> nextId, at |-> now, ok |-> ~torn[h]]

BugEnqueue(h) ==
  /\ nextId < MaxId
  /\ LineCount(h) < MaxQueue
  /\ file' = [file EXCEPT ![h] = @ \cup {Appended(h)}]
  /\ accepted' = accepted \cup {[id |-> nextId, to |-> h, at |-> now]}
  /\ nextId' = nextId + 1
  /\ UNCHANGED <<now, torn, batches, swept, given, removed, tears>>

BugEnqueueWhenFull(h) ==
  /\ nextId < MaxId
  /\ LineCount(h) <= MaxQueue
  /\ file' = [file EXCEPT ![h] = @ \cup {Appended(h)}]
  /\ torn' = [torn EXCEPT ![h] = FALSE]
  /\ accepted' = accepted \cup {[id |-> nextId, to |-> h, at |-> now]}
  /\ nextId' = nextId + 1
  /\ UNCHANGED <<now, batches, swept, given, removed, tears>>

\* enqueue with room: the line is appended and the sender told its id.
Enqueue(h) ==
  /\ nextId < MaxId
  /\ LineCount(h) < MaxQueue
  /\ file' = [file EXCEPT ![h] = @ \cup {Appended(h)}]
  /\ torn' = [torn EXCEPT ![h] = FALSE]
  /\ accepted' = accepted \cup {[id |-> nextId, to |-> h, at |-> now]}
  /\ nextId' = nextId + 1
  /\ UNCHANGED <<now, batches, swept, given, removed, tears>>

\* GET /v1/inbox, and the recipient keeping the ids of the answer.  An empty
\* answer ends the round.
Inbox(h) ==
  /\ Drain(h) # {}
  /\ Cardinality(batches[h]) < MaxBatches
  /\ batches' = [batches EXCEPT ![h] = @ \cup {Ids(Drain(h))}]
  /\ given' = [given EXCEPT ![h] = @ \cup Ids(Drain(h))]
  /\ UNCHANGED <<now, file, torn, nextId, swept, accepted, removed, tears>>

BugKept(h, ids) == {}

\* ack: what a fresh drain returns, less the acknowledged ids, is written back;
\* nothing left removes the file.
Kept(h, ids) == {l \in Drain(h) : l.id \notin ids}

Ack(h, ids) ==
  /\ ids \in batches[h]
  /\ file' = [file EXCEPT ![h] = Kept(h, ids)]
  /\ torn' = [torn EXCEPT ![h] = FALSE]
  /\ batches' = [batches EXCEPT ![h] = @ \ {ids}]
  /\ removed' = [removed EXCEPT ![h] = @ \cup ids]
  /\ UNCHANGED <<now, nextId, swept, accepted, given, tears>>

\* The acknowledgement never reaches the relay: the request fails, or the app
\* is closed before it is sent.
AckLost(h, ids) ==
  /\ ids \in batches[h]
  /\ batches' = [batches EXCEPT ![h] = @ \ {ids}]
  /\ UNCHANGED <<now, file, torn, nextId, swept, accepted, given, removed, tears>>

BugSwept(h) ==
  IF Cardinality(Drain(h)) # Cardinality(file[h]) /\ Drain(h) # {}
    THEN Drain(h) ELSE file[h]

\* What one pass of sweep leaves of a file.  Both lengths it compares are those
\* of a drained file.
Swept(h) ==
  LET before == Cardinality(Drain(h))
      kept == Drain(h)
  IN IF kept = {} \/ Cardinality(kept) # before THEN kept ELSE file[h]

Sweep ==
  /\ swept < now
  /\ file' = [h \in Handle |-> Swept(h)]
  /\ torn' = [h \in Handle |-> IF Swept(h) = {} THEN FALSE ELSE torn[h]]
  /\ swept' = now
  /\ UNCHANGED <<now, nextId, batches, accepted, given, removed, tears>>

Tick ==
  /\ now < MaxNow
  /\ now' = now + 1
  /\ UNCHANGED <<file, torn, nextId, batches, swept, accepted, given, removed, tears>>

-----------------------------------------------------------------------------
\* The append stops half way and takes the process with it; the sender gets no
\* answer.
TornAppend(h) ==
  /\ TornWrites /\ tears.append + tears.rewrite < MaxTorn
  /\ LineCount(h) < MaxQueue
  /\ torn' = [torn EXCEPT ![h] = TRUE]
  /\ tears' = [tears EXCEPT !.append = @ + 1]
  /\ UNCHANGED <<now, file, nextId, batches, swept, accepted, given, removed>>

\* ack's rewrite stops half way: the file was emptied first, so only a first
\* part of what was to be kept is there.
TornRewrite(h, ids) ==
  /\ TornWrites /\ tears.append + tears.rewrite < MaxTorn
  /\ ids \in batches[h]
  /\ \E part \in SUBSET Kept(h, ids) :
       /\ part # Kept(h, ids)
       /\ \A l \in part, m \in Kept(h, ids) \ part : l.id < m.id
       /\ file' = [file EXCEPT ![h] = part]
  /\ \E fragment \in BOOLEAN : torn' = [torn EXCEPT ![h] = fragment]
  /\ batches' = [batches EXCEPT ![h] = @ \ {ids}]
  /\ removed' = [removed EXCEPT ![h] = @ \cup ids]
  /\ tears' = [tears EXCEPT !.rewrite = @ + 1]
  /\ UNCHANGED <<now, nextId, swept, accepted, given>>

Next ==
  \/ \E h \in Handle : Enqueue(h) \/ Inbox(h) \/ TornAppend(h)
  \/ \E h \in Handle : \E ids \in batches[h] :
       Ack(h, ids) \/ AckLost(h, ids) \/ TornRewrite(h, ids)
  \/ Sweep
  \/ Tick

Spec == Init /\ [][Next]_vars

-----------------------------------------------------------------------------
\* An accepted envelope that is neither acknowledged nor expired, and that its
\* recipient can no longer be given.
Lost ==
  {e \in accepted : /\ now - e.at < TTL
                    /\ e.id \notin removed[e.to]
                    /\ e.id \notin Ids(Drain(e.to))}

(* Mail the relay answered 202 for stays collectable until its recipient   *)
(* acknowledges it or its TTL is over, however the rounds of reading and   *)
(* acknowledging overlap with new mail, as long as no write was            *)
(* interrupted (relay.mjs:92-130).                                         *)
NoLoss == tears = [append |-> 0, rewrite |-> 0] => Lost = {}

(* An interrupted append costs at most one later envelope, the one glued   *)
(* to the fragment; only an interrupted rewrite can cost more              *)
(* (relay.mjs:101, 109-120, 128).                                          *)
TearsAreContained == tears.rewrite = 0 => Cardinality(Lost) <= tears.append

(* The file never outgrows MAX_QUEUE_PER_DEVICE lines, whatever the lines  *)
(* are: expired ones still count (relay.mjs:94-98).                        *)
QueueBound == \A h \in Handle : LineCount(h) <= MaxQueue

(* A file nobody collects goes away: what survives a sweep holds at least  *)
(* one line that was alive then or came after (relay.mjs:132-149).         *)
AbandonedMailGoes ==
  \A h \in Handle : file[h] # {} => \E l \in file[h] : swept - l.at < TTL

(* The relay holds envelopes for TTL only (relay.mjs:5): no line that had  *)
(* expired by the last sweep is still on disk.                             *)
SweepExpires ==
  \A h \in Handle : \A l \in file[h] : swept - l.at < TTL

(* Seen from outside, the files are a mailbox: deposits, collections,      *)
(* removals by the recipient and expiry, and nothing else.                 *)
AbstractMailbox ==
  INSTANCE Mailbox WITH waiting <- [h \in Handle |-> {[id |-> l.id, at |-> l.at] : l \in Drain(h)}],
                        spent <- nextId
MailboxSpec == AbstractMailbox!Spec
=============================================================================
