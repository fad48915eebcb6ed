-------------------------------- MODULE Relay --------------------------------
(***************************************************************************)
(* The relay process (server/relay.mjs) around its mail queue: requests    *)
(* and WebSocket upgrades that wait at an await while others run, the      *)
(* member list reloaded from a file that changes under it, the map of      *)
(* connected members and the nudges sent to them, and on the other side    *)
(* the inbox rounds those nudges start (client/net/transport.js).          *)
(*                                                                         *)
(* The queue itself is RelayMail, whose variables this module shares and   *)
(* whose actions it takes a step of when a request reaches the queue.      *)
(* Signatures are not modelled: a request for a handle comes from the      *)
(* owner of its key, so that verifyAuth comes down to its membership test  *)
(* and the await that follows it.                                          *)
(***************************************************************************)
EXTENDS Integers, FiniteSets

CONSTANTS
  Handle, MaxQueue, Null,
  Faults,       \* what may go wrong: "fetch", a request of drainInbox fails;
                \* "load", the directory file is half written when it is read;
                \* "early", a connection dies while its signature is checked
  MaxId,        \* bound: envelopes queued
  MaxCalls,     \* bound: POST /v1/send requests
  MaxConns,     \* bound: WebSocket upgrades
  MaxEdits,     \* bound: changes of the directory file
  MaxEvents,    \* bound: requests and changes together
  MaxRestarts   \* bound: restarts of the relay

ASSUME RelayBounds ==
  /\ MaxCalls \in Nat /\ MaxConns \in Nat /\ MaxEdits \in Nat /\ MaxEvents \in Nat
  /\ MaxRestarts \in Nat
  /\ Faults \subseteq {"fetch", "load", "early"} /\ Null \notin Nat \cup Handle

VARIABLES
  \* The queue: see RelayMail.
  now, file, torn, nextId, batches, swept, accepted, given, removed, tears,
  \* The member list.
  dirFile,    \* the handles that the directory file has, less the revoked ones
  version,    \* how often the file has changed
  watched,    \* the version fs.watchFile knows, Null before it is called
  loads,      \* loadDirectory calls in progress, with the list each has read
  members,    \* the member list in use
  up,         \* is the server listening?
  \* Requests and connections.
  calls,      \* POST /v1/send requests in progress
  nextCall,
  socks,      \* socks[c]: the handle of connection c and where it stands
  online,     \* online[h]: the connection registered for h, Null if none
  restarts,
  \* The members' apps.
  wakeups,    \* wakeups[c]: an open and the mail nudges on their way over c
  drains,     \* drains[h]: drainInbox calls whose GET is on its way
  \* History, read by the properties only.
  strangers,  \* handles a signal of whom was sent on when they were not members
  raced,      \* did the last load to end leave a list that is not the newest one
              \* read, or did the file change during the first load?
  failures    \* members a request of whose drainInbox failed since they connected

mailVars == <<now, file, torn, nextId, batches, swept, accepted, given, removed, tears>>
directoryVars == <<dirFile, version, watched, loads, members, up, raced>>
connectionVars == <<socks, online, wakeups, strangers, failures>>
vars == <<mailVars, directoryVars, calls, nextCall, connectionVars, restarts, drains>>

Mail == INSTANCE RelayMail WITH
          TTL <- 1, TornWrites <- FALSE, MaxNow <- 0, MaxBatches <- 2, MaxTorn <- 0

Conn == 1 .. MaxConns
Unused == [handle |-> Null, state |-> "unused"]

TypeOK ==
  /\ Mail!TypeOK
  /\ dirFile \subseteq Handle /\ members \subseteq Handle
  /\ version \in 0 .. MaxEdits /\ watched \in 0 .. MaxEdits \cup {Null}
  /\ loads \subseteq [nr : Nat, list : SUBSET Handle]
  /\ up \in BOOLEAN /\ (up <=> watched # Null)
  /\ calls \subseteq [nr : Nat, to : Handle, stage : {"auth", "body"}]
  /\ nextCall \in Nat
  /\ socks \in [Conn -> [handle : Handle, state : {"auth", "gone", "open", "dead", "closed"}] \cup {Unused}]
  /\ online \in [Handle -> Conn \cup {Null}]
  /\ wakeups \in [Conn -> Nat] /\ drains \in [Handle -> Nat]
  /\ failures \subseteq Handle /\ strangers \subseteq Handle /\ raced \in BOOLEAN

Init ==
  /\ Mail!Init
  /\ dirFile = Handle /\ version = 0 /\ watched = Null
  /\ loads = {[nr |-> 0, list |-> Handle]}
  /\ members = {} /\ up = FALSE
  /\ calls = {} /\ nextCall = 1
  /\ socks = [c \in Conn |-> Unused]
  /\ online = [h \in Handle |-> Null]
  /\ wakeups = [c \in Conn |-> 0] /\ drains = [h \in Handle |-> 0]
  /\ restarts = 0 /\ strangers = {} /\ failures = {} /\ raced = FALSE

-----------------------------------------------------------------------------
\* The operator publishes another directory.
EditDirectory ==
  /\ version < MaxEdits /\ version + nextCall <= MaxEvents
  /\ version' = version + 1
  /\ \E list \in SUBSET Handle : list # dirFile /\ dirFile' = list
  /\ raced' = (raced \/ watched = Null)
  /\ UNCHANGED <<mailVars, watched, loads, members, up, calls, nextCall,
                 connectionVars, restarts, drains>>

\* fs.watchFile notices a change: loadDirectory reads the file at once, and
\* then awaits the verification of every entry.
WatchFires ==
  /\ watched # Null /\ watched # version
  /\ watched' = version
  /\ loads' = loads \cup {[nr |-> version, list |-> dirFile]}
  /\ UNCHANGED <<mailVars, dirFile, version, members, up, raced, calls, nextCall,
                 connectionVars, restarts, drains>>

\* The definitions named Bug... are not the code: each is a mistake that could
\* have been made at the definition that follows it, and breaks a property.
BugLoaded(l) ==
  /\ l \in loads
  /\ loads' = loads \ {l}
  /\ members' = members \cup l.list
  /\ watched' = IF watched = Null THEN version ELSE watched
  /\ up' = TRUE
  /\ raced' = IF watched = Null THEN raced ELSE l.nr # watched
  /\ UNCHANGED <<mailVars, dirFile, version, calls, nextCall, connectionVars,
                 restarts, drains>>

\* loadDirectory returns.  After the first time the file is watched, from
\* whatever state it is in by then, and the server listens.
Loaded(l) ==
  /\ l \in loads
  /\ loads' = loads \ {l}
  /\ members' = l.list
  /\ watched' = IF watched = Null THEN version ELSE watched
  /\ up' = TRUE
  /\ raced' = IF watched = Null THEN raced ELSE l.nr # watched
  /\ UNCHANGED <<mailVars, dirFile, version, calls, nextCall, connectionVars,
                 restarts, drains>>

\* loadDirectory fails, and the list in use stays.
LoadFailed(l) ==
  /\ "load" \in Faults /\ l \in loads
  /\ loads' = loads \ {l}
  /\ watched' = IF watched = Null THEN version ELSE watched
  /\ up' = TRUE
  /\ raced' = (raced \/ watched = Null \/ l.nr = watched)
  /\ UNCHANGED <<mailVars, dirFile, version, members, calls, nextCall, connectionVars,
                 restarts, drains>>

-----------------------------------------------------------------------------
\* POST /v1/send: verifyAuth looks the sender up and awaits the signature.
SendArrives(from, to) ==
  /\ up /\ from \in members /\ from # to
  /\ nextCall <= MaxCalls /\ version + nextCall <= MaxEvents
  /\ calls' = calls \cup {[nr |-> nextCall, to |-> to, stage |-> "auth"]}
  /\ nextCall' = nextCall + 1
  /\ UNCHANGED <<mailVars, directoryVars, connectionVars, restarts, drains>>

\* The recipient is looked up, and the body awaited.  An unknown one is a 404.
SendVerified(k) ==
  /\ k \in calls /\ k.stage = "auth"
  /\ calls' = (calls \ {k}) \cup
                (IF k.to \in members THEN {[k EXCEPT !.stage = "body"]} ELSE {})
  /\ UNCHANGED <<mailVars, directoryVars, nextCall, connectionVars, restarts, drains>>

BugNudged(h) == {c \in Conn : online[h] = c /\ Mail!Drain(h) = {}}

\* Who hears that there is mail: the connection registered for h.
Nudged(h) == {c \in Conn : online[h] = c /\ socks[c].state = "open"}

\* The body is there: enqueue, and a nudge for the recipient.
SendQueued(k) ==
  /\ k \in calls /\ k.stage = "body"
  /\ Mail!Enqueue(k.to)
  /\ wakeups' = [c \in Conn |-> wakeups[c] + (IF c \in Nudged(k.to) THEN 1 ELSE 0)]
  /\ calls' = calls \ {k}
  /\ UNCHANGED <<directoryVars, nextCall, socks, online, strangers, failures, restarts, drains>>

\* The body is larger than MAX_ENVELOPE (413), whatever the queue; or the queue
\* is full (507).  Nobody is nudged.
SendRefused(k) ==
  /\ k \in calls /\ k.stage = "body"
  /\ \E oversized \in BOOLEAN : oversized \/ Mail!LineCount(k.to) >= MaxQueue
  /\ calls' = calls \ {k}
  /\ UNCHANGED <<mailVars, directoryVars, nextCall, connectionVars, restarts, drains>>

-----------------------------------------------------------------------------
\* An upgrade arrives: verifyAuth looks the handle up and awaits the signature.
UpgradeArrives(c, h) ==
  /\ up /\ h \in members
  /\ socks[c] = Unused /\ \A d \in 1 .. c - 1 : socks[d] # Unused
  /\ socks' = [socks EXCEPT ![c] = [handle |-> h, state |-> "auth"]]
  /\ UNCHANGED <<mailVars, directoryVars, calls, nextCall, online, wakeups,
                 strangers, failures, restarts, drains>>

\* The close handler: a connection removes itself from the map, and no other.
Unregistered(c) ==
  [h \in Handle |-> IF online[h] = c THEN Null ELSE online[h]]

BugClosedBy(h) == {}

\* The connection a newcomer for h pushes out.
ClosedBy(h) == IF online[h] # Null THEN {online[h]} ELSE {}

\* A connection dies while its signature is checked: nobody listens for that.
DroppedEarly(c) ==
  /\ "early" \in Faults /\ socks[c].state = "auth"
  /\ socks' = [socks EXCEPT ![c].state = "gone"]
  /\ UNCHANGED <<mailVars, directoryVars, calls, nextCall, online, wakeups, strangers, failures,
                 restarts, drains>>

\* The signature was good: the previous connection is closed, the new one is
\* registered and told about waiting mail.  The app's onopen counts as a wakeup.
UpgradeVerified(c) ==
  /\ socks[c].state \in {"auth", "gone"}
  /\ LET h == socks[c].handle
         alive == socks[c].state = "auth"
     IN /\ socks' = [d \in Conn |->
              IF d = c THEN [socks[c] EXCEPT !.state = IF alive THEN "open" ELSE "dead"]
              ELSE IF d \in ClosedBy(h) THEN [socks[d] EXCEPT !.state = "closed"]
              ELSE socks[d]]
        /\ online' = [online EXCEPT ![h] = c]
        /\ wakeups' = [wakeups EXCEPT ![c] = IF ~alive THEN 0
                                            ELSE IF Mail!Drain(h) # {} THEN 2 ELSE 1]
        /\ failures' = failures \ {h}
  /\ UNCHANGED <<mailVars, directoryVars, calls, nextCall, strangers, restarts, drains>>

\* A connection is lost, or closed by the app: the close handler runs, and what
\* was on its way is gone.
Dropped(c) ==
  /\ socks[c].state = "open"
  /\ socks' = [socks EXCEPT ![c].state = "closed"]
  /\ online' = Unregistered(c)
  /\ wakeups' = [wakeups EXCEPT ![c] = 0]
  /\ UNCHANGED <<mailVars, directoryVars, calls, nextCall, strangers, failures, restarts, drains>>

\* A signal: dropped when the recipient is not a member, answered "offline" when
\* it has no connection, strangers otherwise.
Signal(c, to) ==
  /\ socks[c].state = "open" /\ to # socks[c].handle
  /\ to \in members /\ online[to] # Null
  /\ strangers' = strangers \cup ({socks[c].handle} \ members)
  /\ UNCHANGED <<mailVars, directoryVars, calls, nextCall, socks, online, wakeups,
                 failures, restarts, drains>>

BugRestart ==
  /\ restarts < MaxRestarts /\ up
  /\ restarts' = restarts + 1
  /\ members' = {} /\ watched' = Null
  /\ loads' = {[nr |-> version, list |-> dirFile]} /\ raced' = FALSE
  /\ calls' = {}
  /\ socks' = [c \in Conn |-> IF socks[c] = Unused THEN Unused
                              ELSE [socks[c] EXCEPT !.state = "closed"]]
  /\ online' = [h \in Handle |-> Null]
  /\ wakeups' = [c \in Conn |-> 0]
  /\ UNCHANGED <<mailVars, dirFile, version, up, nextCall, strangers, failures, drains>>

\* The relay is restarted: what is not in a file is gone.
Restart ==
  /\ restarts < MaxRestarts /\ up
  /\ restarts' = restarts + 1
  /\ members' = {} /\ up' = FALSE /\ watched' = Null
  /\ loads' = {[nr |-> version, list |-> dirFile]} /\ raced' = FALSE
  /\ calls' = {}
  /\ socks' = [c \in Conn |-> IF socks[c] = Unused THEN Unused
                              ELSE [socks[c] EXCEPT !.state = "closed"]]
  /\ online' = [h \in Handle |-> Null]
  /\ wakeups' = [c \in Conn |-> 0]
  /\ UNCHANGED <<mailVars, dirFile, version, nextCall, strangers, failures, drains>>

-----------------------------------------------------------------------------
\* The app: onopen or a "mail" frame starts a drainInbox.
WakesUp(c) ==
  /\ wakeups[c] > 0
  /\ wakeups' = [wakeups EXCEPT ![c] = @ - 1]
  /\ drains' = [drains EXCEPT ![socks[c].handle] = @ + 1]
  /\ UNCHANGED <<mailVars, directoryVars, calls, nextCall, socks, online, strangers, failures, restarts>>

\* GET /v1/inbox is answered: an empty answer ends the call.  The signature is
\* awaited before the queue is read; arrival and reading are one step here.
InboxAnswered(h) ==
  /\ drains[h] > 0 /\ up /\ h \in members
  /\ \/ Mail!Inbox(h)
     \/ Mail!Drain(h) = {} /\ UNCHANGED mailVars
  /\ drains' = [drains EXCEPT ![h] = @ - 1]
  /\ UNCHANGED <<directoryVars, calls, nextCall, connectionVars, restarts>>

\* GET /v1/inbox fails: the call returns, and nothing tries again until the next
\* nudge, connection or return to the app.  It does not take a fault of the
\* network: the relay may be down, or know the member no more.
InboxFails(h) ==
  /\ drains[h] > 0
  /\ "fetch" \in Faults \/ ~up \/ h \notin members
  /\ drains' = [drains EXCEPT ![h] = @ - 1]
  /\ failures' = failures \cup {h}
  /\ UNCHANGED <<mailVars, directoryVars, calls, nextCall, socks, online, wakeups,
                 strangers, restarts>>

\* POST /v1/ack.
AckAnswered(h, ids) ==
  /\ up /\ h \in members
  /\ Mail!Ack(h, ids)
  /\ UNCHANGED <<directoryVars, calls, nextCall, connectionVars, restarts, drains>>

AckFails(h, ids) ==
  /\ "fetch" \in Faults \/ ~up \/ h \notin members
  /\ Mail!AckLost(h, ids)
  /\ failures' = failures \cup {h}
  /\ UNCHANGED <<directoryVars, calls, nextCall, socks, online, wakeups,
                 strangers, restarts, drains>>

Next ==
  \/ EditDirectory \/ WatchFires \/ Restart
  \/ \E l \in loads : Loaded(l) \/ LoadFailed(l)
  \/ \E from, to \in Handle : SendArrives(from, to)
  \/ \E k \in calls : SendVerified(k) \/ SendQueued(k) \/ SendRefused(k)
  \/ \E c \in Conn : \/ DroppedEarly(c) \/ UpgradeVerified(c) \/ Dropped(c) \/ WakesUp(c)
                     \/ \E h \in Handle : UpgradeArrives(c, h) \/ Signal(c, h)
  \/ \E h \in Handle : InboxAnswered(h) \/ InboxFails(h)
  \/ \E h \in Handle : \E ids \in batches[h] : AckAnswered(h, ids) \/ AckFails(h, ids)

Spec == Init /\ [][Next]_vars

\* What the event loops and the network do sooner or later.
Fairness ==
  /\ \A c \in Conn : WF_vars(WakesUp(c))
  /\ \A h \in Handle : WF_vars(InboxAnswered(h))
  /\ \A h \in Handle : WF_vars(\E ids \in batches[h] : AckAnswered(h, ids))

FairSpec == Spec /\ Fairness

-----------------------------------------------------------------------------
(* The map of connected members is exact: every open connection is the     *)
(* one registered for its handle, so that none has two and who is there is *)
(* reached; and what is registered is open, unless it died while its       *)
(* signature was checked, when nobody heard it close (relay.mjs:264-282,   *)
(* 310-313; ws.mjs:89-91).                                                 *)
OnlineIsExact ==
  /\ \A c \in Conn : socks[c].state = "open" => online[socks[c].handle] = c
  /\ \A h \in Handle : online[h] # Null =>
       socks[online[h]] \in [handle : {h}, state : {"open", "dead"}]

\* Mail waits that h, though connected, neither reads nor is told of.
Unattended(h) ==
  /\ online[h] # Null /\ socks[online[h]].state = "open"
  /\ ~(Mail!Ids(Mail!Drain(h)) \subseteq UNION batches[h])
  /\ \A c \in Conn : socks[c].handle = h => wakeups[c] = 0
  /\ drains[h] = 0

(* Mail does not wait behind the back of a connected member: for whatever  *)
(* it has not read yet, a wakeup or a reading of the inbox is on its way,  *)
(* unless one of its own requests failed (relay.mjs:238-243, 279-285).     *)
NoLostWakeup == \A h \in Handle \ failures : ~Unattended(h)

(* The relay holds a message only while the recipient is offline           *)
(* (README.md:20), so no connected member has unattended mail.             *)
HeldOnlyWhenOffline == \A h \in members : ~Unattended(h)

(* Sooner or later a connected member has collected its mail, unless it    *)
(* loses its connection first (README.md:20).                              *)
MailReachesOnline ==
  \A h \in Handle :
    Mail!Drain(h) # {} /\ online[h] # Null ~> Mail!Drain(h) = {} \/ online[h] = Null

(* Signals are forwarded between members (relay.mjs:4).                    *)
BetweenMembers == strangers = {}

(* A published directory is picked up: with every change noticed and no    *)
(* load in progress, the member list in use is that of the file, and the   *)
(* revoked are out, however changes, loads, failed loads and restarts      *)
(* overlap - unless the file changed during the first load, or the load    *)
(* that ended last was not the one begun last, or the one begun last       *)
(* failed (relay.mjs:28-50, 316-317).                                      *)
DirectoryPickedUp ==
  up /\ loads = {} /\ watched = version /\ ~raced => members = dirFile

(* "Commit directory/ and the relay will pick it up within 5s."            *)
(* (root-key.mjs:148): with no change left to notice and no load in        *)
(* progress, the published list is in use.                                 *)
PublishedIsInUse ==
  up /\ loads = {} /\ watched = version => members = dirFile
=============================================================================
