----------------------------- MODULE RelayProofs -----------------------------
(***************************************************************************)
(* What Relay promises, for any members, faults and bounds.                *)
(*                                                                         *)
(* OnlineIsExact is inductive given the types: whoever registers closes    *)
(* the connection it pushes out.  NoLostWakeup rests on it, since a nudge  *)
(* goes to the registered connection, and on drainInbox keeping the ids of *)
(* all it was answered; Told says the same line by line.  For              *)
(* DirectoryPickedUp one has to know what the loads in progress have read  *)
(* and, with other loads still to end, which list is in use                *)
(* (ListsAreFresh).                                                        *)
(***************************************************************************)
EXTENDS Relay, TLAPS

\* TypeOK in parts: each has variables that few actions touch.
ListTypes ==
  /\ dirFile \subseteq Handle /\ members \subseteq Handle
  /\ version \in 0 .. MaxEdits /\ watched \in 0 .. MaxEdits \cup {Null}
  /\ loads \subseteq [nr : Nat, list : SUBSET Handle]
  /\ up \in BOOLEAN /\ (up <=> watched # Null) /\ raced \in BOOLEAN

CallTypes ==
  /\ calls \subseteq [nr : Nat, to : Handle, stage : {"auth", "body"}]
  /\ nextCall \in Nat

ConnTypes ==
  /\ socks \in [Conn -> [handle : Handle, state : {"auth", "gone", "open", "dead", "closed"}]
                          \cup {Unused}]
  /\ online \in [Handle -> Conn \cup {Null}]
  /\ wakeups \in [Conn -> Nat] /\ drains \in [Handle -> Nat]
  /\ failures \subseteq Handle /\ strangers \subseteq Handle

\* A load begun at the newest change has read the newest file, and so has the
\* first load as long as nothing changed under it.  The watcher is never ahead of
\* the file.  Once the newest load is over, its list is in use until another
\* load ends.
ListsAreFresh ==
  /\ \A l \in loads : l.nr <= version /\ (l.nr = version => l.list = dirFile)
  /\ watched = Null => loads # {}
  /\ watched = Null /\ ~raced => \A l \in loads : l.list = dirFile
  /\ watched # Null => watched <= version
  /\ ~raced /\ watched # Null /\ watched = version /\ (\A l \in loads : l.nr # version)
       => members = dirFile

\* h has a line to collect that is in no answer it got.
Unread(h) == \E l \in Mail!Drain(h) : \A ids \in batches[h] : l.id \notin ids

\* A wakeup, or a reading of the inbox, is on its way.
Coming(h) == (\E c \in Conn : socks[c].handle = h /\ wakeups[c] > 0) \/ drains[h] > 0

Told ==
  \A h \in Handle \ failures :
    online[h] # Null /\ socks[online[h]].state = "open" /\ Unread(h) => Coming(h)

IInv ==
  /\ Mail!TypeOK /\ ListTypes /\ CallTypes /\ ConnTypes
  /\ OnlineIsExact /\ Told /\ ListsAreFresh

-----------------------------------------------------------------------------
LEMMA Starts == Init => IInv
<1> SUFFICES ASSUME Init PROVE IInv
  OBVIOUS
<1> USE RelayBounds DEF Init, Mail!Init, Unused, Conn
<1>1. Mail!TypeOK
  BY DEF Mail!TypeOK
<1>2. ListTypes /\ CallTypes
  <2>1. [nr |-> 0, list |-> Handle] \in [nr : Nat, list : SUBSET Handle] /\ version \in 0 .. MaxEdits
    OBVIOUS
  <2>2. ~up /\ ~raced /\ watched = Null
    BY Zenon
  <2> QED
    BY <2>1, <2>2 DEF ListTypes, CallTypes
<1>3. ConnTypes
  BY DEF ConnTypes
<1>4. OnlineIsExact /\ Told
  BY DEF OnlineIsExact, Told
<1>5. ListsAreFresh
  BY DEF ListsAreFresh
<1> QED
  BY <1>1, <1>2, <1>3, <1>4, <1>5 DEF IInv

\* Which actions touch which variables.
LEMMA ListSteps ==
  ASSUME [Next]_vars
  PROVE  \/ EditDirectory \/ WatchFires \/ Restart
         \/ \E l \in loads : Loaded(l) \/ LoadFailed(l)
         \/ UNCHANGED directoryVars
BY DEF Next, vars, SendArrives, SendVerified, SendQueued, SendRefused, DroppedEarly, UpgradeVerified,
       Dropped, WakesUp, UpgradeArrives, Signal, InboxAnswered, InboxFails, AckAnswered, AckFails

LEMMA CallSteps ==
  ASSUME [Next]_vars
  PROVE  \/ \E from, to \in Handle : SendArrives(from, to)
         \/ \E k \in calls : SendVerified(k) \/ SendQueued(k) \/ SendRefused(k)
         \/ Restart
         \/ UNCHANGED <<calls, nextCall>>
BY DEF Next, vars, EditDirectory, WatchFires, Loaded, LoadFailed, DroppedEarly, UpgradeVerified,
       Dropped, WakesUp, UpgradeArrives, Signal, InboxAnswered, InboxFails, AckAnswered, AckFails

LEMMA OtherSteps ==
  ASSUME [Next]_vars
  PROVE  \/ \E k \in calls : SendQueued(k)
         \/ \E c \in Conn : \/ DroppedEarly(c) \/ UpgradeVerified(c) \/ Dropped(c) \/ WakesUp(c)
                            \/ \E h \in Handle : UpgradeArrives(c, h) \/ Signal(c, h)
         \/ \E h \in Handle : InboxAnswered(h) \/ InboxFails(h)
         \/ \E h \in Handle : \E ids \in batches[h] : AckAnswered(h, ids) \/ AckFails(h, ids)
         \/ Restart
         \/ UNCHANGED <<mailVars, connectionVars, drains>>
BY DEF Next, vars, EditDirectory, WatchFires, Loaded, LoadFailed, SendArrives, SendVerified,
       SendRefused

LEMMA MailSteps ==
  ASSUME CallTypes, [Next]_vars
  PROVE  \/ \E h \in Handle : Mail!Enqueue(h) \/ Mail!Inbox(h)
         \/ \E h \in Handle : \E ids \in batches[h] : Mail!Ack(h, ids) \/ Mail!AckLost(h, ids)
         \/ UNCHANGED mailVars
<1>1. ASSUME NEW k \in calls, SendQueued(k) PROVE k.to \in Handle /\ Mail!Enqueue(k.to)
  BY <1>1 DEF SendQueued, CallTypes
<1>2. ASSUME NEW h \in Handle, InboxAnswered(h) PROVE Mail!Inbox(h) \/ UNCHANGED mailVars
  BY <1>2 DEF InboxAnswered
<1> QED
  BY OtherSteps, <1>1, <1>2 DEF DroppedEarly, UpgradeVerified, Dropped, WakesUp, UpgradeArrives,
     Signal, InboxFails, AckAnswered, AckFails, Restart

-----------------------------------------------------------------------------
\* Every step leaves values in their sets.
LEMMA MailTyped == ASSUME CallTypes, Mail!TypeOK, [Next]_vars PROVE Mail!TypeOK'
<1> USE DEF Mail!TypeOK
<1>1. ASSUME NEW h \in Handle, Mail!Enqueue(h) PROVE Mail!TypeOK'
  <2> Mail!Appended(h) \in Mail!Line
    BY DEF Mail!Appended, Mail!Line
  <2> QED
    BY <1>1 DEF Mail!Enqueue
<1>2. ASSUME NEW h \in Handle, Mail!Inbox(h) PROVE Mail!TypeOK'
  <2> Mail!Ids(Mail!Drain(h)) \in SUBSET Nat
    BY DEF Mail!Ids, Mail!Drain, Mail!Line
  <2> QED
    BY <1>2 DEF Mail!Inbox
<1>3. ASSUME NEW h \in Handle, NEW ids \in batches[h], Mail!Ack(h, ids) PROVE Mail!TypeOK'
  <2> Mail!Kept(h, ids) \in SUBSET Mail!Line /\ ids \in SUBSET Nat
    BY DEF Mail!Kept, Mail!Drain
  <2> QED
    BY <1>3 DEF Mail!Ack
<1>4. ASSUME NEW h \in Handle, NEW ids \in batches[h], Mail!AckLost(h, ids) PROVE Mail!TypeOK'
  BY <1>4 DEF Mail!AckLost
<1>5. ASSUME UNCHANGED mailVars PROVE Mail!TypeOK'
  BY <1>5 DEF mailVars
<1> QED
  BY <1>1, <1>2, <1>3, <1>4, <1>5, MailSteps

LEMMA ListTyped == ASSUME ListTypes, [Next]_vars PROVE ListTypes'
<1> USE RelayBounds DEF ListTypes
<1>1. ASSUME EditDirectory PROVE ListTypes'
  BY <1>1 DEF EditDirectory
<1>2. ASSUME WatchFires PROVE ListTypes'
  BY <1>2 DEF WatchFires
<1>3. ASSUME Restart PROVE ListTypes'
  <2>1. [nr |-> version, list |-> dirFile] \in [nr : Nat, list : SUBSET Handle]
    OBVIOUS
  <2>2. ~up' /\ ~raced' /\ watched' = Null
    BY <1>3, Zenon DEF Restart
  <2> QED
    BY <1>3, <2>1, <2>2 DEF Restart
<1>4. ASSUME NEW l \in loads, Loaded(l) PROVE ListTypes'
  <2>1. raced' \in BOOLEAN /\ up'
    BY <1>4 DEF Loaded
  <2>2. watched' \in 0 .. MaxEdits
    BY <1>4 DEF Loaded
  <2>3. /\ members' \subseteq Handle /\ loads' \subseteq [nr : Nat, list : SUBSET Handle]
        /\ UNCHANGED <<dirFile, version>>
    BY <1>4 DEF Loaded
  <2>4. (up' <=> watched' # Null)
    BY <2>1, <2>2
  <2>5. up' \in BOOLEAN
    BY <1>4, Zenon DEF Loaded
  <2> QED
    BY <2>1, <2>2, <2>3, <2>4, <2>5
<1>5. ASSUME NEW l \in loads, LoadFailed(l) PROVE ListTypes'
  BY <1>5 DEF LoadFailed
<1>6. ASSUME UNCHANGED directoryVars PROVE ListTypes'
  BY <1>6 DEF directoryVars
<1> QED
  BY <1>1, <1>2, <1>3, <1>4, <1>5, <1>6, ListSteps

LEMMA CallTyped == ASSUME CallTypes, [Next]_vars PROVE CallTypes'
<1> USE DEF CallTypes
<1>1. ASSUME NEW from \in Handle, NEW to \in Handle, SendArrives(from, to) PROVE CallTypes'
  BY <1>1 DEF SendArrives
<1>2. ASSUME NEW k \in calls, SendVerified(k) PROVE CallTypes'
  <2> [k EXCEPT !.stage = "body"] \in [nr : Nat, to : Handle, stage : {"auth", "body"}]
    OBVIOUS
  <2> QED
    BY <1>2 DEF SendVerified
<1>3. ASSUME NEW k \in calls, SendQueued(k) \/ SendRefused(k) PROVE CallTypes'
  BY <1>3 DEF SendQueued, SendRefused
<1>4. ASSUME Restart PROVE CallTypes'
  BY <1>4 DEF Restart
<1>5. ASSUME UNCHANGED <<calls, nextCall>> PROVE CallTypes'
  BY <1>5
<1> QED
  BY <1>1, <1>2, <1>3, <1>4, <1>5, CallSteps

LEMMA ConnTyped == ASSUME ConnTypes, OnlineIsExact, [Next]_vars PROVE ConnTypes'
<1> USE DEF ConnTypes, connectionVars
<1>1. ASSUME NEW k \in calls, SendQueued(k) PROVE ConnTypes'
  BY <1>1 DEF SendQueued
<1>2. ASSUME NEW c \in Conn, DroppedEarly(c) PROVE ConnTypes'
  <2> socks[c] \in [handle : Handle, state : {"auth", "gone", "open", "dead", "closed"}]
    BY <1>2 DEF DroppedEarly, Unused
  <2> QED
    BY <1>2 DEF DroppedEarly
<1>3. ASSUME NEW c \in Conn, UpgradeVerified(c) PROVE ConnTypes'
  <2>1. socks[c] \in [handle : Handle, state : {"auth", "gone", "open", "dead", "closed"}]
    BY <1>3 DEF UpgradeVerified, Unused
  <2>2. ASSUME NEW d \in ClosedBy(socks[c].handle)
        PROVE  d \in Conn /\ socks[d] \in [handle : Handle, state : {"open", "dead"}]
    BY <2>1, <2>2 DEF ClosedBy, OnlineIsExact
  <2>3. ASSUME NEW d \in Conn
        PROVE  socks'[d] \in [handle : Handle, state : {"auth", "gone", "open", "dead", "closed"}]
                                \cup {Unused}
    BY <1>3, <2>1, <2>2 DEF UpgradeVerified
  <2>4. socks' = [d \in Conn |-> socks'[d]]
    BY <1>3 DEF UpgradeVerified
  <2>5. /\ online' \in [Handle -> Conn \cup {Null}] /\ wakeups' \in [Conn -> Nat]
        /\ drains' = drains /\ failures' \subseteq Handle /\ strangers' = strangers
    BY <1>3, <2>1 DEF UpgradeVerified
  <2> QED
    BY <2>3, <2>4, <2>5
<1>4. ASSUME NEW c \in Conn, Dropped(c) PROVE ConnTypes'
  <2> socks[c] \in [handle : Handle, state : {"auth", "gone", "open", "dead", "closed"}]
    BY <1>4 DEF Dropped, Unused
  <2> QED
    BY <1>4 DEF Dropped, Unregistered
<1>5. ASSUME NEW c \in Conn, WakesUp(c) PROVE ConnTypes'
  <2>1. wakeups[c] - 1 \in Nat
    BY <1>5 DEF WakesUp
  <2>2. drains' \in [Handle -> Nat]
    <3>1. drains' = [h \in Handle |-> IF h = socks[c].handle THEN drains[h] + 1 ELSE drains[h]]
      BY <1>5, Zenon DEF WakesUp
    <3> QED
      BY <3>1
  <2> QED
    BY <1>5, <2>1, <2>2 DEF WakesUp
<1>6. ASSUME NEW c \in Conn, NEW h \in Handle, UpgradeArrives(c, h) PROVE ConnTypes'
  BY <1>6 DEF UpgradeArrives
<1>7. ASSUME NEW c \in Conn, NEW h \in Handle, Signal(c, h) PROVE ConnTypes'
  <2> socks[c].handle \in Handle
    BY <1>7 DEF Signal, Unused
  <2> QED
    BY <1>7 DEF Signal
<1>8. ASSUME NEW h \in Handle, InboxAnswered(h) PROVE ConnTypes'
  BY <1>8 DEF InboxAnswered
<1>9. ASSUME NEW h \in Handle, InboxFails(h) PROVE ConnTypes'
  BY <1>9 DEF InboxFails
<1>10. ASSUME NEW h \in Handle, NEW ids \in batches[h], AckAnswered(h, ids) \/ AckFails(h, ids)
       PROVE  ConnTypes'
  BY <1>10 DEF AckAnswered, AckFails
<1>11. ASSUME Restart PROVE ConnTypes'
  BY <1>11 DEF Restart, Unused
<1>12. ASSUME UNCHANGED <<connectionVars, drains>> PROVE ConnTypes'
  BY <1>12
<1> HIDE DEF ConnTypes
<1> QED
  BY <1>1, <1>2, <1>3, <1>4, <1>5, <1>6, <1>7, <1>8, <1>9, <1>10, <1>11, <1>12, OtherSteps

-----------------------------------------------------------------------------
\* Every step keeps the map exact.
LEMMA KeepsMap == ASSUME ConnTypes, OnlineIsExact, [Next]_vars PROVE OnlineIsExact'
<1> USE DEF OnlineIsExact, ConnTypes, connectionVars
<1>1. ASSUME NEW k \in calls, SendQueued(k) PROVE OnlineIsExact'
  BY <1>1 DEF SendQueued
<1>2. ASSUME NEW c \in Conn, DroppedEarly(c) PROVE OnlineIsExact'
  BY <1>2 DEF DroppedEarly, Unused
<1>3. ASSUME NEW c \in Conn, UpgradeVerified(c) PROVE OnlineIsExact'
  <2> DEFINE h == socks[c].handle
  <2>1. h \in Handle /\ Null \notin Conn
    BY <1>3, RelayBounds DEF UpgradeVerified, Unused, Conn
  <2>2. /\ online' = [online EXCEPT ![h] = c]
        /\ socks'[c] \in [handle : {h}, state : {"open", "dead"}]
        /\ \A d \in Conn \ {c} : socks'[d] = IF d = online[h] THEN [socks[d] EXCEPT !.state = "closed"]
                                                              ELSE socks[d]
    BY <1>3, <2>1 DEF UpgradeVerified, ClosedBy, Unused
  <2>3. ASSUME NEW d \in Conn, socks'[d].state = "open" PROVE online'[socks'[d].handle] = d
    <3>1. CASE d = c
      BY <2>1, <2>2, <3>1
    <3>2. CASE d # c
      <4>1. d # online[h] /\ socks'[d] = socks[d]
        <5>1. CASE d = online[h]
          <6> socks[d] \in [handle : {h}, state : {"open", "dead"}] /\ d # Null
            BY <2>1, <5>1
          <6> QED
            BY <2>2, <2>3, <3>2, <5>1
        <5> QED
          BY <2>2, <3>2, <5>1
      <4>2. socks[d].handle # h /\ socks[d].handle \in Handle /\ online[socks[d].handle] = d
        BY <2>1, <2>3, <3>2, <4>1 DEF Unused
      <4> QED
        BY <2>1, <2>2, <4>1, <4>2
    <3> QED
      BY <3>1, <3>2
  <2>4. ASSUME NEW g \in Handle, online'[g] # Null
        PROVE  socks'[online'[g]] \in [handle : {g}, state : {"open", "dead"}]
    <3>1. CASE g = h
      BY <2>1, <2>2, <3>1
    <3>2. CASE g # h
      <4>1. online'[g] = online[g] /\ online[g] \in Conn
            /\ socks[online[g]] \in [handle : {g}, state : {"open", "dead"}]
        BY <2>1, <2>2, <2>4, <3>2
      <4>2. online[g] # c /\ online[g] # online[h]
        BY <2>1, <3>2, <4>1
      <4> QED
        BY <2>2, <4>1, <4>2
    <3> QED
      BY <3>1, <3>2
  <2> QED
    BY <2>3, <2>4
<1>4. ASSUME NEW c \in Conn, Dropped(c) PROVE OnlineIsExact'
  BY <1>4 DEF Dropped, Unregistered, Unused
<1>5. ASSUME NEW c \in Conn, WakesUp(c) PROVE OnlineIsExact'
  BY <1>5 DEF WakesUp
<1>6. ASSUME NEW c \in Conn, NEW h \in Handle, UpgradeArrives(c, h) PROVE OnlineIsExact'
  BY <1>6 DEF UpgradeArrives, Unused
<1>7. ASSUME NEW c \in Conn, NEW h \in Handle, Signal(c, h) PROVE OnlineIsExact'
  BY <1>7 DEF Signal
<1>8. ASSUME NEW h \in Handle, InboxAnswered(h) \/ InboxFails(h) PROVE OnlineIsExact'
  BY <1>8 DEF InboxAnswered, InboxFails
<1>9. ASSUME NEW h \in Handle, NEW ids \in batches[h], AckAnswered(h, ids) \/ AckFails(h, ids)
      PROVE  OnlineIsExact'
  BY <1>9 DEF AckAnswered, AckFails
<1>10. ASSUME Restart PROVE OnlineIsExact'
  BY <1>10 DEF Restart, Unused
<1>11. ASSUME UNCHANGED connectionVars PROVE OnlineIsExact'
  BY <1>11
<1> HIDE DEF OnlineIsExact, ConnTypes
<1> QED
  BY <1>1, <1>2, <1>3, <1>4, <1>5, <1>6, <1>7, <1>8, <1>9, <1>10, <1>11, OtherSteps

\* Every step keeps what is known of the lists.
LEMMA KeepsLists == ASSUME ListTypes, ListsAreFresh, [Next]_vars PROVE ListsAreFresh'
<1> USE RelayBounds DEF ListTypes, ListsAreFresh
<1>1. ASSUME EditDirectory PROVE ListsAreFresh'
  <2>1. /\ version' = version + 1 /\ UNCHANGED <<watched, loads, members>>
        /\ raced' = (raced \/ watched = Null)
    BY <1>1 DEF EditDirectory
  <2>2. \A l \in loads' : l.nr <= version' /\ l.nr # version'
    BY <2>1
  <2>3. watched' = Null /\ ~raced' => FALSE
    BY <2>1
  <2>4. watched' # Null => watched' <= version' /\ watched' # version'
    BY <2>1
  <2>5. watched' = Null => loads' # {}
    BY <2>1
  <2> QED
    BY <2>2, <2>3, <2>4, <2>5
<1>2. ASSUME WatchFires PROVE ListsAreFresh'
  <2>1. /\ watched' = version /\ version \in Nat /\ UNCHANGED <<version, dirFile, raced>>
        /\ loads' = loads \cup {[nr |-> version, list |-> dirFile]}
        /\ watched' # Null
    BY <1>2 DEF WatchFires
  <2>2. \E l \in loads' : l.nr = version
    <3> DEFINE begun == [nr |-> version, list |-> dirFile]
    <3>1. begun \in loads' /\ begun.nr = version
      BY <2>1
    <3> QED
      BY <3>1, Zenon
  <2>3. \A l \in loads' : l.nr <= version' /\ (l.nr = version' => l.list = dirFile')
    BY <2>1
  <2> QED
    BY <2>1, <2>2, <2>3
<1>3. ASSUME Restart PROVE ListsAreFresh'
  BY <1>3 DEF Restart
<1>4. ASSUME NEW l \in loads, Loaded(l) PROVE ListsAreFresh'
  <2>1. /\ loads' = loads \ {l} /\ members' = l.list /\ UNCHANGED <<version, dirFile>>
        /\ watched' = IF watched = Null THEN version ELSE watched
        /\ raced' = IF watched = Null THEN raced ELSE l.nr # watched
    BY <1>4 DEF Loaded
  <2>2. ASSUME ~raced', watched' = version' PROVE members' = dirFile'
    BY <2>1, <2>2
  <2> QED
    BY <2>1, <2>2
<1>5. ASSUME NEW l \in loads, LoadFailed(l) PROVE ListsAreFresh'
  <2>1. /\ loads' = loads \ {l} /\ UNCHANGED <<version, dirFile, members>>
        /\ watched' = IF watched = Null THEN version ELSE watched
        /\ raced' = (raced \/ watched = Null \/ l.nr = watched)
    BY <1>5 DEF LoadFailed
  <2>2. ASSUME ~raced', watched' = version', \A k \in loads' : k.nr # version'
        PROVE  members' = dirFile'
    <3>1. ~raced /\ watched # Null /\ l.nr # watched /\ watched' = watched
      BY <2>1, <2>2
    <3>2. watched = version /\ \A k \in loads : k.nr # version
      BY <2>1, <2>2, <3>1
    <3> QED
      BY <2>1, <3>1, <3>2
  <2>3. watched' # Null /\ watched' <= version'
    BY <2>1
  <2>4. \A k \in loads' : k.nr <= version' /\ (k.nr = version' => k.list = dirFile')
    BY <2>1
  <2> QED
    BY <2>2, <2>3, <2>4
<1>6. ASSUME UNCHANGED directoryVars PROVE ListsAreFresh'
  BY <1>6 DEF directoryVars
<1> QED
  BY <1>1, <1>2, <1>3, <1>4, <1>5, <1>6, ListSteps
-----------------------------------------------------------------------------
\* What h has not read, and what is coming, where nothing of it changes.
LEMMA SameMail ==
  ASSUME NEW h \in Handle, now' = now, file'[h] = file[h], batches'[h] = batches[h], Unread(h)'
  PROVE  Unread(h)
BY DEF Unread, Mail!Drain

LEMMA SameConns ==
  ASSUME NEW h \in Handle, UNCHANGED <<socks, wakeups>>, drains'[h] = drains[h], Coming(h)
  PROVE  Coming(h)'
BY DEF Coming

\* Every step leaves a wakeup for unread mail.
LEMMA KeepsTold ==
  ASSUME Mail!TypeOK, CallTypes, ConnTypes, OnlineIsExact, Told, [Next]_vars
  PROVE  Told'
<1> SUFFICES ASSUME NEW g \in Handle, g \notin failures', online'[g] # Null,
                    socks'[online'[g]].state = "open", Unread(g)'
             PROVE  Coming(g)'
  BY DEF Told
<1> USE DEF ConnTypes, connectionVars
<1>0. ASSUME g \notin failures, online[g] # Null, socks[online[g]].state = "open", Unread(g)
      PROVE  Coming(g)
  BY <1>0 DEF Told
<1>1. ASSUME NEW k \in calls, SendQueued(k) PROVE Coming(g)'
  <2>1. k.to \in Handle /\ UNCHANGED <<socks, online, failures, drains, now, batches>>
    BY <1>1 DEF SendQueued, CallTypes, Mail!Enqueue
  <2>2. wakeups' = [c \in Conn |-> wakeups[c] + (IF c \in Nudged(k.to) THEN 1 ELSE 0)]
    BY <1>1 DEF SendQueued
  <2>3. CASE g = k.to
    <3>1. online[g] \in Nudged(k.to) /\ online[g] \in Conn /\ socks[online[g]].handle = g
      BY <2>1, <2>3 DEF Nudged, OnlineIsExact
    <3> QED
      BY <2>1, <2>2, <3>1 DEF Coming
  <2>4. CASE g # k.to
    <3>1. file'[g] = file[g]
      BY <1>1, <2>1, <2>4 DEF SendQueued, Mail!Enqueue, Mail!TypeOK
    <3>2. Coming(g)
      BY <1>0, <2>1, <3>1, SameMail
    <3> QED
      BY <2>1, <2>2, <3>2 DEF Coming
  <2> QED
    BY <2>3, <2>4
<1>2. ASSUME NEW c \in Conn, DroppedEarly(c) PROVE Coming(g)'
  <2>1. UNCHANGED <<online, failures, wakeups, drains, now, file, batches>>
    BY <1>2 DEF DroppedEarly, mailVars
  <2>2. \A d \in Conn : socks'[d].handle = socks[d].handle /\ (d # c => socks'[d] = socks[d])
    BY <1>2 DEF DroppedEarly, Unused
  <2>3. socks[online[g]].state = "open"
    BY <1>2, <2>1, <2>2 DEF DroppedEarly, Unused
  <2>4. Coming(g)
    BY <1>0, <2>1, <2>3, SameMail
  <2> QED
    BY <2>1, <2>2, <2>4 DEF Coming
<1>3. ASSUME NEW c \in Conn, UpgradeVerified(c) PROVE Coming(g)'
  <2> DEFINE h == socks[c].handle
  <2>1. /\ h \in Handle /\ online' = [online EXCEPT ![h] = c] /\ failures' = failures \ {h}
        /\ UNCHANGED <<drains, now, file, batches>>
    BY <1>3 DEF UpgradeVerified, Unused, mailVars
  <2>2. \A d \in Conn : socks'[d].handle = socks[d].handle
    BY <1>3 DEF UpgradeVerified, Unused
  <2>3. \A d \in Conn \ {c} : /\ wakeups'[d] = wakeups[d]
                              /\ socks'[d] = socks[d] \/ socks'[d] = [socks[d] EXCEPT !.state = "closed"]
    BY <1>3 DEF UpgradeVerified
  <2>4. CASE g = h
    <3>1. socks'[c].state = "open"
      BY <2>1, <2>4
    <3>2. wakeups'[c] \in {1, 2}
      <4>1. socks[c].state = "auth"
        BY <1>3, <3>1 DEF UpgradeVerified, Unused
      <4> QED
        BY <1>3, <4>1 DEF UpgradeVerified
    <3> QED
      BY <2>2, <2>4, <3>2 DEF Coming
  <2>5. CASE g # h
    <3>1. /\ g \notin failures /\ online[g] # Null /\ online[g] \in Conn \ {c}
          /\ online'[g] = online[g]
      BY <2>1, <2>5 DEF OnlineIsExact
    <3>2. socks[online[g]].state = "open"
      <4>1. socks[online[g]] \in [handle : {g}, state : {"open", "dead"}]
        BY <3>1 DEF OnlineIsExact
      <4> QED
        BY <2>3, <3>1, <4>1
    <3>3. Coming(g)
      BY <1>0, <2>1, <3>1, <3>2, SameMail
    <3> QED
      BY <2>1, <2>2, <2>3, <2>5, <3>3 DEF Coming
  <2> QED
    BY <2>4, <2>5
<1>4. ASSUME NEW c \in Conn, Dropped(c) PROVE Coming(g)'
  <2>1. /\ UNCHANGED <<failures, drains, now, file, batches>>
        /\ \A d \in Conn : socks'[d].handle = socks[d].handle
        /\ \A d \in Conn \ {c} : socks'[d] = socks[d] /\ wakeups'[d] = wakeups[d]
    BY <1>4 DEF Dropped, mailVars, Unused
  <2>2. online[g] # c /\ online'[g] = online[g]
    BY <1>4 DEF Dropped, Unregistered
  <2>3. socks[c].handle # g
    BY <1>4, <2>2 DEF Dropped, OnlineIsExact
  <2>4. Coming(g)
    BY <1>0, <2>1, <2>2, SameMail
  <2> QED
    BY <2>1, <2>3, <2>4 DEF Coming
<1>5. ASSUME NEW c \in Conn, WakesUp(c) PROVE Coming(g)'
  <2>1. /\ UNCHANGED <<socks, online, failures, now, file, batches>>
        /\ \A d \in Conn \ {c} : wakeups'[d] = wakeups[d]
    BY <1>5 DEF WakesUp, mailVars
  <2>2. drains' = [h \in Handle |-> IF h = socks[c].handle THEN drains[h] + 1 ELSE drains[h]]
    BY <1>5, Zenon DEF WakesUp
  <2>3. Coming(g)
    BY <1>0, <2>1, SameMail
  <2> QED
    BY <2>1, <2>2, <2>3 DEF Coming
<1>6. ASSUME NEW c \in Conn, NEW h \in Handle, UpgradeArrives(c, h) PROVE Coming(g)'
  <2>1. /\ UNCHANGED <<online, failures, wakeups, drains, now, file, batches>>
        /\ \A d \in Conn \ {c} : socks'[d] = socks[d]
        /\ socks[c].handle = Null /\ socks'[c].state = "auth"
    BY <1>6 DEF UpgradeArrives, mailVars, Unused
  <2>2. socks[online[g]].state = "open"
    BY <2>1
  <2>3. Coming(g)
    BY <1>0, <2>1, <2>2, SameMail
  <2> QED
    BY <2>1, <2>3, RelayBounds DEF Coming
<1>7. ASSUME NEW c \in Conn, NEW h \in Handle, Signal(c, h) PROVE Coming(g)'
  BY <1>0, <1>7, SameMail, SameConns DEF Signal, mailVars
<1>8. ASSUME NEW h \in Handle, InboxAnswered(h) PROVE Coming(g)'
  <2>1. /\ UNCHANGED <<socks, online, failures, wakeups, now, file>>
        /\ \A i \in Handle \ {h} : batches'[i] = batches[i] /\ drains'[i] = drains[i]
    BY <1>8 DEF InboxAnswered, Mail!Inbox, mailVars, Mail!TypeOK
  <2>2. \A l \in Mail!Drain(h) : Mail!Ids(Mail!Drain(h)) \in batches'[h]
    BY <1>8 DEF InboxAnswered, Mail!Inbox, Mail!TypeOK
  <2>3. \A l \in Mail!Drain(h) : l.id \in Mail!Ids(Mail!Drain(h))
    BY DEF Mail!Ids
  <2>4. g # h
    BY <2>1, <2>2, <2>3 DEF Unread, Mail!Drain
  <2> QED
    BY <1>0, <2>1, <2>4, SameMail, SameConns
<1>9. ASSUME NEW h \in Handle, InboxFails(h) PROVE Coming(g)'
  <2>1. /\ UNCHANGED <<socks, online, wakeups, now, file, batches>> /\ g \notin failures
        /\ g # h /\ drains'[g] = drains[g]
    BY <1>9 DEF InboxFails, mailVars
  <2> QED
    BY <1>0, <2>1, SameMail, SameConns
<1>10. ASSUME NEW h \in Handle, NEW ids \in batches[h], AckAnswered(h, ids) PROVE Coming(g)'
  <2>1. /\ UNCHANGED <<socks, online, failures, wakeups, drains, now>>
        /\ file' = [file EXCEPT ![h] = Mail!Kept(h, ids)]
        /\ batches' = [batches EXCEPT ![h] = @ \ {ids}]
    BY <1>10 DEF AckAnswered, Mail!Ack
  <2>2. Unread(g)
    <3>1. CASE g = h
      BY <2>1, <3>1 DEF Unread, Mail!Drain, Mail!Kept, Mail!TypeOK
    <3>2. CASE g # h
      BY <2>1, <3>2, SameMail DEF Mail!TypeOK
    <3> QED
      BY <3>1, <3>2
  <2> QED
    BY <1>0, <2>1, <2>2, SameConns
<1>11. ASSUME NEW h \in Handle, NEW ids \in batches[h], AckFails(h, ids) PROVE Coming(g)'
  <2>1. /\ UNCHANGED <<socks, online, wakeups, drains, now, file>> /\ g \notin failures
        /\ g # h /\ batches'[g] = batches[g]
    BY <1>11 DEF AckFails, Mail!AckLost, Mail!TypeOK
  <2> QED
    BY <1>0, <2>1, SameMail, SameConns
<1>12. ASSUME Restart PROVE Coming(g)'
  BY <1>12 DEF Restart
<1>13. ASSUME UNCHANGED <<mailVars, connectionVars, drains>> PROVE Coming(g)'
  BY <1>0, <1>13, SameMail, SameConns DEF mailVars
<1> HIDE DEF ConnTypes
<1> QED
  BY <1>1, <1>2, <1>3, <1>4, <1>5, <1>6, <1>7, <1>8, <1>9, <1>10, <1>11, <1>12, <1>13, OtherSteps

-----------------------------------------------------------------------------
LEMMA Invariant == Spec => []IInv
<1>1. IInv /\ [Next]_vars => IInv'
  BY MailTyped, ListTyped, CallTyped, ConnTyped, KeepsMap, KeepsTold, KeepsLists DEF IInv
<1> QED
  BY Starts, <1>1, PTL DEF Spec

(* The variables keep to their sets (Relay).                               *)
THEOREM TypeCorrect == Spec => []TypeOK
<1>1. IInv => TypeOK
  BY DEF IInv, TypeOK, ListTypes, CallTypes, ConnTypes
<1> QED
  BY Invariant, <1>1, PTL

(* The map of connected members is exact, however upgrades, deaths and     *)
(* restarts interleave (relay.mjs:264-282, 310-313).                       *)
THEOREM MapIsExact == Spec => []OnlineIsExact
<1>1. IInv => OnlineIsExact
  BY DEF IInv
<1> QED
  BY Invariant, <1>1, PTL

(* No mail waits for a connected member that is not told of it, unless a   *)
(* request of that member failed (relay.mjs:238-243, 279-285).             *)
THEOREM WakeupsAreKept == Spec => []NoLostWakeup
<1>1. ASSUME NEW h \in Handle, Unattended(h) PROVE Unread(h) /\ ~Coming(h)
  BY <1>1 DEF Unattended, Unread, Coming, Mail!Ids
<1>2. IInv => NoLostWakeup
  BY <1>1 DEF IInv, NoLostWakeup, Unattended, Told
<1> QED
  BY Invariant, <1>2, PTL

(* With every change noticed and no load in progress, the list in use is   *)
(* that of the file, however changes, loads and restarts overlap, unless   *)
(* the load that ended last was not the newest, the newest failed, or the  *)
(* file changed during the first load (relay.mjs:28-50, 316-317).          *)
THEOREM ChangesArePickedUp == Spec => []DirectoryPickedUp
<1>1. IInv => DirectoryPickedUp
  BY RelayBounds DEF IInv, ListTypes, ListsAreFresh, DirectoryPickedUp
<1> QED
  BY Invariant, <1>1, PTL

(* The relay does to the queue nothing but what RelayMail has: what is     *)
(* proved there of a queue holds of the relay's (relay.mjs:92-130,         *)
(* 217-262).                                                               *)
THEOREM QueueIsMail == Spec => Mail!Spec
<1>1. Init => Mail!Init
  BY DEF Init
<1>2. IInv /\ [Next]_vars => [Mail!Next]_mailVars
  BY MailSteps DEF IInv, Mail!Next
<1> QED
  BY Invariant, <1>1, <1>2, PTL DEF Spec, Mail!Spec, Mail!vars, mailVars
=============================================================================
