-------------------------------- MODULE Outbox --------------------------------
(***************************************************************************)
(* What becomes of a message the user sends (client/app.js: sendCurrent;   *)
(* client/net/transport.js: send, flushOutbox; client/db/store.js: the     *)
(* outbox).  Every message has a call of its own, which nothing keeps from *)
(* overlapping the others, and every time a WebSocket or a data channel    *)
(* opens another flush starts.  The connection's life is in Connection,    *)
(* here reduced to whether a request reaches the relay; the ratchet's in   *)
(* RatchetSession, here reduced to the step that seals the message.        *)
(***************************************************************************)
EXTENDS Naturals, FiniteSets

CONSTANTS
  Message,
  TooBig,     \* messages whose envelope the relay answers with 413
  Unknown,    \* messages to a handle that the relay's list of members may not
              \* have when it is asked: it answers 404
  Flush,      \* flushes that may run at once
  MaxMishaps  \* bound: requests the relay turns down for the moment, answers
              \* that get lost, outages, channels that die, and crashes

ASSUME OutboxAssumption ==
  /\ TooBig \subseteq Message /\ Unknown \subseteq Message
  /\ IsFiniteSet(Message) /\ MaxMishaps \in Nat

VARIABLES
  call,     \* call[m]: where sendCurrent's call for m stands, or how it ended
  outbox,   \* the outbox store
  flush,    \* flush[f]: what a running flushOutbox has listed and not tried
            \* yet, and the item whose answer it is working on
  channel,  \* messages given to the data channel and not delivered by it
  online,   \* do requests reach the relay?
  due,      \* a WebSocket is about to open
  queued,   \* queued[m]: is m in the recipient's mailbox "never", "once" or
            \* "again"?
  mishaps,
  \* History, read by the properties only.
  delivered,  \* messages the data channel delivered
  doubtful    \* messages for which an answer was lost, on its way or with the
              \* app, or which a flush listed while another was at work on them

OutboxVars ==
  <<call, outbox, flush, channel, online, due, queued, mishaps, delivered,
    doubtful>>

\* How a call ends: with the path that send returns, or it throws, or the app
\* dies.
Ended == {"p2p", "relay", "queued", "thrown", "cut"}
NoItem == {}
Idle == [runs |-> FALSE, left |-> {}, item |-> NoItem, answer |-> "none"]

OutboxTypeOK ==
  /\ call \in [Message -> {"unsent", "shown", "sealed", "posting", "holding"} \cup Ended]
  /\ outbox \subseteq Message /\ channel \subseteq Message
  /\ flush \in [Flush -> [runs : BOOLEAN, left : SUBSET Message,
                          item : {NoItem} \cup {{m} : m \in Message},
                          answer : {"none", "ok", "drop"}]]
  /\ \A f \in Flush : ~flush[f].runs => flush[f] = Idle
  /\ online \in BOOLEAN /\ due \in BOOLEAN /\ mishaps \in 0 .. MaxMishaps
  /\ queued \in [Message -> {"never", "once", "again"}]
  /\ delivered \cup doubtful \subseteq Message

OutboxInit ==
  /\ call = [m \in Message |-> "unsent"]
  /\ outbox = {} /\ channel = {} /\ online = TRUE /\ due = TRUE /\ mishaps = 0
  /\ flush = [f \in Flush |-> Idle]
  /\ queued = [m \in Message |-> "never"]
  /\ delivered = {} /\ doubtful = {}

Mishap == mishaps < MaxMishaps /\ mishaps' = mishaps + 1
OneMore(q) == IF q = "never" THEN "once" ELSE "again"
Go(m, from, to) == call[m] = from /\ call' = [call EXCEPT ![m] = to]

-----------------------------------------------------------------------------
\* sendCurrent: appendEvent has written the event, and the chat shows it.
Show(m) ==
  /\ Go(m, "unsent", "shown")
  /\ UNCHANGED <<outbox, flush, channel, online, due, queued, mishaps, delivered, doubtful>>

\* send throws where nothing catches it: before anything is sealed, because the
\* peer is not in the directory or has no bundle to start a session with; or
\* after, when the channel refuses what dc.send gives it.  A toast is all that is
\* left of the message.
Throw(m) ==
  /\ Go(m, "shown", "thrown") \/ Go(m, "sealed", "thrown")
  /\ Mishap
  /\ UNCHANGED <<outbox, flush, channel, online, due, queued, delivered, doubtful>>

\* send: encrypt, persist, seal.
Seal(m) ==
  /\ Go(m, "shown", "sealed")
  /\ UNCHANGED <<outbox, flush, channel, online, due, queued, mishaps, delivered, doubtful>>

\* send with a channel that is open.
SendDirect(m) ==
  /\ Go(m, "sealed", "p2p") /\ channel' = channel \cup {m}
  /\ UNCHANGED <<outbox, flush, online, due, queued, mishaps, delivered, doubtful>>

\* send without: the envelope is posted.
SendPost(m) ==
  /\ Go(m, "sealed", "posting")
  /\ UNCHANGED <<outbox, flush, channel, online, due, queued, mishaps, delivered, doubtful>>

ChannelDelivers(m) ==
  /\ m \in channel /\ channel' = channel \ {m} /\ delivered' = delivered \cup {m}
  /\ UNCHANGED <<call, outbox, flush, online, due, queued, mishaps, doubtful>>

ChannelDies ==
  /\ channel # {} /\ Mishap
  /\ channel' = {}
  /\ UNCHANGED <<call, outbox, flush, online, due, queued, delivered, doubtful>>

-----------------------------------------------------------------------------
\* The relay's answers to a POST of m (server/relay.mjs, /v1/send), and what
\* they leave of it.  A member of the relay's own list whose queue has room is
\* served; a full queue or a clock out of step is a refusal that may pass.
Accepted(m) ==
  /\ online /\ m \notin TooBig
  /\ queued' = [queued EXCEPT ![m] = OneMore(@)]
  /\ UNCHANGED <<mishaps, doubtful>>

TurnedDown(m) ==
  /\ online
  /\ IF m \in Unknown THEN UNCHANGED mishaps ELSE Mishap
  /\ UNCHANGED <<queued, doubtful>>

TooLarge(m) == online /\ m \in TooBig /\ UNCHANGED <<queued, mishaps, doubtful>>

\* fetch throws: nothing got through, or only the answer did not.
Throws(m) ==
  \/ ~online /\ UNCHANGED <<queued, mishaps, doubtful>>
  \/ /\ online /\ Mishap
     /\ UNCHANGED <<queued, doubtful>>
  \/ /\ online /\ m \notin TooBig /\ Mishap
     /\ queued' = [queued EXCEPT ![m] = OneMore(@)]
     /\ doubtful' = doubtful \cup {m}

\* send: the relay has the envelope.
PostOk(m) ==
  /\ Go(m, "posting", "relay") /\ Accepted(m)
  /\ UNCHANGED <<outbox, flush, channel, online, due, delivered>>

\* send: whatever else was the answer, the item goes to the outbox.
PostFails(m) ==
  /\ Go(m, "posting", "holding")
  /\ TurnedDown(m) \/ TooLarge(m) \/ Throws(m)
  /\ UNCHANGED <<outbox, flush, channel, online, due, delivered>>

\* send: queueOutbound is done.
Hold(m) ==
  /\ Go(m, "holding", "queued") /\ outbox' = outbox \cup {m}
  /\ UNCHANGED <<flush, channel, online, due, queued, mishaps, delivered, doubtful>>

-----------------------------------------------------------------------------
\* flushOutbox starts, with listOutbound's answer.  The items' keys are random,
\* so getAll returns them in any order.
StartFlush(f) ==
  /\ ~flush[f].runs
  /\ flush' = [flush EXCEPT ![f] = [runs |-> TRUE, left |-> outbox, item |-> NoItem, answer |-> "none"]]
  /\ doubtful' = doubtful \cup
       (outbox \cap UNION {flush[g].left \cup flush[g].item : g \in Flush})
  /\ UNCHANGED <<call, outbox, channel, online, queued, mishaps, delivered>>

\* The WebSocket's onopen.
SocketOpens(f) == online /\ due /\ due' = FALSE /\ StartFlush(f)

\* A data channel's onopen.
ChannelOpens(f) == StartFlush(f) /\ UNCHANGED due

\* What flush f does next about item m, whose POST was answered.
Proceed(f, m, answer) ==
  flush' = [flush EXCEPT ![f] =
    [runs |-> TRUE, left |-> @.left \ {m},
     item |-> IF answer = "none" THEN NoItem ELSE {m}, answer |-> answer]]

Takes(f, m) == flush[f].runs /\ flush[f].item = NoItem /\ m \in flush[f].left

FlushOk(f, m) ==
  /\ Takes(f, m) /\ Accepted(m) /\ Proceed(f, m, "ok")
  /\ UNCHANGED <<call, outbox, channel, online, due, delivered>>

\* The definitions named Bug... are not the code: each is a mistake that could
\* have been made at the definition that follows it, and breaks a property.
BugFlushRefused(f, m) ==
  /\ Takes(f, m) /\ TurnedDown(m) /\ flush' = [flush EXCEPT ![f] = Idle]
  /\ UNCHANGED <<call, outbox, channel, online, due, delivered>>

BugDropRefused(f, m) ==
  /\ Takes(f, m)
  /\ TurnedDown(m) /\ Proceed(f, m, "drop")
  /\ UNCHANGED <<call, outbox, channel, online, due, delivered>>

\* A refusal that may pass: the item stays, the next one is tried.
FlushRefused(f, m) ==
  /\ Takes(f, m) /\ TurnedDown(m) /\ Proceed(f, m, "none")
  /\ UNCHANGED <<call, outbox, channel, online, due, delivered>>

\* 413 is for good.  The relay answers no POST with 403.
FlushTooLarge(f, m) ==
  /\ Takes(f, m) /\ TooLarge(m) /\ Proceed(f, m, "drop")
  /\ UNCHANGED <<call, outbox, channel, online, due, delivered>>

BugFlushBreaks(f, m) ==
  /\ Takes(f, m) /\ Throws(m) /\ flush' = [flush EXCEPT ![f].runs = FALSE]
  /\ UNCHANGED <<call, outbox, channel, online, due, delivered>>

\* fetch throws: the loop ends until the next reconnect.
FlushBreaks(f, m) ==
  /\ Takes(f, m) /\ Throws(m) /\ flush' = [flush EXCEPT ![f] = Idle]
  /\ UNCHANGED <<call, outbox, channel, online, due, delivered>>

BugDequeue(f, m) ==
  /\ flush[f].item = {m}
  /\ outbox' = IF flush[f].answer = "drop" THEN outbox \ {m} ELSE outbox
  /\ Proceed(f, m, "none")
  /\ UNCHANGED <<call, channel, online, due, queued, mishaps, delivered, doubtful>>

\* dequeueOutbound is done.
Dequeue(f, m) ==
  /\ flush[f].item = {m}
  /\ outbox' = outbox \ {m}
  /\ Proceed(f, m, "none")
  /\ UNCHANGED <<call, channel, online, due, queued, mishaps, delivered, doubtful>>

EndFlush(f) ==
  /\ flush[f].runs /\ flush[f].left = {} /\ flush[f].item = NoItem
  /\ flush' = [flush EXCEPT ![f] = Idle]
  /\ UNCHANGED <<call, outbox, channel, online, due, queued, mishaps, delivered, doubtful>>

-----------------------------------------------------------------------------
GoOffline ==
  /\ online /\ online' = FALSE /\ Mishap
  /\ UNCHANGED <<call, outbox, flush, channel, due, queued, delivered, doubtful>>

GoOnline ==
  /\ ~online /\ online' = TRUE /\ due' = TRUE
  /\ UNCHANGED <<call, outbox, flush, channel, queued, mishaps, delivered, doubtful>>

\* The app dies.  A POST it was waiting for may have arrived all the same.
Crash ==
  /\ Mishap
  /\ \E through \in SUBSET {m \in Message \ TooBig :
                              online /\ call[m] = "posting"} :
       queued' = [m \in Message |-> IF m \in through THEN OneMore(queued[m]) ELSE queued[m]]
  /\ call' = [m \in Message |-> IF call[m] \in Ended \cup {"unsent"} THEN call[m] ELSE "cut"]
  /\ doubtful' = doubtful \cup
       UNION {flush[f].item : f \in {g \in Flush : flush[g].answer = "ok"}}
  /\ flush' = [f \in Flush |-> Idle]
  /\ channel' = {} /\ due' = TRUE
  /\ UNCHANGED <<outbox, online, delivered>>

OutboxNext ==
  \/ \E m \in Message :
       \/ Show(m) \/ Throw(m) \/ Seal(m) \/ SendDirect(m) \/ SendPost(m)
       \/ ChannelDelivers(m) \/ PostOk(m) \/ PostFails(m) \/ Hold(m)
       \/ \E f \in Flush : \/ FlushOk(f, m) \/ FlushRefused(f, m) \/ FlushTooLarge(f, m)
                           \/ FlushBreaks(f, m) \/ Dequeue(f, m)
  \/ \E f \in Flush : SocketOpens(f) \/ ChannelOpens(f) \/ EndFlush(f)
  \/ ChannelDies \/ GoOffline \/ GoOnline \/ Crash

\* A flush that runs goes on: requests are answered, the store writes.
FlushStep(f) ==
  \/ EndFlush(f)
  \/ \E m \in Message : \/ FlushOk(f, m) \/ FlushRefused(f, m) \/ FlushTooLarge(f, m)
                        \/ FlushBreaks(f, m) \/ Dequeue(f, m)

OutboxSpec == OutboxInit /\ [][OutboxNext]_OutboxVars
FairOutboxSpec ==
  /\ OutboxSpec
  /\ \A f \in Flush : WF_OutboxVars(FlushStep(f))
  /\ \A m \in Message : WF_OutboxVars(Hold(m)) /\ WF_OutboxVars(PostOk(m) \/ PostFails(m))
  /\ WF_OutboxVars(GoOnline) /\ WF_OutboxVars(\E f \in Flush : SocketOpens(f))

-----------------------------------------------------------------------------
(* What send has returned stays true, whatever overlaps, fails, is         *)
(* turned down or dies afterwards: a message that went to the relay is in  *)
(* its queue, and one that was held is in the outbox until the relay has   *)
(* it, or it is too large for the relay for good (transport.js:251-282).   *)
(* Nothing is said of a call that threw or was cut off, nor of what was    *)
(* given to a data channel: see ShownIsSent and DirectArrives.             *)
NothingForgotten ==
  \A m \in Message :
    /\ call[m] = "relay" => queued[m] # "never"
    /\ call[m] = "queued" => m \in outbox \/ queued[m] # "never" \/ m \in TooBig

(* The relay gets an envelope twice only if an answer for it was lost, the *)
(* app died on one, or two flushes listed it: never because of what        *)
(* happened to another message (transport.js:251-263, 266-282).            *)
RepeatsAreExcused == \A m \in Message : queued[m] = "again" => m \in doubtful

(* What a flush has listed leaves the outbox, if nothing more goes wrong:   *)
(* no other item, too large or never accepted, can hold it up, and no      *)
(* other flush or send (transport.js:266-282).                             *)
ListedIsSent ==
  \A m \in Message \ Unknown, k \in 0 .. MaxMishaps :
    (online /\ mishaps = k /\ \E f \in Flush : m \in flush[f].left)
      ~> (m \notin outbox \/ mishaps > k)

(* A message in the chat is on its way, although the app died or send      *)
(* threw (app.js:342-359).                                                 *)
ShownIsSent == \A m \in Message : call[m] \in {"thrown", "cut"} => queued[m] # "never"

(* What dc.send has taken arrives, or still can (transport.js:243-245).    *)
DirectArrives == \A m \in Message : call[m] = "p2p" => m \in channel \cup delivered

(* app.js:356: "Saved - will send when you are back online".  A message    *)
(* that is held while the app is online to stay leaves the outbox.         *)
HeldIsSent ==
  \A m \in Message \ Unknown : ~<>[](online /\ m \in outbox)
===============================================================================
