------------------------------ MODULE Connection ------------------------------
(***************************************************************************)
(* One app's connection to the relay (client/net/transport.js: connect,    *)
(* stop, the handlers of its WebSocket and the reconnect timer), with the  *)
(* relay's rule of one socket per handle (server/relay.mjs) and a network  *)
(* that comes and goes.                                                    *)
(*                                                                         *)
(* connect awaits a signature between its look at this.ws and the new      *)
(* WebSocket, and its callers do not wait for one another: the timer, the  *)
(* browser's `online` event and startTransport.  startTransport makes a    *)
(* new Transport and stops the one before.                                 *)
(***************************************************************************)
EXTENDS Integers

CONSTANTS
  Socket,         \* places for WebSockets that are not closed at both ends
  Null,
  MaxTransports,  \* bound: calls of startTransport
  MaxOutages      \* bound: times the network goes away, or the relay refuses

ASSUME ConnectionBounds ==
  /\ Null \notin Socket /\ MaxTransports \in Nat \ {0} /\ MaxOutages \in Nat

VARIABLES
  current,     \* app.transport: the number of the last Transport made
  stopped,     \* stopped[t]: the flag of transport t
  ws,          \* ws[t]: this.ws of transport t, Null when it is closed
  dialing,     \* dialing[t]: connect calls that wait for authQuery
  timers,      \* timers[t]: reconnect timers that run
  socks,       \* socks[s]: the WebSocket in place s, and the relay's end of it
  registered,  \* the socket that the relay has registered for the handle
  reachable,   \* does the network lead to the relay?
  outages,     \* how often it went away, or an upgrade was refused
  \* History, read by the properties only.
  revived      \* has a transport connected after it was stopped?

ConnectionVars ==
  <<current, stopped, ws, dialing, timers, socks, registered, reachable,
    outages, revived>>

Transport == 1 .. MaxTransports
Unused == [owner |-> 0, state |-> "unused", relay |-> "none"]

ConnectionTypeOK ==
  /\ current \in Transport /\ stopped \in [Transport -> BOOLEAN]
  /\ ws \in [Transport -> Socket \cup {Null}]
  /\ \A t \in Transport : ws[t] # Null =>
       socks[ws[t]].owner = t /\ socks[ws[t]].state \in {"connecting", "open", "closing"}
  /\ dialing \in [Transport -> Nat] /\ timers \in [Transport -> Nat]
  /\ socks \in [Socket -> [owner : Transport,
                           state : {"connecting", "open", "closing", "closed"},
                           relay : {"none", "open", "deaf", "closed", "refused"}] \cup {Unused}]
  /\ registered # Null => socks[registered].relay \in {"open", "deaf"}
  /\ reachable \in BOOLEAN /\ outages \in 0 .. MaxOutages /\ revived \in BOOLEAN

\* afterUnlock has called startTransport for the first time.
ConnectionInit ==
  /\ current = 1
  /\ stopped = [t \in Transport |-> FALSE]
  /\ ws = [t \in Transport |-> Null]
  /\ dialing = [t \in Transport |-> IF t = 1 THEN 1 ELSE 0]
  /\ timers = [t \in Transport |-> 0]
  /\ socks = [s \in Socket |-> Unused]
  /\ registered = Null
  /\ reachable = TRUE /\ outages = 0 /\ revived = FALSE

-----------------------------------------------------------------------------
\* readyState <= 1
Alive(t) == ws[t] # Null /\ socks[ws[t]].state \in {"connecting", "open"}

\* The definitions named Bug... are not the code: each is a mistake that could
\* have been made at the definition that follows it, and breaks a property.
BugConnect(t) ==
  /\ stopped' = [stopped EXCEPT ![t] = FALSE]
  /\ dialing' = [dialing EXCEPT ![t] = @ + 1]
  /\ revived' = (revived \/ stopped[t])

\* connect, up to its await.
Connect(t) ==
  IF Alive(t)
    THEN UNCHANGED <<stopped, dialing, revived>>
    ELSE /\ stopped' = [stopped EXCEPT ![t] = FALSE]
         /\ dialing' = [dialing EXCEPT ![t] = @ + 1]
         /\ revived' = (revived \/ stopped[t])

\* connect, after authQuery.  It does not look at `stopped` or this.ws again.
Dial(t) ==
  /\ dialing[t] > 0
  /\ dialing' = [dialing EXCEPT ![t] = @ - 1]
  /\ \E s \in Socket :
       /\ socks[s] = Unused
       /\ socks' = [socks EXCEPT ![s] = [owner |-> t, state |-> "connecting", relay |-> "none"]]
       /\ ws' = [ws EXCEPT ![t] = s]
  /\ revived' = (revived \/ stopped[t])
  /\ UNCHANGED <<current, stopped, timers, registered, reachable, outages>>

\* The upgrade of s is with the relay.  The app may have closed s since.
Upgrading(s) ==
  /\ socks[s].state \in {"connecting", "closing", "closed"} /\ socks[s].relay = "none"
  /\ reachable

\* The relay accepts the upgrade, and closes the socket it had for the handle.
\* If s ended before the relay listened for that, it never hears of it ("deaf").
RelayAccepts(s) ==
  /\ Upgrading(s)
  /\ \E end \in {"open", "deaf"} :
       /\ end = "deaf" => socks[s].state = "closed"
       /\ socks' = [z \in Socket |->
            IF z = s THEN [socks[s] EXCEPT !.relay = end]
            ELSE IF z # registered THEN socks[z]
            ELSE IF socks[z].relay = "deaf" THEN Unused ELSE [socks[z] EXCEPT !.relay = "closed"]]
  /\ registered' = s
  /\ UNCHANGED <<current, stopped, ws, dialing, timers, reachable, outages, revived>>

\* verifyAuth says no: a clock out of step, a relay whose list is not the newest.
RelayRefuses(s) ==
  /\ Upgrading(s) /\ outages < MaxOutages
  /\ outages' = outages + 1
  /\ socks' = [socks EXCEPT ![s] = IF @.state = "closed" THEN Unused
                                                        ELSE [@ EXCEPT !.relay = "refused"]]
  /\ UNCHANGED <<current, stopped, ws, dialing, timers, registered, reachable, revived>>

\* onopen.
OnOpen(s) ==
  /\ socks[s].state = "connecting" /\ socks[s].relay \in {"open", "closed"} /\ reachable
  /\ socks' = [socks EXCEPT ![s].state = "open"]
  /\ UNCHANGED <<current, stopped, ws, dialing, timers, registered, reachable,
                 outages, revived>>

\* Socket s ends for the app: it was closed by the app or the relay, was
\* refused, or the network is gone.
Closing(s) ==
  /\ socks[s].state \in {"connecting", "open", "closing"}
  /\ socks[s].state = "closing" \/ socks[s].relay \in {"closed", "refused"} \/ ~reachable

\* What is left of it is the relay's end, or an upgrade that the relay has yet
\* to answer, if it was sent at all.
Remains(s) ==
  IF socks[s].relay \in {"closed", "refused"} THEN {Unused}
  ELSE {[socks[s] EXCEPT !.state = "closed"]}
         \cup (IF socks[s].relay = "none" THEN {Unused} ELSE {})

BugOnClose(s) ==
  /\ Closing(s)
  /\ \E end \in Remains(s) : socks' = [socks EXCEPT ![s] = end]
  /\ LET t == socks[s].owner
     IN /\ ws' = IF ws[t] = s THEN [ws EXCEPT ![t] = Null] ELSE ws
        /\ timers' = IF stopped[t] \/ ~reachable THEN timers ELSE [timers EXCEPT ![t] = @ + 1]
  /\ UNCHANGED <<current, stopped, dialing, registered, reachable, outages, revived>>

\* onclose.  Unless the transport was stopped, it will try again.
OnClose(s) ==
  /\ Closing(s)
  /\ \E end \in Remains(s) : socks' = [socks EXCEPT ![s] = end]
  /\ LET t == socks[s].owner
     IN /\ ws' = IF ws[t] = s THEN [ws EXCEPT ![t] = Null] ELSE ws
        /\ timers' = IF stopped[t] THEN timers ELSE [timers EXCEPT ![t] = @ + 1]
  /\ UNCHANGED <<current, stopped, dialing, registered, reachable, outages, revived>>

BugRelayNotices(s) ==
  /\ socks[s].state = "closed" /\ socks[s].relay \in {"open", "closed"}
  /\ socks' = [socks EXCEPT ![s] = Unused]
  /\ UNCHANGED <<current, stopped, ws, dialing, timers, registered, reachable, outages,
                 revived>>

\* The relay hears that a socket has ended.
RelayNotices(s) ==
  /\ socks[s].state = "closed" /\ socks[s].relay \in {"open", "closed"}
  /\ socks' = [socks EXCEPT ![s] = Unused]
  /\ registered' = IF registered = s THEN Null ELSE registered
  /\ UNCHANGED <<current, stopped, ws, dialing, timers, reachable, outages, revived>>

\* A reconnect timer fires.
Timer(t) ==
  /\ timers[t] > 0
  /\ timers' = [timers EXCEPT ![t] = @ - 1]
  /\ Connect(t)
  /\ UNCHANGED <<current, ws, socks, registered, reachable, outages>>

\* stop
Stop(t) ==
  /\ stopped' = [stopped EXCEPT ![t] = TRUE]
  /\ socks' = [s \in Socket |-> IF s = ws[t] THEN [socks[s] EXCEPT !.state = "closing"]
                                              ELSE socks[s]]

\* startTransport once more, after saving the settings or unlocking again:
\* stop, a new Transport, connect.
Renew ==
  /\ current < MaxTransports
  /\ current' = current + 1
  /\ Stop(current)
  /\ dialing' = [dialing EXCEPT ![current + 1] = @ + 1]
  /\ UNCHANGED <<ws, timers, registered, reachable, outages, revived>>

NetworkGone ==
  /\ reachable /\ outages < MaxOutages
  /\ reachable' = FALSE /\ outages' = outages + 1
  /\ UNCHANGED <<current, stopped, ws, dialing, timers, socks, registered, revived>>

\* The network is back.  Unless the outage was at the relay's end, the browser's
\* `online` event calls connect.
NetworkBack ==
  /\ ~reachable /\ reachable' = TRUE
  /\ Connect(current) \/ UNCHANGED <<stopped, dialing, revived>>
  /\ UNCHANGED <<current, ws, timers, socks, registered, outages>>

ConnectionNext ==
  \/ \E t \in Transport : Dial(t) \/ Timer(t)
  \/ \E s \in Socket : \/ RelayAccepts(s) \/ RelayRefuses(s) \/ RelayNotices(s)
                       \/ OnOpen(s) \/ OnClose(s)
  \/ Renew \/ NetworkGone \/ NetworkBack

\* Timers, event loops and a network that is there do their work.
ConnectionFairness ==
  /\ \A t \in Transport : WF_ConnectionVars(Dial(t)) /\ WF_ConnectionVars(Timer(t))
  /\ \A s \in Socket : /\ WF_ConnectionVars(RelayAccepts(s)) /\ WF_ConnectionVars(OnOpen(s))
                       /\ WF_ConnectionVars(OnClose(s)) /\ WF_ConnectionVars(RelayNotices(s))

ConnectionSpec == ConnectionInit /\ [][ConnectionNext]_ConnectionVars
FairConnectionSpec == ConnectionSpec /\ ConnectionFairness

-----------------------------------------------------------------------------
\* The app has one connection, and the relay the same.
Settled ==
  /\ Alive(current) /\ registered = ws[current]
  /\ socks[registered].state = "open"
  /\ \A s \in Socket \ {registered} : socks[s] = Unused

\* The timers of a transport fire while nothing of an earlier connect is under
\* way: the delays are a second and more, and each is twice the one before.
TimersWait ==
  \A t \in Transport : timers'[t] < timers[t] =>
    /\ dialing[t] = 0
    /\ \A s \in Socket : socks[s].owner = t => socks[s].state # "connecting"

(* The app never gives up: whatever sockets push each other out, however   *)
(* the network comes and goes and a transport is exchanged for the next,   *)
(* the transport in use has a socket, a connect call under way, or a timer *)
(* that will start one (transport.js:59-97).                               *)
KeepsTrying == Alive(current) \/ dialing[current] > 0 \/ timers[current] > 0

(* When the network stays and the reconnect delays are longer than a       *)
(* handshake, the app ends up with one connection and keeps it, however    *)
(* many connect calls overlapped and pushed each other's socket out,       *)
(* unless a transport came back to life after it was stopped               *)
(* (transport.js:59-97, relay.mjs:280-281).                                *)
Settles ==
  <>[]reachable /\ <>[][TimersWait]_ConnectionVars => <>[]Settled \/ <>revived

(* A transport that was stopped does not connect again                     *)
(* (transport.js:85, 92-97).                                               *)
StoppedStaysStopped == ~revived
=============================================================================
