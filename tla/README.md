# ZenvX Chat in TLA+

TLA+ modules that model the parts of ZenvX Chat (`src/`) in which state is kept, shared or
lost; TLC configurations that check them on small instances; theorems that TLAPS proves for
every instance. Line numbers are those of `src/`.

To repeat everything: `tlc -config X.cfg MCModule` for a run of the tables below, and
`tlapm XProofs.tla` for the proofs about a module X (the table of section 2 says where each is).

## 1. The system

Members hold their keys and messages on their own device. A relay forwards sealed envelopes
and keeps them while the recipient is away; a signed directory, edited offline and served as
two static files, says who is a member.

| Part | State | Operations | Talks to |
| --- | --- | --- | --- |
| Mail queue, `server/relay.mjs:82-149` | one JSONL file per handle | `enqueue`, `drain`, `ack`, `sweep` | the relay's handlers, all synchronous |
| Relay, `server/relay.mjs` | `members`, `online` in memory; the directory file | `/v1/send`, `/v1/inbox`, `/v1/ack`, the upgrade to `/v1/signal`, signals, `loadDirectory` | queue, WebSockets, the apps |
| WebSocket, `server/ws.mjs` | buffer, fragments, `closed`, `firedClose` | `accept`, `send`, `close`, the frame parser | the relay's `online` map by its close handlers |
| Double Ratchet, `client/crypto/ratchet.js` | a session: root and chain keys, counters, skipped keys | `initSender`, `initReceiver`, `encrypt`, `decrypt` | X3DH before it, Transport around it |
| X3DH, `client/crypto/x3dh.js` | the identity: long-term keys, signed prekey, one-time prekeys | `createIdentity`, `initiate`, `respond`, export, import | the bundle in the directory |
| Transport, `client/net/transport.js` | `sessions` map, WebSocket, peers | `send`, `flushOutbox`, `drainInbox`, `_onEnvelope`, `connect`, WebRTC negotiation | relay, ratchet, store, directory |
| Store, `client/db/store.js` | IndexedDB: events, sessions, outbox, wrapped key | `appendEvent`, `saveSession`, outbox, backup | Transport and the app |
| Directory tool, `tools/root-key.mjs` | `members.json`, `members.sig` | `enroll`, `revoke`, `seal` | published by `git push` |
| Verification, `client/crypto/trust.js` | none | `verifyDirectory`, `verifyDirectorySignature`, `isRollback` | app and relay |
| App, `client/app.js` | `app.directory`; identity, cached directory and serial in localStorage | `afterUnlock`, `loadDirectory`, `sendCurrent`, screens | everything on the device |
| Sealed sender, primitives | none | `seal`, `openWith`; WebCrypto | Transport |
| Service worker, `client/sw.js` | shell caches | install, activate, fetch, push | the browser |

What is hard here, and what correctness means for each part:

* **Mail queue.** An inbox answer is out while more mail arrives, other answers are out and lines
  expire; `ack` writes the file anew; writes may stop half way. Correct: mail answered with 202 is
  lost to nothing but acknowledgement and expiry, files stay bounded, and abandoned ones go.
* **Relay.** Every handler awaits a signature and then acts on what it knew before. Correct: the
  `online` map holds exactly the open connections, no wakeup is lost, the member list follows the
  file, and revoked members are out.
* **Ratchet and sessions.** States are updated in place, a throw leaves them half way, and the app
  may die between encrypting, saving, sending, opening, saving and logging. Correct: genuine
  messages open in any order, no key is used twice, used keys are gone, a leak heals, and a
  delivered message is kept.
* **Starting a session.** Prekey bundles are static, one-time prekeys are burnt in memory, only the
  first envelope can establish a session, and two members may start at once. Correct: both ends
  have the same session, and what is sent is opened.
* **Overlapping calls.** Nothing keeps two calls of `encrypt`, of `send`, of `flushOutbox` or of `connect`
  apart, or the two ends from offering a channel at once. Correct: one key per message, nothing forgotten or
  repeated without a reason, one connection in the end, one transport between two ends.
* **Store.** The page may die between any two puts; the store may be evicted; a backup may be older,
  newer, or from another life, and is made and restored while messages come in. Correct: the passphrase
  goes on opening the store, its rows stay readable, no event is lost, and a backup is not torn.
* **Frames.** TCP cuts them anywhere. Correct: the messages are those of the stream.
* **Directory.** The host may serve anything that was ever signed, the two files separately; loads
  overlap. Correct: no going back, no return of revoked members, enrolled members accepted.

`PROJECT.json` lists the places one by one under "hazards", with the properties that watch them, or
with the counterexample of section 3 where the code does not have the property.

## 2. Modules

| Module | Models | Its state and actions in the code |
| --- | --- | --- |
| `Mailbox` | nothing: the promise of the mail queue | deposit, collect, remove by the recipient, expiry |
| `RelayMail` | the queue files | `file[h]` are the complete lines of `queue/<h>.jsonl`, `torn[h]` a fragment at its end. `Enqueue`, `Ack`, `Sweep` are the functions of those names; `Inbox` is `GET /v1/inbox` with the recipient keeping the ids, `AckLost` an acknowledgement that never comes. `TornAppend`, `TornRewrite` are interrupted writes |
| `RelayMailProofs` | | theorems on `RelayMail` |
| `Relay` | the relay process and the inbox rounds of the apps | INSTANCEs `RelayMail` and takes one of its steps whenever a request reaches the queue. One action per stretch between two awaits: `SendArrives`, `SendVerified`, `SendQueued` or `SendRefused`; `UpgradeArrives`, `UpgradeVerified`; `WatchFires`, `Loaded` or `LoadFailed`. `Dropped` is the close handler, `Restart` a new process, `WakesUp`, `InboxAnswered/Fails`, `AckAnswered/Fails` are `drainInbox` |
| `RelayProofs` | | theorems on `Relay` |
| `DoubleRatchet` | `ratchet.js` | operators on session records with the code's field names; `Decrypt` returns the state together with whether the call threw |
| `RatchetLemmas` | | lemmas on `DoubleRatchet`: what a call of `encrypt` or `decrypt` keeps, and which messages are open to a session state before and after it; the proofs of both modules that compose `DoubleRatchet` rest on them |
| `RatchetSession` | two members in one session | `EncryptMessage`, `SaveBeforeSend`, `HandOver` are `send`; `Receive`, `SaveOpened`, `LogEvent`, `Acknowledge` are `_onEnvelope`, the app's listener and `drainInbox`; `Crash` is a restart from what was saved |
| `RatchetSessionProofs` | | theorems on `RatchetSession` |
| `Messaging` | how sessions begin | X3DH in `send` and `_onEnvelope`, the relay's queues, the outbox, restarts. Composes `DoubleRatchet` |
| `MessagingProofs` | | theorems on `Messaging`, with `RatchetLemmas` |
| `Directory` | the signed directory from tool to app | `Enroll`, `Revoke`, `Reseal`, `Publish`; `StartLoad`, `NoLoad`, `FinishLoad` are `loadDirectory` between its awaits; `Start` is a restart; `EnvelopeFrom` the sender check of `_onEnvelope` |
| `DirectoryProofs` | | theorems on `Directory` |
| `RatchetAwait` | `encrypt` and `decrypt` at their awaits | a call has its own program counter and its own copies of what it read; `StartEncrypt`, `StoreChain`, `FinishEncrypt` are the stretches between two awaits, and so for `decrypt`. `st` is shared |
| `Outbox` | a message from the button to the relay | `Show` is `sendCurrent`, `Throw` what it catches; `Seal`, `SendDirect`, `SendPost`, `PostOk`, `PostFails`, `Hold` are `send`; `SocketOpens`, `ChannelOpens` start a `flushOutbox`, `FlushOk`, `FlushRefused`, `FlushTooLarge`, `FlushBreaks`, `Dequeue`, `EndFlush` are its loop |
| `Connection` | `Transport.connect` and `stop`, their timers, and the relay's end | `Connect`, `Dial` are `connect` before and after its await; `OnOpen`, `OnClose` the socket's handlers, `RelayAccepts`, `RelayRefuses` the relay's answer to an upgrade, early or late, `RelayNotices` its close handler, `Timer` the reconnect timer, `Renew` is `startTransport` stopping one Transport and making the next |
| `Negotiation` | `openChannel` and `_onSignal` of two members | `OpenChannel`, `CreateOffer`, `SetOffer`; `OnSignal`, `Rollback`, `SetOffered`, `CreateAnswer`, `SetAnswer`, `SetAnswered`, `AddIce`. `chain[p]` are the operations that p's RTCPeerConnection has been asked for and not done: the browser does them in order |
| `TransportProofs` | | theorems on `Outbox`, `Connection` and `Negotiation`, three sides of the class `Transport`; to be seen together, they keep their `Init`, `Next`, `Spec` and `TypeOK` apart by name (`OutboxInit`, ...) |
| `LocalStore` | `store.js` and the lock screen of `app.js` | every put is an action: `PutSalt`, `PutWrapped` (`initialise`), `ImportRow`, `EndImport` (`importBackup`), `Append` in `SendEvent` and `LogEvent`, `StartExport`, `EndExport` (`exportBackup`). `Reload` and `Evict` come between any two |
| `LocalStoreProofs` | | theorems on `LocalStore` |
| `WsFrames` | the frame parser of `ws.mjs` | operators: `OnData` is `_onData`, against `FramesAreRead`, what the stream says |
| `MC...` | | values of the constants for TLC; `MCRelay` puts `WsFrames` beside `Relay` |

Abstractions. Cryptography is symbolic and ideal: a Diffie-Hellman secret is the set of its two key
pairs, a root key the sequence of secrets mixed into it, a chain key its root and a step count, and a
ciphertext opens under the key that sealed it and no other. Signatures are what they sign. A message,
a handle or a relay-side envelope is a token. Time is a tick counter in `RelayMail`, and stands still in
`Relay`, where expiry would only add what `RelayMail` has. In `LocalStore` keys and salts are numbers nobody
used before, a sealed row is the key that opens it, and a session is how far it went; in `Negotiation` a
description is the transport it is about. A file read or written synchronously by the
relay is one step, as Node runs it; the interrupted writes are the exception that is modelled.

Bounds are constants named `Max...`; a counter stops there by a guard of the one action that
increments it, so every configuration says `CHECK_DEADLOCK FALSE`: a bounded system does stop.
Variables listed under "History" are written by actions and read by properties and bounds only.
Definitions named `Bug...` are mistakes that could have been made at the definition after them;
`PROJECT.json` says which property each one breaks. `WsFrames` is recursive, so no module with theorems uses it.

## 3. What is checked

### Runs that pass

| Run | Properties | Shows |
| --- | --- | --- |
| RelayMail | `NoLoss` `QueueBound` `AbandonedMailGoes` `MailboxSpec` | accepted mail stays collectable until acknowledged or expired, however rounds overlap; the limit holds; abandoned files go; the files implement `Mailbox` |
| RelayMailTorn | `TearsAreContained` | an interrupted append costs at most one later envelope |
| Relay | `OnlineIsExact` `NoLostWakeup` `DirectoryPickedUp` `MessagesGetThrough` | with failing requests and loads, connections that die unverified and a restart: open connections are the registered ones; unread mail of a connected member has something on its way; the published directory is in use, with up to three changes and loads that overlap; and a connection's parser delivers the stream's messages and closes for a close frame, an unknown opcode or too many bytes only, for every stream of up to three frames and every cut into three chunks |
| RelayDelivers | `MailReachesOnline` | without faults, a connected member's mail is collected (liveness) |
| RatchetSession | `GenuineOpens` `KeysAreFresh` `ForwardSecrecy` `Heals` | in any order, over a crash at any point, with nothing delivered twice; a leaked state is useless after its owner's next ratchet pair |
| Messaging | `PeersAgree` `OpksAreSingleUse` `DropsAreOrphans` | members who write to each other in one direction first share one session over restarts; within one run of an app a one-time prekey goes into one session; nothing is lost but what belongs to a prekey message that has not opened |
| Directory | `RevokedStaysOut` `NeverRollsBack` | against a host that serves any old version of either file |
| Outbox | `NothingForgotten` `RepeatsAreExcused` `ListedIsSent` | with overlapping sends and flushes, crashes, outages, lost answers and items the relay will never take: what `send` reported as relayed or queued stays with the relay or in the outbox; a repeat has one of three reasons; what a flush has listed goes out (liveness) |
| Connection | `KeepsTrying` `Settles` | however sockets push each other out, are refused or are answered late, the app has a socket, a call of `connect` or a timer; once the network stays, one connection is left at both ends and stays (liveness) |
| Negotiation | `GlareResolves` | whatever crosses of two calls of `openChannel` each, both ends are on one transport once all is quiet |
| LocalStore | `PassphraseOpens` `RowsReadable` `NothingIsLost` `BackupIsConsistent` | over pages that die at any put, evictions, and backups made and restored at any time |

Most of them also check their module's `TypeOK`. Some properties name the case in which they do
not hold, and it is one the code has. `Relay`: a connection that dies while its signature is checked is
registered dead, because nobody listens for its end yet (relay.mjs:271-281); a member one of whose
inbox requests failed is not told again of the mail that waits (transport.js:307); a directory that changes while
the relay loads the previous one at its start is never noticed, a failed load is not repeated, and a load that ends after a
later one puts the older list into use (relay.mjs:28-50, 316-317).
`Connection`: a transport that is stopped while it signs its URL connects all the same (transport.js:59-64). `Outbox`: `NothingForgotten` is about
what `send` returned; a call that throws, before or after the message is sealed, or that dies with the app, leaves a message that is shown and
nowhere else (app.js:342-357), and a data channel may die with what it holds (transport.js:244): `ShownIsSent` and `DirectArrives` below. `Negotiation`: after a lost signal it takes a new offer of the member that
does not yield; and `GlareResolves` is about a few calls of `openChannel`. It also holds with three calls each and no loss, and with
two calls each and two losses. It does not hold for any number: `send` calls `openChannel` for every message until the channel is
open (transport.js:248), and when the member that does not yield has called it five times and the other twice before the first answer, the
other's second offer, made before the first of its answers and sent after it, can end up as the transport of one end only. (TLC finds this with the
candidates left out of the module, which only take their turn between the descriptions; four calls and two have no such behaviour.)
`LocalStore`: rows of a file made under another data key, and a session that a restore set back.

### The run that shows a disagreement

| Run | Property | What happens |
| --- | --- | --- |
| RatchetAwait | `KeyPerMessage`, README.md:37 | two overlapping calls of `encrypt` read one chain key and seal two messages with the same message key |

### Further counterexamples

Configurations kept for the record and run by hand (`tlc -config RelayStranded.cfg MCRelay`, and so
on); each ends in a counterexample to its one property.

| Configuration | Property, and where it is stated | What happens |
| --- | --- | --- |
| RelayMailSweep | `SweepExpires`, relay.mjs:5 | the sweep compares two filtered lengths, so expired lines stay beside a live one |
| RelayStranded | `HeldOnlyWhenOffline`, README.md:20 | `drainInbox` swallows a failure; mail waits for a member who is connected |
| RelayLateEdit | `PublishedIsInUse`, root-key.mjs:148 | a directory published during the first load is taken as known by `watchFile`, and never loaded |
| RatchetReplay | `GenuineOpens`, app.js:337 | a redelivered envelope costs the chain a step, and the next genuine message with it |
| RatchetSkipped | `SkippedBound`, ratchet.js:6 | MAX_SKIP bounds one call, not the cache |
| MessagingSecond | `FirstMessagesOpen`, transport.js:224 | all initiators take the same one-time prekey; the second is refused |
| MessagingCrossing | `FirstMessagesOpen`, README.md:105 | two first messages at once make two sessions |
| MessagingOpkRestart | `OpksAreBurnt`, x3dh.js:100 | a burnt one-time prekey is back after a restart |
| MessagingOutbox | `OutOfOrderOpens`, ratchet.js:6 | a later message overtakes the prekey message and is lost |
| DirectoryOverlap | `NeverRollsBack`, app.js:198 | of two overlapping loads the older stores its serial last |
| DirectoryRekey | `EnrolledIsAccepted`, root-key.mjs:131 | a handle enrolled again stays on the revoked list |
| DirectoryStale | `MembersMailIsKept`, transport.js:298 | mail from a member the app does not know yet is acknowledged unread |
| DirectoryOffline | `CacheIsUsed`, sw.js:3 | the cached directory cannot be verified offline |
| LocalStoreButtons | `PassphraseOpens` | the unlock and the restore button initialise the store at once: the salt of one, the data key of the other |

The following are stated in their modules and have a counterexample when they are put in the place of the
properties of the run of that name (`HeldIsSent` as a PROPERTY, the others as INVARIANTs):

| Run | Property, and where it is stated | What happens |
| --- | --- | --- |
| LocalStore | `NoKeyTwice`, README.md:37 | a restored session seals again with keys that the newer one had used |
| LocalStore | `RestoreRecovers`, store.js:221 | on a store initialised anew the rows of a backup are put as they are, under the data key that is gone |
| Outbox | `ShownIsSent` | the app dies or `send` throws after the message was shown (app.js:342-359) |
| Outbox | `DirectArrives` | the channel dies with what `dc.send` has taken (transport.js:244) |
| Outbox | `HeldIsSent`, app.js:356 | an item is put into the outbox after the flush has listed it; nothing starts another until a socket opens |
| Connection | `StoppedStaysStopped` | `stop` during the await of `connect` |
| Negotiation | `RetryAgrees` | after a lost answer the yielding member's own offers are ignored |
| Negotiation | `OffersAreAnswered` | an ignored offer is not made again by itself |
| Negotiation | `CandidatesAreTaken` | a candidate that comes before the description it belongs to is refused |
| RatchetAwait | `AllOpen` | a message sealed with a key used before does not open |
| Relay | `BetweenMembers`, relay.mjs:4 | a member revoked while connected goes on signalling |
| RatchetSession | `DeliveredIsKept`, README.md:20 | acknowledged before it is logged, lost in a crash |
| Relay | `NothingAfterClose` | chunks that arrive after the close frame are still parsed (ws.mjs:109-113) |

A property on both sides separates what causes it: `GenuineOpens` holds while nothing is redelivered,
`NeverRollsBack` with one load at a time, `PassphraseOpens` with one handler at a time.

### Bounds

* *RelayMail*: 2 recipients, 3 envelopes, limit 2, TTL 2 ticks, 3 ticks, 2 rounds at once. Enough for a
  full queue, a queue with expired and live lines at once, two overlapping rounds with mail in
  between, and expiry between any two steps. Torn writes: 2, with 4 envelopes and a limit of 3.
* *Relay*: 2 members, 2 connections, 1 restart, and 3 sends and directory changes together, at most 2 of them sends (`MaxEvents`), which
  gives a reconnection with requests in flight, a revocation at every await, and three loads that overlap and end in any order, before and
  after the restart. 3 connections with 1 send and 1 change, too large to combine with it, pass as well.
* *RatchetSession*: 3 messages one way and 1 the other, MAX_SKIP 1, two mishaps, each a crash or the one
  leak: several chains, skipped keys in the current and the previous chain, and a gap beyond the limit. Two
  instances kept out for their size pass too: 3 and 2 messages with one mishap, 2 and 2 with two.
* *Messaging*: 3 members with 2 messages each, two of whom write to the third, an outbox, and one restart of
  every app: the two initiators share a one-time prekey, and a restart falls between any two steps.
* *Directory*: 2 handles, 3 serials, 1 restart: enrolment, revocation and a third version; `Load` has one
  element, or two for overlapping loads; two keys per handle where re-enrolment matters.
* *Relay's frames*: all legal streams of up to 3 frames (text or binary, in one or two parts, continuations, pings and pongs, closes, a
  reserved opcode, extended lengths, one length over the limit) and all ways to cut them in three chunks; a buffer of 20 bytes.
* *RatchetAwait*: 2 calls at once, 2 messages, MAX_SKIP 2.
* *Outbox*: 2 messages, the second too large or not known to the relay, 2 flushes at once, 3 mishaps: an outage, a crash and
  a lost answer may meet.
* *Connection*: 2 Transports, 3 sockets, 2 mishaps, each an outage or a refused upgrade: a socket pushed out by another, one that was
  never opened, one the relay registers after the app has closed it, and a restart during any of them.
* *Negotiation*: 2 calls of `openChannel` by each member, 1 lost signal: glare, glare during the retry, and a loss at
  any point of both.
* *LocalStore*: 2 events, 2 passphrases, 1 backup, 3 further pages or evictions, 2 steps of the session: back up, evict,
  initialise, break a restore off, restore. 2 backups with 2 further pages pass as well (1.0 million states).

### Fairness

`RelayDelivers`: weak fairness of `WakesUp`, `InboxAnswered` and the acknowledgements.
An open WebSocket delivers what was sent or is dropped (and `Dropped` is always possible), event loops
run their callbacks, and HTTP requests without faults are answered. No fairness is assumed of senders,
reconnections or the operator. The run has no failing requests, no directory changes and no restarts because the code does
not retry: `RelayStranded` shows what happens with them.

`Connection`: weak fairness of `Dial`, `Timer` and every step of a socket: signing a URL ends, timers fire, a WebSocket
opens or closes, and the relay notices its end. `Settles` asks in addition that the network stays from some point on, and
that from some point on a timer fires only when no handshake of its transport is under way (`TimersWait`): delays begin at one second
and double (transport.js:85-88), handshakes do not grow. Without it two sockets can push each other out for ever.

`Outbox`: weak fairness of a flush's steps, of `Hold` (an IndexedDB put), of a request's end, of the return of the network and of a
socket that is due: `connect` tries for ever (transport.js:85-88). None of the user, of channels, or of mishaps.

### Assumptions about the environment

* Node reports the end of a connection as a `close` or `error` event of its socket (`ws.mjs:59-60`).
* `fs.watchFile` compares with the state of the file when it was called, and notices every later change.
* The network carries an envelope whole. It may lose, delay, reorder and repeat it as the module's header says.
* IndexedDB writes that were reported done survive; a put is one transaction. localStorage writes survive at once.
* An RTCPeerConnection carries out the operations it was asked for one after the other, a rolled back offer is gone, and
  the relay forwards the signals of a connection in order.

## 4. What is proved

`RelayMailProofs`, for any set of members, queue limit, TTL and bounds, from `BoundsAssumption` alone:

* `TypeCorrect`, `MailIsNotLost`, `QueuesAreBounded`, `AbandonedMailIsSwept`: `Spec => []` of `TypeOK`,
  `NoLoss`, `QueueBound` and `AbandonedMailGoes`.
* `TornAppendsAreContained`: `TearsAreContained`. The induction counts a fragment at the end of a file as the envelope it is
  going to spoil (`Contained`), and needs that every line carries the identifier and time it was written with (`Stamped`).
* `ImplementsMailbox`: without interrupted writes, `Spec => MailboxSpec`, by the mapping of `waiting` to what
  `drain` returns. A step of the queue is a step of the mailbox: an append is a deposit, a round a
  collection, an `ack` a removal, and a sweep and a lost acknowledgement change nothing one could see.

The inductive invariant is `IInv`, the conjunction of `Typed`, `Intact`, `KeptAlive`, `QueueBound`,
`AbandonedMailGoes` and `Asked`. `NoLoss` alone is not inductive: an `ack` keeps what a *fresh* `drain`
returns, so one needs that lines are intact and carry the identifiers and times they were accepted with
(`Intact`), that an accepted envelope which is neither removed nor expired has its line (`KeptAlive`), and
that a round only holds ids its recipient was given (`Asked`), without which a removal could be
one the mailbox does not allow. Files are finite sets, which `Typed` carries for `QueueBound`'s cardinalities.

`DirectoryProofs`, for any handles, keys and serials and any faults, assuming `OneLoad`, that no two loads
overlap:

* `TypeCorrect`, `RevocationLasts` and `SerialNeverGoesBack`: `TypeOK`, `RevokedStaysOut`, `NeverRollsBack`.

`OneLoad` is needed: `DirectoryOverlap` is the counterexample without it. The inductive invariant is `TypeOK`
with `Grows` (revocations only accumulate from a version to a later one), `InUse` (the directory in use
is the accepted part of the cached one) and `Fresh` (a load that passed the rollback check is still no older
than the serial in use, since no other load can have ended in between).

`LocalStoreProofs`, for any events, passphrases, backups and evictions, assuming `OneHandler`, that one handler of the lock
screen runs at a time (`LocalStoreButtons` is the counterexample without it):

* `TypeCorrect`, `PassphraseGoesOnOpening`, `RowsStayReadable`, `NoEventIsLost`, `BackupsAreConsistent`: every
  invariant of the run.

The inductive invariant says what a store that is being initialised is (`Underway`: empty, locked, and with a key in the making that is newer
than any key in a file, `KeysAreGivenOut`), so that every file, every row an export has read and every row a restore has
still to put was either made under the data key in use, and then opens with it, or has no row under that key (`FilesBelong`); and that the
session is ahead of all of them unless a restore set it back (`SessionIsAhead`).

`RelayProofs`, for any members, faults and bounds, from `RelayBounds` alone:

* `TypeCorrect`, `MapIsExact`, `WakeupsAreKept`, `ChangesArePickedUp`: `TypeOK`, `OnlineIsExact`, `NoLostWakeup`,
  `DirectoryPickedUp`.
* `QueueIsMail`: `Spec => Mail!Spec`. What the relay does to the queue is what `RelayMail` has, so that what is proved of a
  queue holds of the relay's.

`OnlineIsExact` is inductive with the types: a member's entry is replaced and its old connection closed in one stretch of code.
`NoLostWakeup` needs it, since the nudge goes to the connection in the map; the proof restates it for every identifier in a queue
(`Told`). `DirectoryPickedUp` needs `ListsAreFresh`: what a load begun at the newest change has read is what the file has, a
relay that does not watch the file yet is still loading it, and once the newest load has ended its list is in use, with whatever older loads are still to end.

`RatchetSessionProofs`, for any number of messages, crashes and redeliveries and any `MAX_SKIP`, from `RatchetAssumption` and `BoundsAssumption`, which say that an
absent key is no key, no pair and no message:

* `TypeCorrect`, `NoKeySealsTwice`, `OldKeysAreGone`, `LeaksHeal`: `TypeOK`, `KeysAreFresh`, `ForwardSecrecy`, `Heals`.
* `GenuineMessagesOpen`: `GenuineOpens`, when nothing that was opened is handed over again (`Redelivers = FALSE`). `RatchetReplay` is
  the counterexample otherwise: a second delivery is decrypted with the next key, and moves the chain.

They rest on `RatchetLemmas` and on four invariants, each inductive relative to the ones before it.

* `IInv`: the roots and chains a state in memory or on disk may hold (`Sound`: whose turn it is shows in the length of the root), what the call under way
  works on (`Flow`), that a root holds only pairs their owner has generated (`Births`), that the sending chain is past what was handed over
  (`Aheads`) and the receiving side past what was opened (`AllPassed`), on disk except for the message that was opened and not saved yet. It gives
  `TypeOK`, `KeysAreFresh` and `ForwardSecrecy`; `KeysAreFresh` is among its conjuncts.
* `AgeInv`: the pairs of a member in the roots it knows of are no younger than the pair it sends under, and one pair begins one chain. So whoever holds
  an old state misses a secret of every root to come, which is `Heals`.
* `OrderInv`: the roots of a member are stages of one sequence (`Ordered`), and the numbers `n` and `pn` of its messages account for the distance
  between any two of them (`Counted`), so that a call that would skip more than `MAX_SKIP` keys has as many messages missing.
* `OpenInv`: a state is at most one root ahead of the peer's disk (`Fed`), over crashes of either, and what it has not opened it can still open (`Opens`),
  from the chain, the skipped keys or a ratchet step. It gives `GenuineOpens`.

`MessagingProofs`, for any members, prekeys and order of deliveries:

* `PrekeysAreSingleUse`: `OpksAreSingleUse`, from `MessagingBounds` alone. It needs `UsesAreBurnt`: a prekey used in the present run of the
  app is no longer in memory. A restart brings it back and begins another run, which is why the property stops there (`MessagingOpkRestart`).
* `TypeCorrect`: `TypeOK`, and `PeersShareSessions`: `PeersAgree`. The invariant `PeerInv` names the session that the member who wrote first has saved:
  everything the two have of each other, in memory, in the store and in letters, descends from that one (`Descends`, `Letters`), and what is saved
  is in memory, further on perhaps (`SavedIsOpen`). The ratchet matters for one thing, that `encrypt` and `decrypt`, throwing or not, keep
  the first secret of the root. Two hypotheses: `NullIsNoSession`, that an absent session is not a session record, and for `PeersAgree`
  `OneDirection`, that of two members at most one writes to the other unasked; `MessagingCrossing` is the counterexample without it.
* `OnlyOrphansAreDropped`: `DropsAreOrphans`, and `WhatHasASessionOpens`: `decrypt` refuses nothing that reaches it. Under the hypotheses above and
  `SkipsSuffice`, that nobody encrypts more than `MAX_SKIP` messages (256 in the code): beyond that `skipMessageKeys` may
  refuse. The hypothesis is needed: with `MAX_SKIP = 1` and 4 messages in the run's configuration, two of which wait in the outbox, TLC finds the fourth refused.
  The invariant is `TalkInv`. Each conversation is seen from its two ends (`Engaged`), the second of which may have no session yet: then it is taken to
  be at the one that its prekey message will make (`At`). An end keeps what it sent on one sequence of roots (`Own`), and can open whatever the other
  has in hand, in its outbox or in the queue and was not opened (`Heard`), which `Together` says of all ends at once. It needs that an envelope is in one
  place, once (`OnePlace`), that no two carry one message (`Distinct`), that a session is saved before its message leaves (`sessions = saved` between calls,
  so that a restart takes nothing back), and that the secret of a session names the two members it was made for (`Origins`), by which an
  envelope that is thrown away and one that was opened would have to be of one conversation. `SendTalks` and `OpenTalks` reduce a call of `send` or `_onEnvelope`
  to one call of `encrypt` or `decrypt` (`EncryptingBoth`, `DecryptingBoth` of `RatchetLemmas`); the other actions only move envelopes or lose them (`QuietKeeps`).

`TransportProofs`, about three modules, each from its own assumption (`OutboxAssumption`, `ConnectionBounds`, `NegotiationAssumption`) alone.

For any messages, any number of flushes and mishaps:

* `OutboxTypeCorrect`, `NoneIsForgotten`, `RepeatsHaveReasons`: `OutboxTypeOK`, `NothingForgotten`, `RepeatsAreExcused`.
  `NothingForgotten` is about calls that returned, not about those that threw or were cut off, nor about the data channel. It needs `Answered`: what a flush removes is what the relay answered for. `RepeatsAreExcused` needs
  that a message without an excuse is with one flush at most (`OneFlush`), with none while its own call goes on (`Apart`), and
  that nothing will post it once the relay has it (`OnceIsEnough`).

For any number of sockets, transports and outages:

* `ConnectionTypeCorrect`, `NeverGivesUp`: `ConnectionTypeOK`, `KeepsTrying`. The safety half of `Settles`: it needs that a transport's `this.ws` is a
  socket of its own that has not ended (`Owned`), so that the close of another one does not count, and that the transport in use is never the one
  that was stopped (`InUse`), or `onclose` would leave no timer. A socket that the relay holds without hearing of its end
  is one the app has closed (`Deaf`), so its end takes nothing from the transport.

For any number of calls of `openChannel` and of lost signals:

* `NegotiationTypeCorrect`: `NegotiationTypeOK`. A description is pending exactly while its end is not stable, whatever crosses, is rolled back or
  is lost; it needs that every operation waiting on a connection is about a transport that somebody offered (`NegotiationInv`).

Only model-checked: `GlareResolves` of `Negotiation` (which is about a few calls, see section 3), `MessagesGetThrough` of
`WsFrames`, which is recursive, `KeyPerMessage` of `RatchetAwait`, which does not hold, and liveness (`MailReachesOnline`, `Settles`, `ListedIsSent`), which is out of
the prover's reach together with ENABLED and with induction over data.

## 5. What is not modelled, and why

* The service worker: it serves the shell from a cache and shows a notification; neither the directory, nor the relay, nor the
  store is behind it. Several tabs with one handle: they would share the store without any of the code's guards.
* A peer connection that fails and is made anew (transport.js:116-119), and the data channels of a Transport that was stopped.
* A passphrase mistyped at a restore on an empty device initialises the store with it (app.js:99-104): a `Passphrase` like any
  other in `LocalStore`, where the import then fails.
* Overlapping calls of `respond` (x3dh.js:97-100): `Messaging` takes one call at a time per app.
* The return of an app to the foreground (`app.js:467-469`) starts one more inbox round; it only adds to
  what `Relay` has, and ends the state `RelayStranded` shows.
* The authentication window (`relay.mjs:62`), sizes (`relay.mjs:228-236`, a refusal like any other here), `/health` and
  the relay's copy of `/v1/directory`, which no client uses.
* Screens, enrolment form, safety numbers, provisioning, CI: no protocol state.
* Cryptographic strength.

## 6. Plan

Done in this order: the queue and its abstract mailbox, the ratchet and its session, the relay around the
queue, how sessions begin, the directory; then the calls that overlap on a session, the outbox, the connection, the
negotiation, the store with backup and restore, the frame parser, and the proofs of the outbox, the store, the
relay, the session, how sessions begin and go on, the connection and the negotiation. What is left:

1. `Messaging` with overlapping calls: two prekey messages opened at once, and the index in `respond`.
2. `ServiceWorker`: shells of mixed versions (sw.js:23-66).
