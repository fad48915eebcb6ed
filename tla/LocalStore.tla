------------------------------ MODULE LocalStore ------------------------------
(***************************************************************************)
(* The store of one device (client/db/store.js) with the lock screen that  *)
(* opens it (client/app.js): the passphrase and the data key it wraps, the *)
(* event log and the session sealed under that key, backup and restore.    *)
(* A put is one transaction; between two of them the page may be reloaded  *)
(* or die.  Keys and salts are numbers nobody used before, and a sealed    *)
(* row is known by the key that opens it.                                  *)
(***************************************************************************)
EXTENDS Naturals, FiniteSets

CONSTANTS
  Event,       \* messages sent or received
  Passphrase,
  Null,
  Handler,     \* lock screen handlers that may run at once: its two buttons
  MaxBackups,  \* bound: exports
  MaxLives,    \* bound: how often the page is loaded again or the store evicted
  MaxSteps     \* bound: steps of the session

ASSUME StoreAssumption ==
  /\ MaxBackups \in Nat /\ MaxLives \in Nat /\ MaxSteps \in Nat
  /\ Null \notin Passphrase \cup Nat \cup [pw : Passphrase, salt : Nat, dek : Nat]

VARIABLES
  salt, wrapped,  \* the meta store: the salt; the data key, and what wraps it
  events,         \* the events store: [key, need] by id
  session,        \* the sessions store: [key, at], how far the ratchet went
  dek,            \* the data key in memory, Null while locked
  asked,          \* asked[h]: a lock screen handler between its awaits
  open,           \* has the app started its transport?
  shown,          \* has the lock screen been left?
  ratchet,        \* the session in memory
  sending,        \* events written whose message is not sealed yet
  unlogged,       \* received events whose appendEvent is not done: [id, need]
  exporting,      \* a running exportBackup: the rows it has read
  importing,      \* a running importBackup: the rows it has not put yet
  backups,        \* the files exported so far
  fresh,          \* the next number nobody used
  lives,
  \* History, read by the properties only.
  logged,         \* events written since the store was last evicted
  restored,       \* rows a restore that was reported as done has put
  foreign,        \* what restores have put from files made under another data
                  \* key: rows, and whether the session
  sealed,         \* keys of the session that have sealed a message, and again
  setBack         \* has a restore put an older session in the place of a newer?

vars == <<salt, wrapped, events, session, dek, asked, open, shown, ratchet, sending,
          unlogged, exporting, importing, backups, fresh, lives, logged, restored, foreign,
          sealed, setBack>>
meta == <<salt, wrapped>>
history == <<logged, restored, foreign, sealed, setBack>>

NoCall == [pc |-> "idle", pw |-> Null, file |-> Null, salt |-> 0]
NoSession == [key |-> 0, at |-> 0]
NoRows == [e \in {} |-> 0]

Session == [key : Nat, at : Nat]
AreRows(rows) ==
  DOMAIN rows \subseteq Event /\ \A e \in DOMAIN rows : rows[e] \in [key : Nat, need : Nat]
IsFile(b) == b.pw \in Passphrase /\ b.dek \in Nat /\ AreRows(b.rows) /\ b.session \in Session

TypeOK ==
  /\ salt \in Nat /\ wrapped \in [pw : Passphrase, salt : Nat, dek : Nat] \cup {Null}
  /\ AreRows(events) /\ session \in Session /\ \A b \in backups : IsFile(b)
  /\ dek \in Nat \cup {Null} /\ open \in BOOLEAN /\ shown \in BOOLEAN /\ ratchet \in Nat
  /\ (shown => open) /\ (open => dek # Null)
  /\ asked \in [Handler -> [pc : {"idle", "deriving", "salted"}, pw : Passphrase \cup {Null},
                            file : backups \cup {Null}, salt : Nat]]
  /\ \A h \in Handler : asked[h].pc # "idle" => asked[h].pw # Null
  /\ sending \subseteq Event /\ unlogged \subseteq [id : Event, need : Nat]
  /\ exporting # Null => /\ exporting.pw \in Passphrase /\ exporting.dek \in Nat
                         /\ AreRows(exporting.rows)
  /\ importing # Null => /\ importing.dek \in Nat /\ AreRows(importing.rows)
                         /\ importing.session \in Session /\ importing.done \subseteq Event
  /\ (importing # Null \/ exporting # Null) => dek # Null
  /\ fresh \in Nat \ {0} /\ lives \in 0 .. MaxLives
  /\ logged \subseteq Event /\ restored \subseteq Event /\ setBack \in BOOLEAN
  /\ foreign \in [rows : SUBSET Event, session : BOOLEAN]
  /\ sealed \in [once : SUBSET Nat, again : SUBSET Nat]

Init ==
  /\ salt = 0 /\ wrapped = Null /\ events = NoRows /\ session = NoSession
  /\ dek = Null /\ asked = [h \in Handler |-> NoCall] /\ open = FALSE /\ shown = FALSE
  /\ ratchet = 0 /\ sending = {} /\ unlogged = {} /\ exporting = Null /\ importing = Null
  /\ backups = {} /\ fresh = 1 /\ lives = 0
  /\ logged = {} /\ restored = {} /\ foreign = [rows |-> {}, session |-> FALSE]
  /\ sealed = [once |-> {}, again |-> {}] /\ setBack = FALSE

\* put and delete.
With(rows, e, row) == [x \in DOMAIN rows \cup {e} |-> IF x = e THEN row ELSE rows[x]]
Without(rows, e) == [x \in DOMAIN rows \ {e} |-> rows[x]]

-----------------------------------------------------------------------------
\* afterUnlock: the transport starts, and reads session t when it needs it; the
\* list is shown unless the last row of a conversation does not open.
Start(key, rows, t) ==
  /\ open' = TRUE /\ ratchet' = t.at
  /\ shown' \in {shows \in BOOLEAN :
        IF shows THEN DOMAIN rows = {} \/ \E e \in DOMAIN rows : rows[e].key = key
                 ELSE \E e \in DOMAIN rows : rows[e].key # key}

\* The store is open with data key `key`.  Without a file the app starts;
\* importBackup has to open the file first.
Proceed(key, pw, file) ==
  \/ /\ file = Null
     /\ Start(key, events, session) /\ UNCHANGED importing
  \/ /\ file # Null /\ file.pw = pw
     /\ importing' = [dek |-> file.dek, rows |-> file.rows, session |-> file.session, done |-> {}]
     /\ UNCHANGED <<open, shown, ratchet>>
  \/ /\ file # Null /\ file.pw # pw
     /\ UNCHANGED <<open, shown, ratchet, importing>>

\* The definitions named Bug... are not the code: each is a mistake that could
\* have been made at the definition that follows it, and breaks a property.
BugUnlock(h, pw, file) ==
  /\ ~shown /\ importing = Null /\ asked[h] = NoCall
  /\ asked' = [asked EXCEPT ![h] =
             [pc |-> "deriving", pw |-> pw, file |-> file, salt |-> 0]]
  /\ UNCHANGED <<meta, events, session, dek, open, shown, ratchet, sending, unlogged,
                 exporting, importing, backups, fresh, lives, history>>

\* The unlock button, or the restore button with a file: isInitialised, and
\* then initialise, or unlock with all its steps.
Unlock(h, pw, file) ==
  /\ ~shown /\ importing = Null /\ asked[h] = NoCall
  /\ \/ /\ wrapped = Null
        /\ asked' = [asked EXCEPT ![h] =
             [pc |-> "deriving", pw |-> pw, file |-> file, salt |-> 0]]
        /\ UNCHANGED <<dek, open, shown, importing, ratchet>>
     \/ /\ wrapped # Null /\ wrapped.pw = pw /\ wrapped.salt = salt
        /\ dek' = wrapped.dek
        /\ Proceed(dek', pw, file)
        /\ UNCHANGED asked
  /\ UNCHANGED <<meta, events, session, sending, unlogged, exporting, backups, fresh, lives,
                 history>>

\* initialise: the first put.  The data key and its wrapping are ready by then.
PutSalt(h) ==
  /\ asked[h].pc = "deriving"
  /\ salt' = fresh
  /\ asked' = [asked EXCEPT ![h] = [pc |-> "salted", pw |-> @.pw, file |-> @.file, salt |-> fresh]]
  /\ fresh' = fresh + 1
  /\ UNCHANGED <<wrapped, events, session, dek, open, shown, ratchet, sending, unlogged, exporting,
                 importing, backups, lives, history>>

\* initialise: the second put, and the caller goes on.
PutWrapped(h) ==
  /\ asked[h].pc = "salted"
  /\ wrapped' = [pw |-> asked[h].pw, salt |-> asked[h].salt, dek |-> asked[h].salt]
  /\ dek' = asked[h].salt
  /\ Proceed(dek', asked[h].pw, asked[h].file)
  /\ asked' = [asked EXCEPT ![h] = NoCall]
  /\ UNCHANGED <<salt, events, session, sending, unlogged, exporting, backups, fresh, lives,
                 history>>

BugImportRow(e) ==
  /\ importing # Null /\ e \in DOMAIN importing.rows
  /\ events' = importing.rows
  /\ importing' = [importing EXCEPT !.rows = NoRows, !.done = DOMAIN importing.rows]
  /\ UNCHANGED <<meta, session, dek, asked, open, shown, ratchet, sending, unlogged, exporting,
                 backups, fresh, lives, history>>

\* importBackup puts the rows one by one, as they are.
ImportRow(e) ==
  /\ importing # Null /\ e \in DOMAIN importing.rows
  /\ events' = With(events, e, importing.rows[e])
  /\ importing' = [dek |-> importing.dek, rows |-> Without(importing.rows, e),
                   session |-> importing.session, done |-> importing.done \cup {e}]
  /\ foreign' = IF importing.dek = dek THEN foreign ELSE [foreign EXCEPT !.rows = @ \cup {e}]
  /\ UNCHANGED <<meta, session, dek, asked, open, shown, ratchet, sending, unlogged, exporting,
                 backups, fresh, lives, logged, restored, sealed, setBack>>

\* importBackup puts the session, the user is told, and the app starts.
EndImport ==
  /\ importing # Null /\ DOMAIN importing.rows = {}
  /\ session' = IF importing.session = NoSession THEN session ELSE importing.session
  /\ Start(dek, events, session')
  /\ restored' = restored \cup importing.done
  /\ setBack' = (setBack \/ session'.at < session.at)
  /\ foreign' = [foreign EXCEPT !.session = @ \/ (session' # session /\ importing.dek # dek)]
  /\ importing' = Null
  /\ UNCHANGED <<meta, events, dek, asked, sending, unlogged, exporting, backups,
                 fresh, lives, logged, sealed>>

-----------------------------------------------------------------------------
\* appendEvent with the row of event e, which needs the session at `need`.
Append(e, need) ==
  /\ events' = With(events, e, [key |-> dek, need |-> need])
  /\ logged' = logged \cup {e}

\* sendCurrent: the event is written, then the session seals and is saved.
SendEvent(e) ==
  /\ shown /\ e \notin logged
  /\ Append(e, 0)
  /\ sending' = sending \cup {e}
  /\ UNCHANGED <<meta, session, dek, asked, open, shown, ratchet, unlogged, exporting,
                 importing, backups, fresh, lives, restored, foreign, sealed, setBack>>

\* The ratchet steps and is saved, if the stored session opens.
Step ==
  /\ open /\ ratchet < MaxSteps
  /\ session = NoSession \/ session.key = dek
  /\ ratchet' = ratchet + 1
  /\ session' = [key |-> dek, at |-> ratchet + 1]

\* send: the sealing of a message that is in the log.
SealEvent(e) ==
  /\ Step /\ e \in sending /\ sending' = sending \ {e}
  /\ sealed' = [once |-> sealed.once \cup {ratchet + 1},
                again |-> sealed.again \cup ({ratchet + 1} \cap sealed.once)]
  /\ UNCHANGED <<meta, events, dek, asked, open, shown, unlogged, exporting, importing,
                 backups, fresh, lives, logged, restored, foreign, setBack>>

BugOpenEvent(e) ==
  /\ open /\ ratchet < MaxSteps /\ ratchet' = ratchet + 1
  /\ e \notin logged /\ \A u \in unlogged : u.id # e
  /\ unlogged' = unlogged \cup {[id |-> e, need |-> ratchet + 1]}
  /\ UNCHANGED <<meta, events, session, dek, asked, open, shown, sending, exporting,
                 importing, backups, fresh, lives, history>>

\* _onEnvelope: the session has opened a message and is saved; the listener's
\* appendEvent is on its way.
OpenEvent(e) ==
  /\ Step /\ e \notin logged /\ \A u \in unlogged : u.id # e
  /\ unlogged' = unlogged \cup {[id |-> e, need |-> ratchet + 1]}
  /\ UNCHANGED <<meta, events, dek, asked, open, shown, sending, exporting, importing, backups,
                 fresh, lives, history>>

LogEvent(u) ==
  /\ Append(u.id, u.need)
  /\ unlogged' = unlogged \ {u}
  /\ UNCHANGED <<meta, session, dek, asked, open, shown, ratchet, sending, exporting, importing,
                 backups, fresh, lives, restored, foreign, sealed, setBack>>

\* exportBackup has read the events.
StartExport(pw) ==
  /\ shown /\ exporting = Null /\ Cardinality(backups) < MaxBackups
  /\ exporting' = [pw |-> pw, dek |-> dek, rows |-> events]
  /\ UNCHANGED <<meta, events, session, dek, asked, open, shown, ratchet, sending, unlogged,
                 importing, backups, fresh, lives, history>>

\* exportBackup has read the session too, and the file is saved.
EndExport ==
  /\ exporting # Null
  /\ backups' = backups \cup {[pw |-> exporting.pw, dek |-> exporting.dek,
                            rows |-> exporting.rows, session |-> session]}
  /\ exporting' = Null
  /\ UNCHANGED <<meta, events, session, dek, asked, open, shown, ratchet, sending, unlogged,
                 importing, fresh, lives, history>>

-----------------------------------------------------------------------------
BugNewPage ==
  /\ lives < MaxLives /\ lives' = lives + 1
  /\ dek' = Null /\ asked' = [h \in Handler |-> NoCall] /\ open' = FALSE /\ shown' = FALSE
  /\ ratchet' = 0 /\ sending' = {} /\ unlogged' = {} /\ exporting' = Null
  /\ importing' = importing

NewPage ==
  /\ lives < MaxLives /\ lives' = lives + 1
  /\ dek' = Null /\ asked' = [h \in Handler |-> NoCall] /\ open' = FALSE /\ shown' = FALSE
  /\ ratchet' = 0 /\ sending' = {} /\ unlogged' = {} /\ exporting' = Null
  /\ importing' = Null

\* The lock button, or the page dies, and it is loaded again.
Reload ==
  /\ NewPage
  /\ UNCHANGED <<meta, events, session, backups, fresh, history>>

\* The browser evicts the store, or the device is a new one: sessions begin anew.
Evict ==
  /\ NewPage
  /\ salt' = 0 /\ wrapped' = Null /\ events' = NoRows /\ session' = NoSession
  /\ logged' = {} /\ restored' = {} /\ foreign' = [rows |-> {}, session |-> FALSE]
  /\ sealed' = [sealed EXCEPT !.once = {}]
  /\ UNCHANGED <<backups, fresh, setBack>>

Next ==
  \/ \E h \in Handler, pw \in Passphrase, file \in backups \cup {Null} : Unlock(h, pw, file)
  \/ \E h \in Handler : PutSalt(h) \/ PutWrapped(h)
  \/ \E e \in Event : ImportRow(e) \/ SendEvent(e) \/ SealEvent(e) \/ OpenEvent(e)
  \/ EndImport
  \/ \E u \in unlogged : LogEvent(u)
  \/ \E pw \in Passphrase : StartExport(pw)
  \/ EndExport \/ Reload \/ Evict

Spec == Init /\ [][Next]_vars

-----------------------------------------------------------------------------
(* Whenever there is a wrapped data key, the passphrase it was wrapped     *)
(* with opens it: the salt next to it is the one it was wrapped under,     *)
(* wherever the page died (store.js:85-107).                               *)
PassphraseOpens == wrapped # Null => wrapped.salt = salt

(* Every row of the event log and the session open with the stored data    *)
(* key, so that the conversations can be listed: after a restore, and      *)
(* after one that was broken off, too.  Only a file made under another     *)
(* data key brings in rows that do not (store.js:143-155, 164-177,         *)
(* 246-266; app.js:97-110).                                                *)
RowsReadable ==
  /\ \A e \in DOMAIN events \ foreign.rows : wrapped # Null /\ events[e].key = wrapped.dek
  /\ session # NoSession /\ ~foreign.session => wrapped # Null /\ session.key = wrapped.dek

(* A restore merges: no event written before or after the backup is lost   *)
(* by it (store.js:257-264).                                               *)
NothingIsLost == logged \subseteq DOMAIN events

(* A received event that is in a backup, and can be read, has its session  *)
(* in it, at least as far as it was when that event was opened, although   *)
(* the app goes on receiving between the export's readings; only a restore *)
(* that set the session back may part them (store.js:227-230,              *)
(* transport.js:327-331).                                                  *)
BackupIsConsistent ==
  setBack \/ \A b \in backups : \A e \in DOMAIN b.rows :
               b.rows[e].key = b.dek => b.rows[e].need <= b.session.at

(* store.js:221: a backup is "the ONLY recovery path".  What a restore     *)
(* has brought back, and reported as restored, can be read.                *)
RestoreRecovers == \A e \in restored : events[e].key = wrapped.dek

(* README.md:37: "Every message gets a fresh key".                         *)
NoKeyTwice == sealed.again = {}
===============================================================================
