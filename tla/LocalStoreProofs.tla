--------------------------- MODULE LocalStoreProofs ---------------------------
(***************************************************************************)
(* What LocalStore promises, for any events, passphrases and bounds, when  *)
(* one lock screen handler runs at a time (OneHandler); with two of them   *)
(* PassphraseOpens does not hold (LocalStoreButtons.cfg).                  *)
(*                                                                         *)
(* Everything rests on Underway: while a store is being initialised it is  *)
(* empty and locked, and the key in the making is newer than any key that  *)
(* a backup knows.  So a file was either made under the data key in use,   *)
(* and then its rows are like the log's own, or it has nothing sealed      *)
(* under that key (FilesBelong).  That no backup is ahead of its session   *)
(* needs the same of the log, of what is not logged yet, and of the rows   *)
(* that an export has read or a restore has still to put (SessionIsAhead). *)
(***************************************************************************)
EXTENDS LocalStore, TLAPS

OneHandler == \A g, h \in Handler : g = h

\* The data key d of a file, and the keys of its rows, are older than n.
OlderThan(n, d, rows) == d < n /\ \A e \in DOMAIN rows : rows[e].key < n

\* What is in memory belongs to the stored data key.
Unlocked ==
  /\ dek # Null => wrapped # Null /\ dek = wrapped.dek
  /\ unlogged # {} => open
  /\ exporting # Null => exporting.dek = dek

\* A store that is being initialised is empty.
Underway ==
  /\ wrapped = Null => events = NoRows /\ session = NoSession
  /\ wrapped # Null => wrapped.dek < fresh
  /\ \A h \in Handler : asked[h].pc # "idle" => wrapped = Null
  /\ \A h \in Handler : asked[h].pc = "salted" =>
       /\ asked[h].salt = salt /\ salt < fresh
       /\ \A b \in backups : OlderThan(salt, b.dek, b.rows)

\* Keys in use, and those in files, have been given out.
KeysAreGivenOut ==
  /\ \A b \in backups : OlderThan(fresh, b.dek, b.rows)
  /\ \A e \in DOMAIN events : events[e].key < fresh
  /\ exporting # Null => OlderThan(fresh, exporting.dek, exporting.rows)
  /\ importing # Null => OlderThan(fresh, importing.dek, importing.rows)

\* Rows from a file with data key d: its own, or none of the present key.
Belong(d, rows) ==
  wrapped # Null =>
    IF d = wrapped.dek THEN \A e \in DOMAIN rows \ foreign.rows : rows[e].key = d
                       ELSE \A e \in DOMAIN rows : rows[e].key # wrapped.dek

\* A session from a file with data key d opens with that key.
Opens(d, s) ==
  wrapped # Null /\ d = wrapped.dek /\ s # NoSession /\ ~foreign.session => s.key = d

FilesBelong ==
  /\ \A b \in backups : Belong(b.dek, b.rows) /\ Opens(b.dek, b.session)
  /\ exporting # Null => Belong(exporting.dek, exporting.rows)
  /\ importing # Null => /\ Belong(importing.dek, importing.rows)
                         /\ Opens(importing.dek, importing.session)

\* The session is no older than the rows under the present key need.
Reached(rows) ==
  wrapped # Null =>
    \A e \in DOMAIN rows : rows[e].key = wrapped.dek => rows[e].need <= session.at

\* Nor older than a session under the present key.
NoNewer(d, s) == wrapped # Null /\ d = wrapped.dek => s.at <= session.at

SessionIsAhead ==
  /\ open => ratchet = session.at
  /\ setBack \/
     /\ Reached(events) /\ \A u \in unlogged : u.need <= session.at
     /\ \A b \in backups : Reached(b.rows) /\ NoNewer(b.dek, b.session)
     /\ exporting # Null => Reached(exporting.rows)
     /\ importing # Null => Reached(importing.rows) /\ NoNewer(importing.dek, importing.session)

Keys == PassphraseOpens /\ NothingIsLost /\ Unlocked /\ Underway /\ KeysAreGivenOut
Rows == RowsReadable /\ FilesBelong
Sessions == SessionIsAhead /\ BackupIsConsistent
IInv == TypeOK /\ Keys /\ Rows /\ Sessions

-----------------------------------------------------------------------------
LEMMA Starts == Init => IInv
<1> SUFFICES ASSUME Init PROVE IInv
  OBVIOUS
<1> USE StoreAssumption DEF Init, NoRows, NoSession, NoCall
<1>1. TypeOK
  <2>1. AreRows(events) /\ session \in Session /\ lives \in 0 .. MaxLives
    BY DEF AreRows, Session
  <2>2. /\ asked \in [Handler -> [pc : {"idle", "deriving", "salted"}, pw : Passphrase \cup {Null},
                                file : backups \cup {Null}, salt : Nat]]
        /\ \A h \in Handler : asked[h].pc = "idle"
    OBVIOUS
  <2>3. foreign \in [rows : SUBSET Event, session : BOOLEAN]
        /\ sealed \in [once : SUBSET Nat, again : SUBSET Nat]
    OBVIOUS
  <2>4. exporting = Null /\ importing = Null /\ ~open /\ ~shown /\ ~setBack /\ backups = {}
    BY Zenon
  <2>5. /\ salt \in Nat /\ fresh \in Nat \ {0} /\ wrapped = Null /\ dek = Null /\ ratchet \in Nat
        /\ sending \subseteq Event /\ unlogged \subseteq [id : Event, need : Nat]
        /\ restored \subseteq Event /\ logged \subseteq Event
    OBVIOUS
  <2>6. open \in BOOLEAN /\ shown \in BOOLEAN /\ setBack \in BOOLEAN
    OBVIOUS
  <2> HIDE DEF Init
  <2> QED
    BY <2>1, <2>2, <2>3, <2>4, <2>5, <2>6 DEF TypeOK
<1>2. Keys
  BY DEF Keys, PassphraseOpens, NothingIsLost, Unlocked, Underway, KeysAreGivenOut
<1>3. Rows
  BY DEF Rows, RowsReadable, FilesBelong
<1>4. Sessions
  BY DEF Sessions, SessionIsAhead, BackupIsConsistent, Reached
<1> QED
  BY <1>1, <1>2, <1>3, <1>4 DEF IInv

\* Every step leaves values in their sets.
LEMMA Types == ASSUME TypeOK, Unlocked, [Next]_vars PROVE TypeOK'
<1> USE StoreAssumption DEF TypeOK, Unlocked, IsFile, AreRows, Session
<1>1. ASSUME NEW h \in Handler, NEW pw \in Passphrase, NEW file \in backups \cup {Null},
            Unlock(h, pw, file) PROVE TypeOK'
  <2>1. CASE wrapped = Null
    BY <1>1, <2>1 DEF Unlock, NoCall, meta, history
  <2>2. CASE wrapped # Null /\ file = Null
    <3> dek' \in Nat /\ dek' # Null /\ Start(dek', events, session) /\ UNCHANGED importing
      BY <1>1, <2>2 DEF Unlock, Proceed
    <3> QED
      BY <1>1, <2>2 DEF Unlock, Start, meta, history
  <2>3. CASE wrapped # Null /\ file # Null
    BY <1>1, <2>3 DEF Unlock, Proceed, meta, history
  <2> QED
    BY <2>1, <2>2, <2>3
<1>2. ASSUME NEW h \in Handler, PutSalt(h) PROVE TypeOK'
  BY <1>2 DEF PutSalt, history
<1>3. ASSUME NEW h \in Handler, PutWrapped(h) PROVE TypeOK'
  <2> asked[h] \in [pc : {"idle", "deriving", "salted"}, pw : Passphrase \cup {Null},
                   file : backups \cup {Null}, salt : Nat]
    OBVIOUS
  <2> asked[h].pw \in Passphrase /\ asked[h].salt \in Nat
      /\ asked' = [asked EXCEPT ![h] = NoCall]
    BY <1>3 DEF PutWrapped
  <2>1. CASE asked[h].file = Null
    <3> /\ dek' \in Nat /\ Start(dek', events, session) /\ UNCHANGED importing
        /\ wrapped' \in [pw : Passphrase, salt : Nat, dek : Nat]
      BY <1>3, <2>1 DEF PutWrapped, Proceed
    <3> asked' \in [Handler -> [pc : {"idle", "deriving", "salted"}, pw : Passphrase \cup {Null},
                                file : backups \cup {Null}, salt : Nat]]
      BY DEF NoCall
    <3> \A g \in Handler : asked'[g].pc # "idle" => asked'[g].pw # Null
      BY DEF NoCall
    <3> QED
      BY <1>3, <2>1 DEF PutWrapped, Start, NoCall, history
  <2>2. CASE asked[h].file # Null
    BY <1>3, <2>2 DEF PutWrapped, Proceed, NoCall, history
  <2> QED
    BY <2>1, <2>2
<1>4. ASSUME NEW e \in Event, ImportRow(e) PROVE TypeOK'
  BY <1>4 DEF ImportRow, With, Without, meta
<1>5. ASSUME EndImport PROVE TypeOK'
  BY <1>5 DEF EndImport, Start, meta
<1>6. ASSUME NEW e \in Event, SendEvent(e) PROVE TypeOK'
  BY <1>6 DEF SendEvent, Append, With, meta
<1>7. ASSUME NEW e \in Event, SealEvent(e) PROVE TypeOK'
  BY <1>7 DEF SealEvent, Step, meta
<1>8. ASSUME NEW e \in Event, OpenEvent(e) PROVE TypeOK'
  BY <1>8 DEF OpenEvent, Step, meta, history
<1>9. ASSUME NEW u \in unlogged, LogEvent(u) PROVE TypeOK'
  BY <1>9 DEF LogEvent, Append, With, meta
<1>10. ASSUME NEW pw \in Passphrase, StartExport(pw) PROVE TypeOK'
  BY <1>10 DEF StartExport, meta, history
<1>11. ASSUME EndExport PROVE TypeOK'
  BY <1>11 DEF EndExport, meta, history
<1>12. ASSUME Reload PROVE TypeOK'
  <2> lives' \in 0 .. MaxLives
    BY <1>12 DEF Reload, Evict, NewPage
  <2> QED
    BY <1>12 DEF Reload, NewPage, NoCall, meta, history
<1>13. ASSUME Evict PROVE TypeOK'
  <2> lives' \in 0 .. MaxLives
    BY <1>13 DEF Reload, Evict, NewPage
  <2> QED
    BY <1>13 DEF Evict, NewPage, NoCall, NoRows, NoSession
<1>14. ASSUME UNCHANGED vars PROVE TypeOK'
  BY <1>14 DEF vars, meta, history
<1> HIDE DEF TypeOK, Unlocked, IsFile, AreRows, Session
<1> QED
  BY <1>1, <1>2, <1>3, <1>4, <1>5, <1>6, <1>7, <1>8,
     <1>9, <1>10, <1>11, <1>12, <1>13, <1>14 DEF Next

\* Where the second put of initialise leads from and to.
Wraps(h) ==
  /\ wrapped = Null /\ dek = Null /\ unlogged = {} /\ ~open
  /\ exporting = Null /\ importing = Null
  /\ events = NoRows /\ session = NoSession /\ DOMAIN events = {}
  /\ wrapped' # Null /\ wrapped'.salt = salt /\ wrapped'.dek = salt /\ dek' = salt
  /\ salt < fresh /\ \A b \in backups : OlderThan(salt, b.dek, b.rows)
  /\ \A g \in Handler : asked'[g] = NoCall
  /\ UNCHANGED <<salt, events, session, sending, unlogged, exporting, backups, fresh, history>>
  /\ \/ importing' = Null /\ Start(dek', events, session)
     \/ /\ asked[h].file # Null
        /\ importing' = [dek |-> asked[h].file.dek, rows |-> asked[h].file.rows,
                        session |-> asked[h].file.session, done |-> {}]
        /\ open' = open
     \/ importing' = Null /\ open' = open

LEMMA Wrapping ==
  ASSUME OneHandler, IInv, NEW h \in Handler, PutWrapped(h) PROVE Wraps(h)
<1> USE StoreAssumption DEF IInv, TypeOK, Keys, Unlocked, Underway
<1>1. /\ wrapped = Null /\ dek = Null /\ unlogged = {} /\ ~open
      /\ exporting = Null /\ importing = Null
      /\ events = NoRows /\ session = NoSession /\ DOMAIN events = {}
  BY DEF PutWrapped, NoRows
<1>2. /\ wrapped' # Null /\ wrapped'.salt = salt /\ wrapped'.dek = salt /\ dek' = salt
      /\ salt < fresh /\ \A b \in backups : OlderThan(salt, b.dek, b.rows)
  BY DEF PutWrapped
<1>3. \A g \in Handler : asked'[g] = NoCall
  BY DEF OneHandler, PutWrapped
<1> QED
  BY <1>1, <1>2, <1>3 DEF PutWrapped, Proceed, Wraps

\* Every step keeps what is known of keys, of rows, and of sessions.
LEMMA KeepsKeys == ASSUME OneHandler, IInv, [Next]_vars PROVE Keys'
<1> USE StoreAssumption DEF IInv, TypeOK, Keys, PassphraseOpens, NothingIsLost, Unlocked,
      Underway, KeysAreGivenOut, OlderThan, IsFile, AreRows, Session
<1>1. ASSUME NEW h \in Handler, NEW pw \in Passphrase, NEW file \in backups \cup {Null},
            Unlock(h, pw, file) PROVE Keys'
  <2>1. CASE wrapped = Null
    BY <1>1, <2>1 DEF Unlock, NoCall, meta, history
  <2>2. CASE wrapped # Null /\ file = Null
    <3> dek' \in Nat /\ dek' # Null /\ Start(dek', events, session) /\ UNCHANGED importing
      BY <1>1, <2>2 DEF Unlock, Proceed
    <3> QED
      BY <1>1, <2>2 DEF Unlock, Start, meta, history
  <2>3. CASE wrapped # Null /\ file # Null
    BY <1>1, <2>3 DEF Unlock, Proceed, meta, history
  <2> QED
    BY <2>1, <2>2, <2>3
<1>2. ASSUME NEW h \in Handler, PutSalt(h) PROVE Keys'
  BY <1>2 DEF PutSalt, OneHandler, history
<1>3. ASSUME NEW h \in Handler, PutWrapped(h) PROVE Keys'
  <2> Wraps(h)
    BY <1>3, Wrapping
  <2> QED
    BY DEF Wraps, NoCall, history, Start, NoSession
<1>4. ASSUME NEW e \in Event, ImportRow(e) PROVE Keys'
  BY <1>4 DEF ImportRow, With, Without, meta
<1>5. ASSUME EndImport PROVE Keys'
  BY <1>5 DEF EndImport, Start, meta
<1>6. ASSUME NEW e \in Event, SendEvent(e) PROVE Keys'
  BY <1>6 DEF SendEvent, Append, With, meta
<1>7. ASSUME NEW e \in Event, SealEvent(e) PROVE Keys'
  BY <1>7 DEF SealEvent, Step, meta
<1>8. ASSUME NEW e \in Event, OpenEvent(e) PROVE Keys'
  BY <1>8 DEF OpenEvent, Step, meta, history
<1>9. ASSUME NEW u \in unlogged, LogEvent(u) PROVE Keys'
  BY <1>9 DEF LogEvent, Append, With, meta
<1>10. ASSUME NEW pw \in Passphrase, StartExport(pw) PROVE Keys'
  BY <1>10 DEF StartExport, meta, history
<1>11. ASSUME EndExport PROVE Keys'
  BY <1>11 DEF EndExport, meta, history
<1>12. ASSUME Reload PROVE Keys'
  BY <1>12 DEF Reload, NewPage, NoCall, meta, history
<1>13. ASSUME Evict PROVE Keys'
  BY <1>13 DEF Evict, NewPage, NoCall, NoRows, NoSession
<1>14. ASSUME UNCHANGED vars PROVE Keys'
  BY <1>14 DEF vars, meta, history
<1> HIDE DEF IInv, TypeOK, Keys, PassphraseOpens, NothingIsLost, Unlocked, Underway,
      KeysAreGivenOut, OlderThan, IsFile, AreRows, Session
<1> QED
  BY <1>1, <1>2, <1>3, <1>4, <1>5, <1>6, <1>7, <1>8,
     <1>9, <1>10, <1>11, <1>12, <1>13, <1>14 DEF Next

LEMMA KeepsRows == ASSUME OneHandler, IInv, [Next]_vars PROVE Rows'
<1> USE StoreAssumption DEF IInv, TypeOK, Keys, Rows, Unlocked, Underway, KeysAreGivenOut,
      OlderThan, RowsReadable, FilesBelong, Belong, Opens, IsFile, AreRows, Session
<1>1. ASSUME NEW h \in Handler, NEW pw \in Passphrase, NEW file \in backups \cup {Null},
            Unlock(h, pw, file) PROVE Rows'
  <2>1. CASE wrapped = Null
    BY <1>1, <2>1 DEF Unlock, NoCall, meta, history
  <2>2. CASE wrapped # Null /\ file = Null
    <3> dek' \in Nat /\ dek' # Null /\ Start(dek', events, session) /\ UNCHANGED importing
      BY <1>1, <2>2 DEF Unlock, Proceed
    <3> QED
      BY <1>1, <2>2 DEF Unlock, Start, meta, history
  <2>3. CASE wrapped # Null /\ file # Null
    BY <1>1, <2>3 DEF Unlock, Proceed, meta, history
  <2> QED
    BY <2>1, <2>2, <2>3
<1>2. ASSUME NEW h \in Handler, PutSalt(h) PROVE Rows'
  BY <1>2 DEF PutSalt, history
<1>3. ASSUME NEW h \in Handler, PutWrapped(h) PROVE Rows'
  <2> Wraps(h)
    BY <1>3, Wrapping
  <2> QED
    BY DEF Wraps, NoCall, history, Start, NoSession
<1>4. ASSUME NEW e \in Event, ImportRow(e) PROVE Rows'
  BY <1>4 DEF ImportRow, With, Without, meta
<1>5. ASSUME EndImport PROVE Rows'
  BY <1>5 DEF EndImport, Start, meta
<1>6. ASSUME NEW e \in Event, SendEvent(e) PROVE Rows'
  BY <1>6 DEF SendEvent, Append, With, meta
<1>7. ASSUME NEW e \in Event, SealEvent(e) PROVE Rows'
  BY <1>7 DEF SealEvent, Step, meta
<1>8. ASSUME NEW e \in Event, OpenEvent(e) PROVE Rows'
  BY <1>8 DEF OpenEvent, Step, meta, history
<1>9. ASSUME NEW u \in unlogged, LogEvent(u) PROVE Rows'
  BY <1>9 DEF LogEvent, Append, With, meta
<1>10. ASSUME NEW pw \in Passphrase, StartExport(pw) PROVE Rows'
  BY <1>10 DEF StartExport, meta, history
<1>11. ASSUME EndExport PROVE Rows'
  BY <1>11 DEF EndExport, meta, history
<1>12. ASSUME Reload PROVE Rows'
  BY <1>12 DEF Reload, NewPage, NoCall, meta, history
<1>13. ASSUME Evict PROVE Rows'
  BY <1>13 DEF Evict, NewPage, NoCall, NoRows, NoSession
<1>14. ASSUME UNCHANGED vars PROVE Rows'
  BY <1>14 DEF vars, meta, history
<1> HIDE DEF IInv, TypeOK, Keys, Rows, Unlocked, Underway, KeysAreGivenOut, OlderThan,
      RowsReadable, FilesBelong, Belong, Opens, IsFile, AreRows, Session
<1> QED
  BY <1>1, <1>2, <1>3, <1>4, <1>5, <1>6, <1>7, <1>8,
     <1>9, <1>10, <1>11, <1>12, <1>13, <1>14 DEF Next

LEMMA KeepsSessions == ASSUME OneHandler, IInv, [Next]_vars PROVE Sessions'
<1> USE StoreAssumption DEF IInv, TypeOK, Keys, Sessions, Unlocked, Underway, KeysAreGivenOut,
      OlderThan, SessionIsAhead, BackupIsConsistent, Reached, NoNewer, IsFile, AreRows, Session
<1>1. ASSUME NEW h \in Handler, NEW pw \in Passphrase, NEW file \in backups \cup {Null},
            Unlock(h, pw, file) PROVE Sessions'
  BY <1>1 DEF Unlock, Proceed, Start, NoCall, meta, history
<1>2. ASSUME NEW h \in Handler, PutSalt(h) PROVE Sessions'
  BY <1>2 DEF PutSalt, history
<1>3. ASSUME NEW h \in Handler, PutWrapped(h) PROVE Sessions'
  <2> Wraps(h)
    BY <1>3, Wrapping
  <2> QED
    BY DEF Wraps, NoCall, history, Start, NoSession
<1>4. ASSUME NEW e \in Event, ImportRow(e) PROVE Sessions'
  BY <1>4 DEF ImportRow, With, Without, meta
<1>5. ASSUME EndImport PROVE Sessions'
  <2>1. /\ importing # Null /\ importing' = Null /\ wrapped # Null /\ dek = wrapped.dek
        /\ session' = session \/ session' = importing.session
        /\ ratchet' = session'.at /\ session.at \in Nat /\ session'.at \in Nat
        /\ UNCHANGED <<wrapped, events, dek, unlogged, exporting, backups>>
    BY <1>5 DEF EndImport, Start, meta
  <2>2. CASE setBack'
    BY <2>1, <2>2
  <2>3. CASE ~setBack'
    <3>1. ~setBack /\ ~(session'.at < session.at)
      BY <1>5, <2>3, Zenon DEF EndImport
    <3> session.at <= session'.at
      BY <2>1, <3>1
    <3>2. ASSUME NEW n \in Nat, n <= session.at PROVE n <= session'.at
      BY <2>1, <3>1, <3>2
    <3> QED
      BY <2>1, <2>3, <3>1, <3>2
  <2> QED
    BY <2>2, <2>3
<1>6. ASSUME NEW e \in Event, SendEvent(e) PROVE Sessions'
  BY <1>6 DEF SendEvent, Append, With, meta
<1>7. ASSUME NEW e \in Event, SealEvent(e) PROVE Sessions'
  BY <1>7 DEF SealEvent, Step, meta
<1>8. ASSUME NEW e \in Event, OpenEvent(e) PROVE Sessions'
  BY <1>8 DEF OpenEvent, Step, meta, history
<1>9. ASSUME NEW u \in unlogged, LogEvent(u) PROVE Sessions'
  BY <1>9 DEF LogEvent, Append, With, meta
<1>10. ASSUME NEW pw \in Passphrase, StartExport(pw) PROVE Sessions'
  BY <1>10 DEF StartExport, meta, history
<1>11. ASSUME EndExport PROVE Sessions'
  BY <1>11 DEF EndExport, meta, history
<1>12. ASSUME Reload PROVE Sessions'
  BY <1>12 DEF Reload, NewPage, NoCall, meta, history
<1>13. ASSUME Evict PROVE Sessions'
  BY <1>13 DEF Evict, NewPage, NoCall, NoRows, NoSession
<1>14. ASSUME UNCHANGED vars PROVE Sessions'
  BY <1>14 DEF vars, meta, history
<1> HIDE DEF IInv, TypeOK, Keys, Sessions, Unlocked, Underway, KeysAreGivenOut, OlderThan,
      SessionIsAhead, BackupIsConsistent, Reached, NoNewer, IsFile, AreRows, Session
<1> QED
  BY <1>1, <1>2, <1>3, <1>4, <1>5, <1>6, <1>7, <1>8,
     <1>9, <1>10, <1>11, <1>12, <1>13, <1>14 DEF Next

LEMMA Invariant == ASSUME OneHandler PROVE Spec => []IInv
<1>1. IInv /\ [Next]_vars => IInv'
  BY Types, KeepsKeys, KeepsRows, KeepsSessions DEF IInv, Keys
<1> QED
  BY Starts, <1>1, PTL DEF Spec

-----------------------------------------------------------------------------
(* The variables keep to their sets (LocalStore).                          *)
THEOREM TypeCorrect == ASSUME OneHandler PROVE Spec => []TypeOK
<1>1. IInv => TypeOK
  BY DEF IInv
<1> QED
  BY Invariant, <1>1, PTL

(* The salt in the store is the one the data key was wrapped under, so the *)
(* passphrase goes on opening it (store.js:85-107).                        *)
THEOREM PassphraseGoesOnOpening == ASSUME OneHandler PROVE Spec => []PassphraseOpens
<1>1. IInv => PassphraseOpens
  BY DEF IInv, Keys
<1> QED
  BY Invariant, <1>1, PTL

(* The log and the session stay readable over restores of any backups,     *)
(* whole or broken off (store.js:143-155, 246-266).                        *)
THEOREM RowsStayReadable == ASSUME OneHandler PROVE Spec => []RowsReadable
<1>1. IInv => RowsReadable
  BY DEF IInv, Rows
<1> QED
  BY Invariant, <1>1, PTL

(* No restore loses an event (store.js:257-264).                           *)
THEOREM NoEventIsLost == ASSUME OneHandler PROVE Spec => []NothingIsLost
<1>1. IInv => NothingIsLost
  BY DEF IInv, Keys
<1> QED
  BY Invariant, <1>1, PTL

(* No backup holds an event that is ahead of its session, however messages *)
(* come in while it is made (store.js:227-230, transport.js:327-331).      *)
THEOREM BackupsAreConsistent == ASSUME OneHandler PROVE Spec => []BackupIsConsistent
<1>1. IInv => BackupIsConsistent
  BY DEF IInv, Sessions
<1> QED
  BY Invariant, <1>1, PTL
===============================================================================
