------------------------------- MODULE Mailbox -------------------------------
(***************************************************************************)
(* What the relay promises about mail, with no file and no request in      *)
(* sight: an envelope that was deposited waits for its recipient until     *)
(* either the recipient removes it, which it can only do once it has been  *)
(* given the envelope, or the envelope is TTL old.  Nothing else makes     *)
(* mail disappear, and nothing brings removed mail back.                   *)
(***************************************************************************)
EXTENDS Integers

CONSTANTS Handle, TTL

VARIABLES
  now,       \* the clock
  waiting,   \* waiting[h]: the envelopes [id, at] that h can still collect
  given,     \* given[h]: the identifiers h has been given at least once
  spent      \* every identifier below this one was used

mailboxVars == <<now, waiting, given, spent>>

Init ==
  /\ now = 0
  /\ waiting = [h \in Handle |-> {}]
  /\ given = [h \in Handle |-> {}]
  /\ spent = 0

Deposit(h) ==
  /\ waiting' = [waiting EXCEPT ![h] = @ \cup {[id |-> spent, at |-> now]}]
  /\ spent' = spent + 1
  /\ UNCHANGED <<now, given>>

Collect(h) ==
  /\ given' = [given EXCEPT ![h] = @ \cup {e.id : e \in waiting[h]}]
  /\ UNCHANGED <<now, waiting, spent>>

\* The recipient removes some of what it was given.
Remove(h, S) ==
  /\ waiting' = [waiting EXCEPT ![h] = {e \in @ : e.id \notin S}]
  /\ UNCHANGED <<now, given, spent>>

Tick ==
  /\ now' = now + 1
  /\ waiting' = [h \in Handle |-> {e \in waiting[h] : now' - e.at < TTL}]
  /\ UNCHANGED <<given, spent>>

Next ==
  \/ \E h \in Handle : Deposit(h) \/ Collect(h)
  \/ \E h \in Handle : \E S \in SUBSET given[h] : Remove(h, S)
  \/ Tick

Spec == Init /\ [][Next]_mailboxVars
=============================================================================
