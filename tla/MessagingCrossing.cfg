SPECIFICATION Spec
CONSTANTS
  alice = alice
  bob = bob
  carol = carol
  Null = Null
  Member <- Couple
  Starts <- BothFirst
  Prekeys = 2
  Offline = FALSE
  MaxSend = 2
  MaxRestart = 0
  MAX_SKIP = 2
INVARIANT FirstMessagesOpen
CHECK_DEADLOCK FALSE
