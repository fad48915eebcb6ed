SPECIFICATION Spec
CONSTANTS
  alice = alice
  bob = bob
  carol = carol
  Null = Null
  Member <- Couple
  Starts <- AliceFirst
  Prekeys = 1
  Offline = TRUE
  MaxSend = 2
  MaxRestart = 0
  MAX_SKIP = 2
INVARIANT OutOfOrderOpens
CHECK_DEADLOCK FALSE
