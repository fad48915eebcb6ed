SPECIFICATION Spec
CONSTANTS
  alice = alice
  bob = bob
  carol = carol
  Null = Null
  Member <- Trio
  Starts <- TwoToBob
  Prekeys = 1
  Offline = FALSE
  MaxSend = 1
  MaxRestart = 1
  MAX_SKIP = 2
INVARIANT OpksAreBurnt
CHECK_DEADLOCK FALSE
