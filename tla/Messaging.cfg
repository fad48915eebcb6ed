SPECIFICATION Spec
CONSTANTS
  alice = alice
  bob = bob
  carol = carol
  Null = Null
  Member <- Trio
  Starts <- TwoToBob
  Prekeys = 1
  Offline = TRUE
  MaxSend = 2
  MaxRestart = 1
  MAX_SKIP = 2
INVARIANTS TypeOK PeersAgree OpksAreSingleUse
PROPERTY DropsAreOrphans
CHECK_DEADLOCK FALSE
