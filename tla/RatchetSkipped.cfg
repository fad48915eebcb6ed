SPECIFICATION Spec
CONSTANTS
  alice = alice
  bob = bob
  Null = Null
  Member <- Couple
  Initiator = alice
  Responder = bob
  Redelivers = FALSE
  Leaks = FALSE
  MaxSend <- LongBurst
  MaxMishaps = 0
  MAX_SKIP = 1
INVARIANTS SkippedBound
CHECK_DEADLOCK FALSE
