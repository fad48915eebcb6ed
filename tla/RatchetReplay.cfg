SPECIFICATION Spec
CONSTANTS
  alice = alice
  bob = bob
  Null = Null
  Member <- Couple
  Initiator = alice
  Responder = bob
  Redelivers = TRUE
  Leaks = FALSE
  MaxSend <- Dialogue
  MaxMishaps = 0
  MAX_SKIP = 2
INVARIANTS GenuineOpens
CHECK_DEADLOCK FALSE
