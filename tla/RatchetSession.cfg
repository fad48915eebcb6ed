SPECIFICATION Spec
CONSTANTS
  alice = alice
  bob = bob
  Null = Null
  Member <- Couple
  Initiator = alice
  Responder = bob
  Redelivers = FALSE
  Leaks = TRUE
  MaxSend <- Burst
  MaxMishaps = 2
  MAX_SKIP = 1
INVARIANTS TypeOK GenuineOpens KeysAreFresh ForwardSecrecy Heals
CHECK_DEADLOCK FALSE
