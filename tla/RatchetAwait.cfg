SPECIFICATION Spec
CONSTANTS
  alice = alice
  bob = bob
  App = alice
  Other = bob
  c1 = c1
  c2 = c2
  Call <- TwoCalls
  MAX_SKIP = 2
  MaxSend = 2
  Null = Null
  Member <- Couple
INVARIANT KeyPerMessage
CHECK_DEADLOCK FALSE
