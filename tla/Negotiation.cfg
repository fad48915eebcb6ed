SPECIFICATION NegotiationSpec
CONSTANTS
  alice = alice
  bob = bob
  Lesser = alice
  Greater = bob
  NoTransport = NoTransport
  MaxOpens = 2
  MaxLost = 1
INVARIANTS NegotiationTypeOK GlareResolves
CHECK_DEADLOCK FALSE
