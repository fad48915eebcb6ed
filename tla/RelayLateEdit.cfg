SPECIFICATION Spec
CONSTANTS
  alice = alice
  bob = bob
  Null = Null
  Handle <- Members
  MaxQueue = 2
  Faults = {}
  MaxId = 0
  MaxCalls = 0
  MaxConns = 1
  MaxEdits = 1
  MaxEvents = 1
  MaxBuffer = 20
  MaxRestarts = 0
SYMMETRY Interchangeable
INVARIANT PublishedIsInUse
CHECK_DEADLOCK FALSE
