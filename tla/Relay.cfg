SPECIFICATION Spec
CONSTANTS
  alice = alice
  bob = bob
  Null = Null
  Handle <- Members
  MaxQueue = 2
  Faults = {"fetch", "load", "early"}
  MaxId = 2
  MaxCalls = 2
  MaxConns = 2
  MaxEdits = 3
  MaxEvents = 3
  MaxBuffer = 20
  MaxRestarts = 1
SYMMETRY Interchangeable
INVARIANTS TypeOK OnlineIsExact NoLostWakeup DirectoryPickedUp MessagesGetThrough
CHECK_DEADLOCK FALSE
