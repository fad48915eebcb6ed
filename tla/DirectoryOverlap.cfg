SPECIFICATION Spec
CONSTANTS
  alice = alice
  bob = bob
  Null = Null
  load1 = load1
  load2 = load2
  Handle = {alice, bob}
  Load = {load1, load2}
  Faults = {"stale"}
  MaxKey = 1
  MaxSerial = 2
  MaxStarts = 0
PROPERTY NeverRollsBack
CHECK_DEADLOCK FALSE
