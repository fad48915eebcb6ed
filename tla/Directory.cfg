SPECIFICATION Spec
CONSTANTS
  alice = alice
  bob = bob
  Null = Null
  load1 = load1
  load2 = load2
  Handle = {alice, bob}
  Load = {load1}
  Faults = {"fail", "stale", "torn"}
  MaxKey = 1
  MaxSerial = 3
  MaxStarts = 1
INVARIANTS TypeOK RevokedStaysOut
PROPERTY NeverRollsBack
CHECK_DEADLOCK FALSE
