SPECIFICATION Spec
CONSTANTS
  alice = alice
  bob = bob
  Null = Null
  load1 = load1
  load2 = load2
  Handle = {alice, bob}
  Load = {load1}
  Faults = {"fail"}
  MaxKey = 1
  MaxSerial = 2
  MaxStarts = 1
INVARIANT CacheIsUsed
CHECK_DEADLOCK FALSE
