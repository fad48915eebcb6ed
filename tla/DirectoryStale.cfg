SPECIFICATION Spec
CONSTANTS
  alice = alice
  bob = bob
  Null = Null
  load1 = load1
  load2 = load2
  Handle = {alice, bob}
  Load = {load1}
  Faults = {}
  MaxKey = 1
  MaxSerial = 2
  MaxStarts = 0
INVARIANT MembersMailIsKept
CHECK_DEADLOCK FALSE
