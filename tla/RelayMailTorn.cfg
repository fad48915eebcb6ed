SPECIFICATION Spec
CONSTANTS
  alice = alice
  bob = bob
  Handle <- MCHandle
  MaxQueue = 3
  TTL = 2
  TornWrites = TRUE
  MaxId = 4
  MaxNow = 2
  MaxBatches = 1
  MaxTorn = 2
INVARIANTS TearsAreContained
SYMMETRY Recipients
CHECK_DEADLOCK FALSE
