SPECIFICATION FairConnectionSpec
CONSTANTS
  w1 = w1
  w2 = w2
  w3 = w3
  Null = Null
  Socket <- Three
  MaxTransports = 2
  MaxOutages = 2
INVARIANTS ConnectionTypeOK KeepsTrying
PROPERTY Settles
CHECK_DEADLOCK FALSE
