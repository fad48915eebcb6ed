SPECIFICATION FairSpec
CONSTANTS
  alice = alice
  bob = bob
  Null = Null
  Handle <- Members
  MaxQueue = 2
  Faults = {}
  MaxId = 2
  MaxCalls = 2
  MaxConns = 2
  MaxEdits = 0
  MaxEvents = 2
  MaxBuffer = 20
  MaxRestarts = 0

PROPERTY MailReachesOnline
CHECK_DEADLOCK FALSE
