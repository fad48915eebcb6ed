SPECIFICATION Spec
CONSTANTS
  alice = alice
  bob = bob
  Handle <- MCHandle
  MaxQueue = 2
  TTL = 2
  TornWrites = FALSE
  MaxId = 3
  MaxNow = 3
  MaxBatches = 2
  MaxTorn = 0
INVARIANTS TypeOK NoLoss QueueBound AbandonedMailGoes
PROPERTY MailboxSpec
CHECK_DEADLOCK FALSE
