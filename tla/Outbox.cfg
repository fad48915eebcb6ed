SPECIFICATION FairOutboxSpec
CONSTANTS
  m1 = m1
  m2 = m2
  f1 = f1
  f2 = f2
  Message <- Two
  TooBig <- Second
  Unknown <- Second
  Flush <- TwoFlushes
  MaxMishaps = 3
INVARIANTS OutboxTypeOK NothingForgotten RepeatsAreExcused
PROPERTY ListedIsSent
CHECK_DEADLOCK FALSE
