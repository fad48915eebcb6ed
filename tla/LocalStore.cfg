SPECIFICATION Spec
CONSTANTS
  e1 = e1
  e2 = e2
  p1 = p1
  p2 = p2
  h1 = h1
  h2 = h2
  Null = Null
  Event <- Two
  Passphrase <- TwoWords
  Handler <- OneButton
  MaxBackups = 1
  MaxLives = 3
  MaxSteps = 2
SYMMETRY Interchangeable
INVARIANTS TypeOK PassphraseOpens RowsReadable NothingIsLost BackupIsConsistent
CHECK_DEADLOCK FALSE
