SPECIFICATION Spec
CONSTANTS
  e1 = e1
  e2 = e2
  p1 = p1
  p2 = p2
  h1 = h1
  h2 = h2
  Null = Null
  Event <- Two
  Passphrase <- TwoWords
  Handler <- TwoButtons
  MaxBackups = 2
  MaxLives = 2
  MaxSteps = 2
SYMMETRY Interchangeable
INVARIANT PassphraseOpens
CHECK_DEADLOCK FALSE
