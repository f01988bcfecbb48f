SPECIFICATION Spec
CONSTANTS
  g1 = g1
  g2 = g2
  b1 = b1
  b2 = b2
  Guardian <- TwoGuardians
  Backup <- OneBackup
  Ranking <- OnlyBackup
  Session <- FourNumbers
  MaxTimeout = 1
  MaxRestart = 1
  MaxStop = 0
  MaxLarge = 0
SYMMETRY Guardians
INVARIANTS
  TypeOK
  PromotedHasState
  KeyIsRotated
CHECK_DEADLOCK FALSE
