SPECIFICATION Spec
CONSTANTS
  g1 = g1
  g2 = g2
  b1 = b1
  b2 = b2
  Guardian <- TwoGuardians
  Backup <- TwoBackups
  Ranking <- SameRanking
  Session <- FourNumbers
  MaxTimeout = 0
  MaxRestart = 0
  MaxStop = 0
  MaxLarge = 0
INVARIANTS
  OneSuccessor
CHECK_DEADLOCK FALSE
