SPECIFICATION FairSpec
CONSTANTS
  g1 = g1
  g2 = g2
  b1 = b1
  b2 = b2
  Guardian <- OneGuardian
  Backup <- TwoBackups
  Ranking <- SameRanking
  Session <- ThreeNumbers
  MaxTimeout = 1
  MaxRestart = 1
  MaxStop = 1
  MaxLarge = 1
INVARIANTS
  OneCandidateAtATime
PROPERTIES
  SuccessionSettles
  SomeoneTakesOver
CHECK_DEADLOCK FALSE
