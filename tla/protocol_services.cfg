SPECIFICATION ProtocolFairSpec
CONSTANTS
  Part = {"replication", "heartbeat", "fleet"}
  Guardian = {g1}
  Slot = {1, 2}
  Torn = torn
  MaxVersion = 1
  MaxNumber = 2
  MaxLoss = 1
  Backup = {b1}
  Round = {1, 2}
  Threshold = 2
  MaxDrift = 1
  MaxStop = 1
  MaxRestart = 1
  MaxExternal = 3
  MaxBackup = 2
  MaxFail = 2
INVARIANTS
  
  DetectedInTime
PROPERTIES
  ReplicaCatchesUp
  DeadBackupReset
  DeprovisionKeepsThree
  DeficitRepaired
CHECK_DEADLOCK FALSE
