SPECIFICATION JoiningSpec
CONSTANTS
  g1 = g1
  g2 = g2
  b2 = b2
  m1 = m1
  m2 = m2
  Guardian <- TwoGuardians
  Backup <- OneBackup
  Measurement <- TwoValues
  NoMeasurement = none
  MeasurementOf <- Measured
  AgentMeasurement = m1
  Approved <- NoneListed
  MaxAttempt = 2
INVARIANTS
  TypeOK
  FleetAgrees
  InIsRecorded
PROPERTIES
  LockStays
  GuardianFleetSpec
  BackupFleetSpec
  ClientSettles
CHECK_DEADLOCK FALSE
