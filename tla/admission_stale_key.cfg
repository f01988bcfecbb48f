SPECIFICATION Spec
CONSTANTS
  g1 = g1
  g2 = g2
  b2 = b2
  m1 = m1
  m2 = m2
  Guardian <- OneGuardian
  Backup <- NoMachine
  Measurement <- TwoValues
  NoMeasurement = none
  MeasurementOf <- Measured
  AgentMeasurement = m1
  Approved <- NoneListed
  MaxAttempt = 2
INVARIANTS
  StoredKeyIsCurrent
CHECK_DEADLOCK FALSE
