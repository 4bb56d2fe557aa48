SPECIFICATION Spec
CONSTANTS
  Periods <- LongPeriod
  Resets <- TwoResets
  ResetMaxs <- TwoMaxs
  Prescriptions <- NonePrescribed
  VisTimes <- Dumps
  VisCycles <- NoEvents
  CheckTimes <- Checks
  CheckCycles <- NoEvents
  ObsTimes <- Observations
  ObsCycles <- NoEvents
  MinDt = 1
  PKSteps = {1, 5}
  FieldsDiffer = FALSE
  MaxFailures = 1
  MaxCrashes = 0
  MaxCycle = 12
INVARIANTS
  ResetReinitializes
CHECK_DEADLOCK FALSE
