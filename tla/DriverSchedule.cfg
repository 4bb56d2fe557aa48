SPECIFICATION Spec
CONSTANTS
  Periods <- CutPeriods
  Resets <- LateResets
  ResetMaxs <- LateMaxs
  Prescriptions <- NonePrescribed
  VisTimes <- NoEvents
  VisCycles <- EveryCycle
  CheckTimes <- NoEvents
  CheckCycles <- EveryCycle
  ObsTimes <- LateObservations
  ObsCycles <- OddCycles
  MinDt = 1
  PKSteps = {1, 2, 3, 5}
  FieldsDiffer = TRUE
  MaxFailures = 2
  MaxCrashes = 0
  MaxCycle = 20
INVARIANTS
  ResetMaxIsKept
  ResetsAreUsedOnce
  TimeIsInPeriod
CHECK_DEADLOCK FALSE
