SPECIFICATION FairSpec
CONSTANTS
  Periods <- TwoPeriods
  Resets <- OneReset
  ResetMaxs <- NoSteps
  Prescriptions <- NoneOrThree
  VisTimes <- Dumps
  VisCycles <- NoEvents
  CheckTimes <- Checks
  CheckCycles <- NoEvents
  ObsTimes <- Observations
  ObsCycles <- NoEvents
  MinDt = 1
  PKSteps = {1, 4}
  FieldsDiffer = FALSE
  MaxFailures = 1
  MaxCrashes = 2
  MaxCycle = 12
INVARIANTS
  AllDumpsMade
  AllObserved
  ObservedInOrder
  RestartFindsPeriod
PROPERTIES
  NoEventSteppedOver
  Terminates
CHECK_DEADLOCK FALSE
