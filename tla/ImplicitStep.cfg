SPECIFICATION FairSpec
CONSTANTS
  Kinds = {"standard", "smarter", "adaptive", "fixed"}
  Start = 1
  Horizon = 9
  FirstStep = 2
  InitialStep <- Unset
  DtMin = 1
  DtMax = 6
  Reduction = 2
  Increase = 2
  MaxIncrease = 4
  GrowthWait = 1
  CountBefore = 1
  FixedStep = 3
  MaxLag = 1
  MaxRestarts = 1
INVARIANTS
  HistoryIsOfAcceptedSteps
PROPERTIES
  RecoversAfterEvent
  RetryShrinks
  Terminates
CHECK_DEADLOCK FALSE
