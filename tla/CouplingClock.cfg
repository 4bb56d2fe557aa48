SPECIFICATION Spec
CONSTANTS
  Kinds <- Iterated
  End = 4
  Dts = {2}
  MinSub = 2
  MaxItrs = 3
  MaxTime = 20
INVARIANTS
  AdvancesFromOldTime
CHECK_DEADLOCK FALSE
