SPECIFICATION Spec
CONSTANTS
  Kinds <- Plain
  End = 4
  Dts = {1, 2, 4}
  MinSub = 2
  MaxItrs = 3
  MaxTime = 20
INVARIANTS
  AttemptStartsClean
CHECK_DEADLOCK FALSE
