SPECIFICATION FairSpec
CONSTANTS
  Kinds = {"transport", "unsubcycled", "reactive"}
  Horizon = 14
  FlowSteps = {3, 4, 8}
  Stable = {1, 2, 3, 5, 9}
  SlaveSteps = {1, 2, 3, 8}
  MinSub = 2
PROPERTIES
  MassFollowsFlow
  NoExtrapolation
  StableSubsteps
  BoundariesInside
  Terminates
CHECK_DEADLOCK FALSE
