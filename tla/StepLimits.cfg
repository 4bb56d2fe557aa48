SPECIFICATION Spec
CONSTANTS
  Registries <- Pairs
  Steps = {1, 2, 3, 4, 5, 7}
  Horizon = 9
  Sight = 18
INVARIANTS
  NextIsFirst
PROPERTIES
  NoSliver
  Arrives
CHECK_DEADLOCK FALSE
