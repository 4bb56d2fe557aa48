SPECIFICATION FairSpec
CONSTANTS
  MVec = 2
  MaxItrs = 6
  LagIterations = 2
  MaxDivergence = 2
  MakeOneIteration = 1
  Monitors = {"residual", "update"}
INVARIANTS
  Linked
  AssertionsHold
  ReadsFit
  PairsMatch
PROPERTIES
  ImplementsMemory
  Terminates
