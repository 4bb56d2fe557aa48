SPECIFICATION FairSpec
CONSTANTS
  Kinds <- AllButPlain
  End = 4
  Dts = {1, 2, 4}
  MinSub = 2
  MaxItrs = 3
  MaxTime = 100
INVARIANTS
  OthersStartClean
  NothingIntegratedTwice
  SubstepsTile
  UnrepeatedSolvesKeepTime
PROPERTIES
  RetryIsShorter
  Terminates
CHECK_DEADLOCK FALSE
