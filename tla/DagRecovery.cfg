SPECIFICATION RSpec
CONSTANTS
  Primary <- TwoPrimaries
  Independent <- MCIndependent
  Temporal <- MCIndependent
  Secondary <- ChainSecondary
  Deps <- ChainDeps
  Rank <- ChainRank
  Position <- MCPosition
  Wrt = {"pressure"}
  Clients = {"flow"}
  Times = {0, 1}
INVARIANTS
  RecoveredDataAreCurrent
  RecoveredFalseMeansUnchanged
  ServedStaysServed
