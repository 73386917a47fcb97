SPECIFICATION FairRestartSpec
CONSTANTS
  Server = {"a", "b", "c"}
  MaxTrouble = 3
INVARIANTS OneKeeper PredecessorKept StateKept
PROPERTIES RestartSettles
CHECK_DEADLOCK FALSE
