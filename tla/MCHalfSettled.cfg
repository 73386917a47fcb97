SPECIFICATION RestartSpec
CONSTANTS
  Server = {"a", "b"}
  MaxTrouble = 3
INVARIANTS FallbackSafe
CHECK_DEADLOCK FALSE
