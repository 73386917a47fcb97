SPECIFICATION FairSpec
CONSTANTS
  Caller = {"c1", "c2"}
  Asked <- MCAsked
  GitRoot <- MCGitRoot
  DaemonEnv <- MCDaemonEnv
  Cached <- MCCached
  NoValue = NoValue
  NoOwner = NoOwner
  MaxRetries = 2
  MaxMismatches = 2
  CrashThreshold = 1
  MaxEntries = 3
  MaxCommits = 1
  MaxEvents = 1
INVARIANTS LiveIsRegistered RightOwner
PROPERTIES VerdictsKept SpawnReturns
CHECK_DEADLOCK FALSE
