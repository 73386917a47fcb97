SPECIFICATION Spec
CONSTANTS
  Caller = {"c1", "c2", "c3"}
  Asked <- MCCwdAsked
  GitRoot <- MCGitRoot
  DaemonEnv <- MCDaemonEnv
  Cached <- MCCached
  NoValue = NoValue
  NoOwner = NoOwner
  MaxRetries = 2
  MaxMismatches = 2
  CrashThreshold = 1
  MaxEntries = 3
  MaxCommits = 1
  MaxEvents = 0
INVARIANT LiveIsRegistered
CHECK_DEADLOCK FALSE
