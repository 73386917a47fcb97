SPECIFICATION FairClientSpec
CONSTANTS
  Req = {init, a}
  InitReq = init
  Injected = {a}
  NoFrame = NoFrame
  Lifecycle = TRUE
  QueueCap = 2
  MaxRefreshAttempts = 1
  MaxConn = 2
  MaxFences = 2
INVARIANTS OneAnswer NeverReplayed
PROPERTIES NoFenceCrossed AcceptedIsAnswered
