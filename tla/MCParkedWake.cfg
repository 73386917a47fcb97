SPECIFICATION FairClientSpec
CONSTANTS
  Req = {init, a}
  InitReq = init
  Injected = {a}
  NoFrame = NoFrame
  Lifecycle = TRUE
  QueueCap = 1
  MaxRefreshAttempts = 1
  MaxConn = 2
  MaxFences = 1
PROPERTIES AdmittedDemandActivated
