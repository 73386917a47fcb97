\* Supervisor of one host session.
SPECIFICATION FairSpec
CONSTANTS
  NoTask = NoTask
  FenceLimit = 9
  ActiveLimit = 9
  RetainedLimit = 9
  TerminalLimit = 9
  HostReq = {"a", "b"}
  ChildReq = {"c", "d"}
  Task = {t}
  HostMethod <- MCHostMethod
  ChildMethod <- MCChildMethod
  InitId = "init"
  CancelMethod = {"task", "tasks/get"}
  Era = {"legacy","modern"}
  QueueCap = 1
  MaxSends = 2
  MaxRequests = 2
  MaxTrouble = 2
CHECK_DEADLOCK FALSE
INVARIANTS OneEngine EnginesApart DormantOwesNothing
PROPERTIES KeepsSession RegistriesAgree RequestSettles
