SPECIFICATION AdmissionSpec
CONSTANTS
  Token = {t1, t2, t3}
  OwnerKey = {o1}
  AnyOwner = AnyOwner
  Owner = o1
  NoToken = NoToken
  s1 = s1
  s2 = s2
  Session = {s1, s2}
  SessionID <- MCSessionID
  NoSession = NoSession
  Request = {}
  Refresher = {r1}
  PendingTTL = 0
  BoundTTL = 0
  MaxTime = 0
CHECK_DEADLOCK FALSE
INVARIANTS IsolatedSingleSession
SYMMETRY Symmetry
