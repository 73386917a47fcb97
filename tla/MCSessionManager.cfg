SPECIFICATION Spec
CONSTANTS
  Token = {t1, t2}
  OwnerKey = {o1}
  AnyOwner = AnyOwner
  s1 = s1
  s2 = s2
  s3 = s3
  Session = {s1, s2, s3}
  SessionID <- MCSessionID
  NoSession = NoSession
  Request = {q1, q2}
  Refresher = {r1, r2}
  PendingTTL = 0
  BoundTTL = 0
  MaxTime = 1
CHECK_DEADLOCK FALSE
INVARIANTS TypeOK TokenSingleUse NoLeakedReservation OwnerScope
PROPERTIES HistoryOutlivesSession
SYMMETRY Symmetry
