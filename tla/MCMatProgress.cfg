SPECIFICATION FairSpec
CONSTANTS
  p1 = p1  p2 = p2
  s1 = s1  d1 = d1
  Proc = {p1}
  NoProc = NoProc
  Template = Template
  Session = {s1}
  Request = {d1}
  SessionOf <- OneSession
  MaxGen = 1
  Outside = {"pin", "eager", "cold"}
PROPERTIES BarrierSettles RetirementEnds
CHECK_DEADLOCK FALSE
