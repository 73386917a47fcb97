SPECIFICATION Spec
CONSTANTS
  p1 = p1  p2 = p2
  s1 = s1  d1 = d1
  Proc = {p1, p2}
  NoProc = NoProc
  Template = Template
  Session = {s1}
  Request = {d1}
  SessionOf <- OneSession
  MaxGen = 2
  Outside = {"stop"}
SYMMETRY Symmetry
INVARIANTS AuthorityKept ReadyIsWatched AnsweredOnce
CHECK_DEADLOCK FALSE
