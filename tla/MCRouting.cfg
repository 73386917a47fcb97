SPECIFICATION FairRoutingSpec
CONSTANTS
  Session = {"s1", "s2"}
  Request = {"q1", "q2"}
  From <- MCFrom
  HostID <- MCHostID
  Token <- MCToken
  Kind <- MCKind
  NoRequest = "none"
  Era = {"legacy", "native", "modern", "shared"}
  NotifCap = 1
  Slots = 1
  MaxGen = 2
  MaxEvents <- MCMaxEvents
CHECK_DEADLOCK FALSE
INVARIANTS OneReply PendingMatches NothingAfterEnd
PROPERTIES CallAnswered
