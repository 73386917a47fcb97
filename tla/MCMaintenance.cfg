SPECIFICATION FairSpec
CONSTANTS
  Hold = {"h1"}
  Entry = {"e1", "e2"}
  Sid <- MCSid
  Key = {"k1", "k2"}
  None = "none"
  MaxTrouble = 2
INVARIANTS HeldMeansQuiet AcknowledgedIsTrue
PROPERTIES FenceHolds LeaseSettles
CHECK_DEADLOCK FALSE
