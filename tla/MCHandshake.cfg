SPECIFICATION FairSpec
CONSTANTS
  Passwords = {p1, p2}
  HeaderLen = 3
  BodyLen = 3
  Capacity = 4
  MaxPings = 2
CHECK_DEADLOCK FALSE
INVARIANTS
  FramesIntact
  KeysAgree
PROPERTIES
  ConnectReturns
  ConnectionEnds
