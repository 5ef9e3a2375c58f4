SPECIFICATION FairSpec
CONSTANTS
  Callers = {c1}
  Ping = ping
  NoThread = nobody
  Ops = {"call", "servername"}
  MaxRequests = 2
  SlowReplies = FALSE
  MaxWait = 1
INVARIANTS
  ReplyIsMine
PROPERTIES
  ImplementsRpc
  GoodbyeIsLast
  CallReturns
  SessionEnds
