SPECIFICATION Spec
CONSTANTS
  Callers = {c1, c2}
  Ping = ping
  NoThread = nobody
  Ops = {"call"}
  MaxRequests = 2
  SlowReplies = TRUE
  MaxWait = 2
SYMMETRY CallerSymmetry
INVARIANTS
  TypeOK
  ServedInOrder
  NoLostWakeup
  JoinOnlyStopping
  NoCloseInUse
