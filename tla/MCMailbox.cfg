SPECIFICATION FairSpec
CONSTANTS
  Clients = {c1, c2}
  NoClient = nobody
  NULL = null
  MaxMessages = 2
  MaxBatch = 2
  MaxCopies = 1
CHECK_DEADLOCK FALSE
INVARIANTS
  Conserved
  OkUnlessStopped
  InOrder
  NoPhantom
  CopyIsSnapshot
PROPERTY
  Answered
