SPECIFICATION Spec
CONSTANTS
  Values = {v1, v2}
  NULL = null
  GARBAGE = garbage
  BlockSize = 2
  InitialBlockCount = 2
  Counting = TRUE
  OthersPop = FALSE
  MaxItems = 4
SYMMETRY ValueSymmetry
INVARIANTS
  BlocksOwned
  CountWasSizeIfAlone
PROPERTIES
  ImplementsFifo
