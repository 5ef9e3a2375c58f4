SPECIFICATION Spec
CONSTANTS
  Objects = {o1, o2, o3, o4}
  Keys = {k1, k2}
  Data = {1}
  MaxIndex = 1
  MaxElements = 2
  MaxLen = 2
SYMMETRY Symmetry
CHECK_DEADLOCK FALSE
INVARIANTS
  OwnedOnce
  LenExact
  RoundTrip
PROPERTY
  FailureKeepsContent
