SPECIFICATION Spec
CONSTANTS
  Keys = {a, b, c, d}
  Values = {v1, v2}
  NULL = null
  DEAD = dead
  HashValues = {0, 3}
  Readers = {r}
  MaxTombstones = 2
SYMMETRY DataSymmetry
INVARIANTS
  ChainUnbroken
  SizeBounds
  GetLinearizes
PROPERTIES
  ImplementsMap
