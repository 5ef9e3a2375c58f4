SPECIFICATION Spec
CONSTANTS
  Keys = {a, b}
  Values = {v1, v2}
  NULL = null
  DEAD = dead
  HashValues = {0, 3}
  Readers = {}
  MaxTombstones = 4
SYMMETRY DataSymmetry
INVARIANT
  SearchEnds
