SPECIFICATION Spec
CONSTANTS
  Prototypes <- AlignedPrototypes
  MayFail = TRUE
  NULL = null
INVARIANTS
  FreedOnce
  ObjectsReturned
  Synced
  ReturnPlacedUnlessBuf
