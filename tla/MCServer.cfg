SPECIFICATION HalvesSpec
CONSTANTS
  Local = {l1}
  Remote = {r1}
  NULL = null
  DEAD = dead
  Capacity = 4
  Names = {n1, n2}
  Addresses = {a1, a2}
  Nothing = nothing
  Unregisters = TRUE
  Replaces = FALSE
  Reuses = TRUE
  MaxClients = 3
INVARIANTS
  HandleLive
  EarlyAreStopped
  DisconnectedOnce
  FreedUnlessRecorded
PROPERTIES
  FreeReturns
