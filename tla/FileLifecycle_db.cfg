SPECIFICATION Spec
CONSTANTS
  Uploads = {u1, u2}
  Contents = {c1}
  Deleters = {d1}
  Sweepers = {s1, s2}
  TTL = 1
  MaxTime = 2
  BatchSize = 2
  CachePurgeOn = TRUE
  Faults = {"db", "purge"}
  Stuck = {}
  None = None
SYMMETRY Interchangeable
INVARIANTS
  NoOrphanObject
  ObjectsGoFirst
PROPERTY
  PurgeSticks
CHECK_DEADLOCK FALSE
