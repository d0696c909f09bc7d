SPECIFICATION Spec
CONSTANTS
  Uploads = {u1, u2}
  Contents = {c1}
  Deleters = {}
  Sweepers = {s1}
  TTL = 1
  MaxTime = 2
  BatchSize = 2
  CachePurgeOn = FALSE
  Faults = {"db"}
  Stuck = {}
  None = None
SYMMETRY Interchangeable
INVARIANT
  DuplicateServed
CHECK_DEADLOCK FALSE
