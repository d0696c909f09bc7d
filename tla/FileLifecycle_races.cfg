SPECIFICATION Spec
CONSTANTS
  Uploads = {u1, u2, u3}
  Contents = {c1}
  Deleters = {d1}
  Sweepers = {s1, s2}
  TTL = 1
  MaxTime = 2
  BatchSize = 2
  CachePurgeOn = TRUE
  Faults = {}
  Stuck = {}
  None = None
SYMMETRY Interchangeable
INVARIANT
  EdgeCopyTracked
CHECK_DEADLOCK FALSE
