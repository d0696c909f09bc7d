SPECIFICATION FairSpec
CONSTANTS
  Uploads = {u1, u2}
  Contents = {c1}
  Deleters = {}
  Sweepers = {s1, s2}
  TTL = 1
  MaxTime = 2
  BatchSize = 2
  CachePurgeOn = FALSE
  Faults = {"db", "storage", "crash"}
  Stuck = {u1}
  None = None
PROPERTIES
  RowOutlivesObject
  ExpiredFileRemoved
CHECK_DEADLOCK FALSE
