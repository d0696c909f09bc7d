SPECIFICATION Spec
CONSTANTS
  Uploads = {u1, u2}
  Contents = {c1}
  Deleters = {d1, d2}
  Sweepers = {s1, s2}
  TTL = 1
  MaxTime = 2
  BatchSize = 2
  CachePurgeOn = FALSE
  Faults = {"db", "storage", "cancel", "crash"}
  Stuck = {}
  None = None
SYMMETRY Interchangeable
INVARIANTS
  AcknowledgedFileServed
  IInv
  SelectedRowsStay
  NoAcknowledgedOrphan
  DuplicateServedUnlessGivenUp
PROPERTY
  ImplementsTempStore
CHECK_DEADLOCK FALSE
