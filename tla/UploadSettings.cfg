SPECIFICATION FairSpec
CONSTANTS
  Instances = {i1, i2}
  Puts = {p1, p2}
  Limits = {m1, m2}
  Lists = {l1, l2}
  Faults = {"db", "crash"}
  None = None
INVARIANTS
  EnforcedWasCommitted
  IInv
PROPERTIES
  OnlyPutsChangeSettings
  AgreementLasts
  Converges
CHECK_DEADLOCK FALSE
