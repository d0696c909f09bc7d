SPECIFICATION Spec
CONSTANTS
  Instances = {i1, i2}
  Puts = {p1, p2}
  Limits = {m1, m2}
  Lists = {l1, l2}
  Faults = {}
  None = None
SYMMETRY Interchangeable
INVARIANT
  TakesEffectImmediately
CHECK_DEADLOCK FALSE
