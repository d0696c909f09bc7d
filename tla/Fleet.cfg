SPECIFICATION FairSpec
CONSTANTS
  i1 = i1
  i2 = i2
  n1 = n1
  n2 = n2
  Instances = {i1, i2}
  Migrations = 2
  Names = {a1}
  None = None
  NodeIDs = {n1, n2}
  NodeID <- OneNamed
  Interval = 1
  Stale = 3
  Slack = 1
INVARIANTS
  IInv
  NobodyClashes
  ReadyWhenUp
  PunctualStaysOnline
PROPERTIES
  StartsEnd
  NodesSettle
  EditsKept
