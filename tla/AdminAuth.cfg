SPECIFICATION FairSpec
CONSTANTS
  Tokens = {t1, t2}
  Keys = {k1}
  Requests = {r1, r2}
  TTL = 1
  MaxTime = 2
  Faults = {"db", "crash"}
  None = None
INVARIANTS
  IInv
  WithdrawnStaysDead
  CredentialsKept
PROPERTIES
  SessionsRemoved
  ImplementsCredentials
CHECK_DEADLOCK FALSE
