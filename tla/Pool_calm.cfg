\* Borrowers that are not cancelled inside a call; time passes, the lock is fair.
SPECIFICATION FairPoolSpec
CONSTANTS
  Conns = {c1, c2}
  Borrowers = {b1, b2}
  NoConn = NoConn
  MaxConnections = 1
  MaxUsage = 2
  MayCancel = FALSE
  MayStop = TRUE
INVARIANTS PoolType InUseIsHeld NoClosedHandedOut UsageBound
PROPERTIES GetSettles UnhealthyEvicted
CHECK_DEADLOCK FALSE
