\* Borrowers may be cancelled at any await inside a call.
SPECIFICATION PoolSpec
CONSTANTS
  Conns = {c1, c2, c3}
  Borrowers = {b1, b2}
  NoConn = NoConn
  MaxConnections = 2
  MaxUsage = 1
  MayCancel = TRUE
  MayStop = TRUE
SYMMETRY Symmetric
INVARIANTS Exclusive WithinCapacity HeldIsInUse
PROPERTIES ImplementsCheckout
CHECK_DEADLOCK FALSE
