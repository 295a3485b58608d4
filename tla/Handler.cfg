\* Timeouts fire; the peers do as they like.  Two connections compete for one
\* slot, and carry more than two buffers hold.
SPECIFICATION FairHandlerSpec
CONSTANTS
  Protocols = {p1, p2}
  MaxActive = 1
  MinBuffer = 5
  DefaultBuffer = 5
  MaxBuffer = 6
  Chunks <- SmallAndLarge
  Limit = 5
  MaxMoved = 11
INVARIANTS HandlerType SlotsExact CountedOnce LagBounded
PROPERTIES SlotsComeBack
CHECK_DEADLOCK FALSE
