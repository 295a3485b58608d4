\* A read may end inside a packet: its length goes through, its payload waits.
SPECIFICATION Spec
CONSTANTS
  Streams = {up}
  MaxPackets = 3
  MaySplit = TRUE
  MayOverrunHead = FALSE
INVARIANTS IncompleteIsResumed
CHECK_DEADLOCK FALSE
