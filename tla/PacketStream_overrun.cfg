\* The read that completes the reply returns the first data packet with it.
SPECIFICATION Spec
CONSTANTS
  Streams = {down}
  MaxPackets = 3
  MaySplit = FALSE
  MayOverrunHead = TRUE
INVARIANTS CleanEndComplete
CHECK_DEADLOCK FALSE
