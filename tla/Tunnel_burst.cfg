\* The target sends faster than MAX_PACKET_SIZE per read.
SPECIFICATION TunnelSpec
CONSTANTS
  Streams <- Directions
  MaxPackets = 3
  MaySplit = FALSE
  MayOverrunHead = FALSE
  MayBurst = TRUE
INVARIANTS EndHasCause
CHECK_DEADLOCK FALSE
