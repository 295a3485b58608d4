\* Reads may end inside a packet, but none runs past the control packet.
SPECIFICATION FairTunnelSpec
CONSTANTS
  Streams <- Directions
  MaxPackets = 3
  MaySplit = TRUE
  MayOverrunHead = FALSE
  MayBurst = FALSE
INVARIANTS NothingDropped EndHasCause
PROPERTIES ImplementsPipe DeliveredOrClosed
CHECK_DEADLOCK FALSE
