\* Any read, any size of what application and target send: the freedom of TCP.
SPECIFICATION FairTunnelSpec
CONSTANTS
  Streams <- Directions
  MaxPackets = 3
  MaySplit = TRUE
  MayOverrunHead = TRUE
  MayBurst = TRUE
INVARIANTS TunnelType InOrder UploadComplete GrantFirst OneReplyFirst RequestAlone
PROPERTIES BothSidesClose RequestSettled
CHECK_DEADLOCK FALSE
