SPECIFICATION FairSpec
CONSTANTS
  MaxPacket = 16
  IdentMax = 4
  None = None
  Scripts <- AllScripts
INVARIANTS
  TypeOK
  WriteBytesExact
  FramesIntact
  VerdictOfBytes
  NoPacketLeft
PROPERTIES
  AllFramed
CHECK_DEADLOCK FALSE
