SPECIFICATION FairSpec
CONSTANTS
  Window = 1
  MaxPacket = 1
  WriteSoft = 2
  WriteHard = 4
  PendRoom = 2
  Overhead = 1
  None = None
  MaxChannels = 2
  Fwds = {1, 2}
  Healthy = {1}
  Loads <- AllLoads
  RoomMax = 1
  SockCap = 1
  RrSpace = 2
INVARIANTS
  TypeOK
  NoProtocolError
  Routed
  HalfCloseLast
  DestsMatch
  NoLostWakeup
PROPERTIES
  OpensSettle
  HealthyServed
  SlotsReclaimed
  SessionEnds
CHECK_DEADLOCK FALSE
