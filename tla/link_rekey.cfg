SPECIFICATION FairSpec
CONSTANTS
  Window = 16
  MaxPacket = 1
  WriteSoft = 40
  WriteHard = 80
  PendRoom = 3
  Overhead = 1
  None = None
  Stream <- StreamUp1Down3
  Sizes = {1}
  Finishers <- Both
  Aborters <- Both
  MaxRekeys = 1
  NetCap = 2
INVARIANTS
  NoProtocolError
  GatedTrafficWaits
  NoStrandedSlot
PROPERTIES
  CloseCompletes
CHECK_DEADLOCK FALSE
