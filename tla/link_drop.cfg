SPECIFICATION FairSpec
CONSTANTS
  Window = 2
  MaxPacket = 2
  WriteSoft = 9
  WriteHard = 18
  PendRoom = 3
  Overhead = 1
  None = None
  Stream <- StreamUp1Down2
  Sizes = {1, 2}
  Finishers <- Both
  Aborters <- Nobody
  MaxRekeys = 0
  NetCap = 2
PROPERTY
  AllDelivered
CHECK_DEADLOCK FALSE
