SPECIFICATION Spec
CONSTANTS
  Window = 6
  MaxPacket = 1
  WriteSoft = 4
  WriteHard = 8
  PendRoom = 4
  Overhead = 1
  None = None
  Stream <- StreamDown4
  Sizes = {1}
  Finishers <- Nobody
  Aborters <- Nobody
  MaxRekeys = 1
  NetCap = 3
INVARIANT
  DeliveredInOrder
CHECK_DEADLOCK FALSE
