SPECIFICATION Spec
CONSTANTS
  Window = 2
  MaxPacket = 1
  WriteSoft = 9
  WriteHard = 18
  PendRoom = 4
  Overhead = 1
  None = None
  Stream <- StreamDown2
  Sizes = {1}
  Finishers <- ServerOnly
  Aborters <- Nobody
  MaxRekeys = 1
  NetCap = 3
INVARIANT
  EofIsLast
CHECK_DEADLOCK FALSE
