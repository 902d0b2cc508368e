SPECIFICATION Spec
CONSTANTS
  Window = 16
  MaxPacket = 13
  WriteSoft = 40
  WriteHard = 80
  PendRoom = 40
  Overhead = 1
  None = None
  Stream <- StreamUp14
  Sizes = {1, 13}
  Finishers <- Nobody
  Aborters <- ServerOnly
  MaxRekeys = 1
  NetCap = 3
INVARIANT
  NoProtocolError
CHECK_DEADLOCK FALSE
