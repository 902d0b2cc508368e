SPECIFICATION FairSpec
CONSTANTS
  Window = 3
  MaxPacket = 2
  WriteSoft = 40
  WriteHard = 80
  PendRoom = 2
  Overhead = 1
  None = None
  Stream <- StreamUp1Down4
  Sizes = {1, 2}
  Finishers <- Nobody
  Aborters <- Nobody
  MaxRekeys = 2
  NetCap = 2
INVARIANTS
  TypeOK
  DeliveredInOrder
  BufferingBounded
PROPERTIES
  CreditBothWays
  AllDelivered
CHECK_DEADLOCK FALSE
