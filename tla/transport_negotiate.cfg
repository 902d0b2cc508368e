SPECIFICATION Spec
CONSTANTS
  Clients <- GcmFirst
  MaxAuthFails = 2
  RekeyAfter = 5
  SeqSpace = 12
  NetCap = 2
INVARIANTS
  NoDesync
CHECK_DEADLOCK FALSE
