SPECIFICATION FairSpec
CONSTANTS
  Clients <- AllClients
  MaxAuthFails = 2
  RekeyAfter = 5
  SeqSpace = 12
  NetCap = 2
INVARIANTS
  TypeOK
  NoDesync
  InStep
  NonceFresh
  OnlyKexInClear
  
PROPERTIES
  HandshakeSettles
  RekeyCompletes
CHECK_DEADLOCK FALSE
