SPECIFICATION Spec
CONSTANTS
  MaxChannels = 4
  Channels = {a, b}
  None = None
INVARIANTS
  TypeOK
  FreeListExact
  LocalIdIsSlot
PROPERTY
  ImplementsAllocator
