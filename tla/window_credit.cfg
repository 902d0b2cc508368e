SPECIFICATION Spec
CONSTANT
  RecvMax = 5
INVARIANTS
  Conserved
  NoOvercommit
  NeverExceeded
