SPECIFICATION Spec
CONSTANTS
  NLinks = 2
  S = 1
  R = 2
  BufferSize = 4
  Loads <- MCLoads
INVARIANTS InOrder
  
CHECK_DEADLOCK FALSE
