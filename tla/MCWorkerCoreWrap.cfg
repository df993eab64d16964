SPECIFICATION Spec
CONSTANTS
  Pages = 4
  W16 = 8
  W32 = 32
  DestTiles = 2
  Loads <- WideLong
INVARIANTS DataIntact
CHECK_DEADLOCK FALSE
