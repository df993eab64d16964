SPECIFICATION Spec
CONSTANTS
  Pages = 4
  W16 = 8
  W32 = 32
  DestTiles = 2
  Loads <- MCLoads
INVARIANTS DataIntact QuietWhenDone
PROPERTY ProgramsEnd
CHECK_DEADLOCK FALSE
