SPECIFICATION Spec
CONSTANTS
  Align = 2
  PageSize = 2
  CmddatSize = 5
  Lengths = {1, 2, 3, 6}
  MaxCommands = 4
  MaxAddr = 60
  Width = 256
INVARIANTS InOrder DataIntact
PROPERTIES TraceEnds
