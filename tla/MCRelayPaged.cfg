SPECIFICATION Spec
CONSTANTS
  Half = 6
  CbPage = 4
  CbPages = 3
  PageSizes = {1, 3, 4, 7, 8, 13}
  MaxPages = 3
  MaxRelays = 2
  Width = 64
  LargeAdjust = FALSE
INVARIANTS DataIntact OnePageHeld
PROPERTIES AllWritten
