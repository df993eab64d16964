CONSTANTS
  Blocks = 4
  PagesPerBlock = 2
  MaxInline = 5
  MaxChunk = 4
SPECIFICATION BufferSpec
INVARIANTS AcquiredIsFree CreditsConserved
PROPERTIES ChunkGetsThrough ShutdownEnds
CHECK_DEADLOCK FALSE
