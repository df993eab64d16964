CONSTANTS
  tensix = tensix
  eth = eth
  launch = launch
  Launch = launch
  Buffers <- TwoTypes
  BufSize <- CodeSizes
  Entries = 3
  DebugSync = 6
  NumWorkers <- OneEach
  Programs <- CodePrograms
  CounterMod = 8
  MaxInFlight = 3
  MaxTrace = 2
SPECIFICATION Spec
INVARIANTS NoStomp NoLateStomp ClearIsQuiet
PROPERTIES AllComplete
CHECK_DEADLOCK FALSE
