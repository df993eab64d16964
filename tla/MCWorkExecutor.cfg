CONSTANTS
  Producers = {main, other}
  Owner = main
  Capacity = 2
  MaxWork = 2
  MaxModes = 2
  Nested = {2}
SPECIFICATION Spec
INVARIANTS ProgramOrder StopDrains
PROPERTIES SynchronizeWaits PushedWorkRuns CallsReturn
CHECK_DEADLOCK FALSE
