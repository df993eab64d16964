CONSTANTS
  a = a
  b = b
  Workers <- MCWorkers
  Managers <- MCManagers
  Slots = 2
  CounterMod = 8
  Before = 3
  DPages = 1
  SPages = 2
  MaxIssued = 12
  MaxTrace = 2
  MaxCalls = 3
  Kernels <- MCKernels
SPECIFICATION Spec
INVARIANTS LaunchInPlace InStep
PROPERTIES GoNotLost AllDone ShutdownEnds
CHECK_DEADLOCK FALSE
