CONSTANTS
  Size = 3
  Sizes = {2, 4}
  MaxPush = 2
  MaxId = 4
  Calls = {"read", "readBlocking", "record", "finish", "sync"}
SPECIFICATION Spec
INVARIANTS ReadsOwnPages EventMeansRead NothingInFlight
PROPERTIES FinishMeansRead CallsReturn
CHECK_DEADLOCK FALSE
