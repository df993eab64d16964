CONSTANTS
  Entries = 3
  MaxSize = 2
  IssueSize = 10
  CmddatSize = 4
SPECIFICATION Spec
INVARIANTS InOrder ExecBufAlone
PROPERTIES AllProcessed
CHECK_DEADLOCK FALSE
