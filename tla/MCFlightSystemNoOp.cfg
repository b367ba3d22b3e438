CONSTANTS
  Calls = {c1}
  MaxPrepared = 1
  Queries = {"match", "insert"}
  MaxMinted = 6
  MaxCalls = 12
  NumDemos = 1
  Faults = FALSE
  Kinds = {"sql"}
  Disconnects = 0
SPECIFICATION SysSpec
CHECK_DEADLOCK FALSE
INVARIANTS
  SecondRunIsNoOp
