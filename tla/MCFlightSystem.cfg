CONSTANTS
  Calls = {c1, c2, c3}
  MaxPrepared = 3
  Queries = {"match", "insert_returning"}
  MaxMinted = 6
  MaxCalls = 12
  NumDemos = 1
  Faults = FALSE
  Kinds = {"plain", "sql"}
  Disconnects = 1
SPECIFICATION SysSpec
SYMMETRY ClientSymmetry
CHECK_DEADLOCK FALSE
INVARIANTS
  SysTypeOK
  FailuresHaveCauses
  LiveHandlesHaveOwners
  AtMostOnce
PROPERTIES
  ImplementsQueryService
  NoAnswerGoesBack
