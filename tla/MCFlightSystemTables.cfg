CONSTANTS
  Calls = {c1, c2, c3}
  MaxPrepared = 3
  Queries = {"match", "insert_returning", "create_table", "drop_table"}
  MaxMinted = 6
  MaxCalls = 12
  NumDemos = 1
  Faults = FALSE
  Kinds = {"plain", "sql"}
  Disconnects = 0
SPECIFICATION SysSpec
SYMMETRY ClientSymmetry
CHECK_DEADLOCK FALSE
INVARIANT SchemaDescribesData
