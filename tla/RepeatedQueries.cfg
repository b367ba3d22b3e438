CONSTANTS
  Calls = {c1, c2}
  MaxPrepared = 2
  Queries = {"match", "constant", "insert"}
  MaxMinted = 12
  MaxCalls = 20
  NumDemos = 1
  Faults = FALSE
  Kinds = {"plain", "sql"}
  Disconnects = 1
  Probers = {c2}
  MaxQueries = 1
SPECIFICATION RepeatSpec
CHECK_DEADLOCK FALSE
INVARIANTS
  FailsWhenDisplacedOnly
  RoundTripRuns
PROPERTY QueriesEnd
