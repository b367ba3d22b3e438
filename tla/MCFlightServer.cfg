CONSTANTS
  Calls = {c1, c2}
  MaxPrepared = 1
  Queries = {"match", "constant", "insert", "insert_returning", "create_table", "drop_table"}
  MaxMinted = 6
  MaxCalls = 2
  NumDemos = 2
  Faults = TRUE
SPECIFICATION ServerLiveSpec
CHECK_DEADLOCK FALSE
INVARIANTS
  ServerTypeOK
  AnswersTellEffects
  NotFoundIsDeserved
PROPERTIES
  UsesTheCache
  EveryCallIsAnswered
