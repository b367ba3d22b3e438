CONSTANTS
  Calls = {c1, c2}
  MaxPrepared = 1
  Queries = {"match", "insert"}
  MaxMinted = 8
  MaxCalls = 4
  NumDemos = 1
  Faults = FALSE
  MaxRestarts = 1
SPECIFICATION RestartSpec
SYMMETRY SlotSymmetry
CHECK_DEADLOCK FALSE
INVARIANTS
  HandlesKeepMeaning
  ClosedStaysClosed
  LostHandlesStayDead
  NotFoundIsDeservedOrLost
