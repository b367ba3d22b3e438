SPECIFICATION StartSpec
CONSTANTS
  MaxStarts = 2
  MaxFaults = 0
INVARIANTS
  DemoIsIdempotent
CHECK_DEADLOCK FALSE
