SPECIFICATION StartSpec
CONSTANTS
  MaxStarts = 3
  MaxFaults = 1
INVARIANTS
  StartTypeOK
  WholeAfterOneGoodStart
  MemoryServesTheDemo
  ServesItsTables
CHECK_DEADLOCK FALSE
