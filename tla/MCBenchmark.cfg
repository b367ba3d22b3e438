SPECIFICATION BenchSpec
CONSTANTS
  Cases <- SmallCases
  Warmups = 1
  Labels = 2
  Width = 16
  QueriesFail = TRUE
INVARIANTS
  SharesAddUp
  RowsAreHonest
PROPERTY BenchEnds
CHECK_DEADLOCK FALSE
