SPECIFICATION Spec
CONSTANTS
  UEs = {1, 2}
  Capacity = 2
  MaxSims = 2
  MaxLog = 5
INVARIANTS RowsMatch LossBounded
CHECK_DEADLOCK FALSE
