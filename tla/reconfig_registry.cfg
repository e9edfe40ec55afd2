SPECIFICATION Spec
CONSTANTS
  N = 3
  NTraced = 2
  ServerMin = 3
  Period = 2
  Interval = 1
  MaxSlots = 2
  Dead = Dead
  None = None
INVARIANTS UpdatedAtMostOnce
