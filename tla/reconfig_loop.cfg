SPECIFICATION Spec
CONSTANTS
  N = 3
  NTraced = 2
  ServerMin = 3
  Period = 2
  Interval = 2
  MaxSlots = 2
  Dead = Dead
  None = None
INVARIANTS TypeOK RegistryBounded FullReportExact RewardMeasured UpdatedEverySlot
PROPERTIES LoopRuns
