SPECIFICATION Spec
CONSTANTS
  Configs <- MCConfigs
  MinUes = 2
  SavedUes = 2
  TransitionSteps = 1
  DqnV = 4
  DqnWg = 2
  PpoV = 3
  PpoWq = 1
  PpoWg = 2
  RandomV = 1
  RandomW = 1
  Fixed <- MCFixed
  None = None
INVARIANTS TypeOK Serves ReplyDecodes PredictsWithSaved EntryForEach
