SPECIFICATION FairSpec
CONSTANTS
  UEs = {1, 2, 3}
  NumProc = 1
  MaxRv = 1
  MaxDelay = 2
  MaxSym = 3
  Fronthaul = FALSE
INVARIANTS TypeOK OneFeedback PacketsKept
PROPERTIES LargeFreed
