SPECIFICATION Spec
CONSTANTS
  Threads = {t1}
  Server = server
  None = None
  Zero = Zero
  Algo = "PPO"
  Continue = TRUE
  AgentFirst = TRUE
  LearnEnds = TRUE
  AllowStop = FALSE
  TransitionSteps = 2
  MaxRequests = 6
  MaxTimeouts = 1
  MaxSims = 2
INVARIANTS PpoLag TransitionBounded
PROPERTY HandlerReturns
CHECK_DEADLOCK FALSE
