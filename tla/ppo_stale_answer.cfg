SPECIFICATION Spec
CONSTANTS
  Threads = {t1}
  Server = server
  None = None
  Zero = Zero
  Algo = "PPO"
  Continue = FALSE
  AgentFirst = TRUE
  LearnEnds = FALSE
  AllowStop = FALSE
  TransitionSteps = 0
  MaxRequests = 3
  MaxTimeouts = 0
  MaxSims = 1
INVARIANTS FreshAction
CHECK_DEADLOCK FALSE
