SPECIFICATION Spec
CONSTANTS
  Threads = {t1}
  Server = server
  None = None
  Zero = Zero
  Algo = "DQN"
  Continue = TRUE
  AgentFirst = FALSE
  LearnEnds = FALSE
  AllowStop = FALSE
  TransitionSteps = 2
  MaxRequests = 4
  MaxTimeouts = 0
  MaxSims = 1
PROPERTIES HandlerReturns
CHECK_DEADLOCK FALSE
