SPECIFICATION Spec
CONSTANTS
  Threads = {t1, t2}
  Server = server
  None = None
  Zero = Zero
  Algo = "DQN"
  Continue = TRUE
  AgentFirst = TRUE
  LearnEnds = FALSE
  AllowStop = TRUE
  TransitionSteps = 2
  MaxRequests = 4
  MaxTimeouts = 1
  MaxSims = 2
INVARIANTS TypeOK FreshAction CreditOrDefault NoLostWakeup
PROPERTIES NoReportLost HandlerReturns ServiceSpec
