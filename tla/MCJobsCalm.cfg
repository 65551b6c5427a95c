CONSTANTS
  None = None
  Tenants = {t1}
  Keys = {"k1", "k2"}
  Runners = {r1, r2}
  Cancellers = {}
  RunModes = {FALSE}
  Requests <- TwoRequests
  RetryRequests <- TwoRetries
  TickLimit = 5
  PayloadLimit = 3
  RealK8s = TRUE
  RealNewAPI = TRUE
  RealSub2API = TRUE
  MaxJobs = 2
  AttemptBound = 2
  CrashBound = 1
SPECIFICATION FairSpec
CHECK_DEADLOCK FALSE
INVARIANTS OneAttemptAtATime
PROPERTIES SucceededIsFinal ImplementsLifecycle QueueDrains AttemptsEnd
