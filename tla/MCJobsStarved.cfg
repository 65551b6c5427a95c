CONSTANTS
  None = None
  Tenants = {t1}
  Keys = {"k1", "k2"}
  Runners = {r1}
  Cancellers = {}
  RunModes = {FALSE}
  Requests <- TwoRequests
  RetryRequests <- LoweringRetries
  TickLimit = 1
  PayloadLimit = 3
  RealK8s = FALSE
  RealNewAPI = FALSE
  RealSub2API = FALSE
  MaxJobs = 2
  AttemptBound = 2
  CrashBound = 0
SPECIFICATION FairSpec
CHECK_DEADLOCK FALSE
PROPERTIES QueueDrains
