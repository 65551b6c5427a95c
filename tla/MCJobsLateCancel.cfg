CONSTANTS
  None = None
  Tenants = {t1}
  Keys = {"k1", "k2"}
  Runners = {r1}
  Cancellers = {c1}
  RunModes = {FALSE}
  Requests <- TwoRequests
  RetryRequests <- TwoRetries
  TickLimit = 1
  PayloadLimit = 3
  RealK8s = FALSE
  RealNewAPI = FALSE
  RealSub2API = FALSE
  MaxJobs = 1
  AttemptBound = 2
  CrashBound = 0
SPECIFICATION Spec
CHECK_DEADLOCK FALSE
PROPERTIES CancelOnlyQueued
