CONSTANTS
  None = None
  Tenants = {t1}
  Keys = {"k1", "k2"}
  Runners = {r1, r2}
  Cancellers = {c1, c2}
  RunModes = {TRUE, FALSE}
  Requests <- TwoRequests
  RetryRequests <- RaceRetries
  TickLimit = 5
  PayloadLimit = 3
  RealK8s = TRUE
  RealNewAPI = TRUE
  RealSub2API = TRUE
  MaxJobs = 1
  AttemptBound = 2
  CrashBound = 1
SYMMETRY MCSymmetry
SPECIFICATION Spec
CHECK_DEADLOCK FALSE
INVARIANTS TypeOK AttemptsAreCounted AttemptsAccounted RunningIsOwned OneChannelPerAttempt ActiveTenantIsBound
PROPERTIES WithinBudget
