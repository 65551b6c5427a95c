CONSTANTS
  None = None
  Tenants = {t1}
  Keys = {"k1", "k2"}
  Runners = {r1, r2}
  Cancellers = {c1}
  RunModes = {TRUE, FALSE}
  Requests <- PhaseRequests
  RetryRequests <- TwoRetries
  TickLimit = 5
  PayloadLimit = 3
  RealK8s = FALSE
  RealNewAPI = FALSE
  RealSub2API = FALSE
  MaxJobs = 2
  AttemptBound = 2
  CrashBound = 1
SYMMETRY MCSymmetry
SPECIFICATION Spec
CHECK_DEADLOCK FALSE
INVARIANTS KeysUnique ActiveTenantIsServed
