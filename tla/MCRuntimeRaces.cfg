CONSTANTS
  None = None
  Requests = {"q1", "q2"}
  Targets <- MCTargets
  RealK8s = TRUE
  RealNewAPI = TRUE
  RealSub2API = FALSE
  ArrivalBound = 3
  CrashBound = 1
SPECIFICATION FairSpec
CHECK_DEADLOCK FALSE
INVARIANTS TypeOK Mirror ProvisionDelivers
PROPERTIES RequestsEnd
