CONSTANTS
  None = None
  Requests = {"q1", "q2"}
  Targets <- MCTargets
  RealK8s = FALSE
  RealNewAPI = FALSE
  RealSub2API = FALSE
  ArrivalBound = 4
  CrashBound = 0
SPECIFICATION Spec
CHECK_DEADLOCK FALSE
PROPERTIES DeployRecorded
