SPECIFICATION Spec
CONSTANTS
  Clients = {c1, c2, c3}
  Limits = {1, 2}
  Window = 3
  Slack = 1
  BucketBound = 2
  AskBound = 4
  FaultBound = 1
SYMMETRY Symmetry
INVARIANTS TypeOK AdmittedWithinLimit KeyOutlivesWindow ImmortalOnlyByFault
CHECK_DEADLOCK FALSE
