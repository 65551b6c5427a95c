CONSTANTS
  None = None
  Names <- MCNames
  WorkloadKinds <- MCKinds
  Selected = {"Deployment"}
  Slugs = {"c1", "c2"}
  Emails = {"e1", "e2"}
  Shared = "shared"
  Configs <- MCConfigs
  ScriptBound = 3
  ChangeBound = 2
SPECIFICATION Spec
CHECK_DEADLOCK FALSE
INVARIANTS TypeOK OnlyK8sTouched CompletedMeansCreated CleanupHonest
PROPERTIES OthersSurvive
