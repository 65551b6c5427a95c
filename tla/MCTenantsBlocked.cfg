CONSTANTS
  None = None
  Clients = {"c1", "c2"}
  Names = {"acme", "Acme!", "beta", "!!"}
  Slugs = {"acme", "beta"}
  Emails = {"e1", "e2"}
  Hosts <- MCHosts
  SlugOf <- MCSlugOf
  HostOf <- MCHostOf
  Bodies <- MCBodies
  Sends <- SendsAll
  Adds <- AddsNone
  RealSub2API = TRUE
  RealCloudflare = TRUE
  TenantKey = FALSE
  CrashBound = 0
SPECIFICATION FairSpec
CHECK_DEADLOCK FALSE
PROPERTIES RequestsAnswered
