CONSTANTS
  None = None
  Clients = {"c1", "c2", "c3"}
  Names = {"acme", "Acme!", "beta", "!!"}
  Slugs = {"acme", "beta"}
  Emails = {"e1", "e2"}
  Hosts <- MCHosts
  SlugOf <- MCSlugOf
  HostOf <- MCHostOf
  Bodies <- MCBodies
  Sends <- SendsAll
  Adds <- AddsAll
  RealSub2API = TRUE
  RealCloudflare = TRUE
  TenantKey = FALSE
  CrashBound = 1
SPECIFICATION FairSpec
CHECK_DEADLOCK FALSE
INVARIANTS TypeOK ManifestMatches SubdomainOwned
PROPERTIES ImplementsRegistry AnsweredUnlessBlocked
