CONSTANTS
  Bundles = {1, 2}
  Mandatory = {2}
  AutoStage = FALSE
  AutoDownload = TRUE
  CheckOnForeground = TRUE
  AutoMarkHealthy = TRUE
  MaxReports = 2
  MaxLaunches = 2
  None = None
  Ids = {i1, i2}
  Builds = {1, 2, 3}
  Retired <- MCRetired
  Channels = {"prod", "malformed"}
  Policies <- MCPolicies
  AppLink = "market"
  MaxFaults = 3
  Unset = Unset
SPECIFICATION MCSpec
CHECK_DEADLOCK FALSE
INVARIANTS
  HealthyFindsNonceUnspent
  
PROPERTIES
  
  
  GateFollowsThePolicy
