CONSTANTS
  Bundles = {"b1", "b2"}
  Manifests = {"first", "retry", "other"}
  BundleId <- MCBundleId
  Blobs = {"x", "y"}
  BlobsOf <- MCBlobsOf
  Rollouts = {100}
  Installs = {i1, i2}
  MinSamples = 2
  FailureRate = 50
  MaxReports = 2
  Workers = {w1, w2}
  Deployments = {FALSE, TRUE}
  NoRelease = NoRelease
  NoRequest = NoRequest
  Free = Free
SPECIFICATION Spec
SYMMETRY Interchangeable
CONSTRAINTS OneReleaseNetworked OneReport
INVARIANTS
  FinalizedIsWhole
  EachInstallCountsOnce
PROPERTIES
  KillSwitchHolds
  
