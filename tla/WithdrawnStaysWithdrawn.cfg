CONSTANTS
  Bundles = {"b1"}
  Manifests = {"first"}
  BundleId <- MCBundleId
  Blobs = {"x"}
  BlobsOf <- MCBlobsOf
  Rollouts = {100}
  Installs = {i1, i2}
  MinSamples = 2
  FailureRate = 50
  MaxReports = 2
  Workers = {w1, w2}
  Deployments = {TRUE}
  NoRelease = NoRelease
  NoRequest = NoRequest
  Free = Free
SPECIFICATION Spec
SYMMETRY Interchangeable
PROPERTIES
  WithdrawnStaysWithdrawn
