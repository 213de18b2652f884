SPECIFICATION Spec
CONSTANTS
  b1 = b1
  b2 = b2
  i1 = i1
  ch1 = ch1
  Bundles = {b1, b2}
  Version <- MCVersion
  Runtime <- MCRuntime
  Channel <- MCChannel
  Runtimes = {"r1"}
  Channels = {ch1}
  Installs = {i1}
  InRollout <- MCInRollout
  Statuses <- MCStatuses
  Checks = {c1, c2}
  Workers = {w1, w2}
  NonceTtl = 1
  DownloadTtl = 1
  Lag = 1
  Travel = 1
  MaxTime = 3
  MaxReports = 2
  NoBundle = NoBundle
  None = None
CONSTRAINT Bound
SYMMETRY Symmetric
CHECK_DEADLOCK FALSE
INVARIANTS EachReportCountsOnce FailuresGetThrough 
