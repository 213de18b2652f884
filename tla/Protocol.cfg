CONSTANTS
  PathOrder <- MCPathOrder
  BundlePath <- Bundle
  Precompressed = {}
  NoKey = 0
  Payloads <- MCPayloads
  Targets = {"android"}
  MinBuilds = {0, 2}
  Ranges <- MCRanges
  Apps <- MCApps
  Devices = {"d1"}
  MaxKeygens = 2
  MaxReleases = 2
  NotInstalled = NotInstalled
  Values <- MCValues
  Height <- MCHeight
  Objects <- MCObjects
  MemberKeys = {"files", "path", "sha"}
  Sorted <- MCSorted
  Texts <- MCTexts
  NotFinite = {"Infinity"}
  Undefined = "undefined"
  MaxHops = 2
  Nothing = Nothing
SPECIFICATION MCSpec
CHECK_DEADLOCK FALSE
INVARIANTS
  ReachesTheField
  
  
  AcceptsWhatWasSigned
