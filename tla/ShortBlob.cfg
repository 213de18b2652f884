CONSTANTS
  Uploads = {u1, u2}
  Size = 2
  Files <- MCFiles
  BlobStores = {"disk"}
  OneAtATime = FALSE
  MaxStops = 2
  NoFile = NoFile
SPECIFICATION BlobSpec
CHECK_DEADLOCK FALSE
INVARIANTS
  CrashLeavesNoShortBlob
