CONSTANTS
  DefaultLimit = 1
  AdminLimit = 2
  BlobLimit = 2
  MaxLength = 4
  Window = 2
  MaxRequests = 2
  Networked = FALSE
  None = None
  Uploads = {u1, u2}
  Size = 2
  Files <- MCFiles
  BlobStores = {"disk", "s3"}
  OneAtATime = TRUE
  MaxStops = 2
  NoFile = NoFile
  Databases = {"disk", "sqlite", "postgres"}
  Calls = {c1, c2}
  MaxWrites = 2
  MaxReads = 1
  MaxFaults = 2
  MaxRestarts = 1
  Torn = Torn
  Ttl = 2
  MaxRate = 2
  MaxHits = 4
  MaxTime = 4
  MaxLost = 2
  MaxLives = 1
  Sizes = {0, 2, 3}
  MaxDrops = 2
  MaxKills = 2
  NoBytes = NoBytes
  Environments <- MCEnvironments
  OptionSets <- MCOptionSets
  Number <- MCNumber
  EnrollRate = 1
  Nonces = {n1}
  AdminTokens = {"", "secret"}
  MaxBackends = 1
  MaxEnrols = 2
  Undefined = Undefined
  NoAnswer = NoAnswer
SPECIFICATION MCSpec
CHECK_DEADLOCK FALSE
INVARIANTS
  
  BlobIsWhole
  ReadsAreHonest
  
PROPERTIES
  
  RecoversOnceOpened
  
  BlobArrivesSigned
