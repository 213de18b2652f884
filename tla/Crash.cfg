CONSTANTS
  Bundles = {1, 2}
  Version <- MCVersion
  Binaries = {n1}
  Targets <- MCTargets
  Broken = {1}
  MaxBootAttempts = 2
  SaveMayFail = FALSE
  NoSlot = NoSlot
  Embedded = Embedded
SPECIFICATION FairHistorySpec
INVARIANTS
  CrashesAreCounted
PROPERTIES
  
  TrialEscapesCrashLoop
