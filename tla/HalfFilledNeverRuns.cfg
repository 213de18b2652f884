CONSTANTS
  Bundles = {1}
  Version <- MCVersion
  Binaries = {n1}
  Targets <- MCTargets
  Broken = {}
  MaxBootAttempts = 2
  SaveMayFail = FALSE
  NoSlot = NoSlot
  Embedded = Embedded
SPECIFICATION Spec
PROPERTIES
  HalfFilledNeverRuns
