CONSTANTS
  Bundles = {1, 2}
  Version <- MCVersion
  Binaries = {n1, n2}
  Targets <- MCOneTarget
  Broken = {}
  MaxBootAttempts = 2
  SaveMayFail = TRUE
  NoSlot = NoSlot
  Embedded = Embedded
SPECIFICATION Spec
INVARIANTS
  SlotsBacked
  RunningKeepsFiles
  ReloadNeverMasksCrash
PROPERTIES
  BlessesNoOther
  LaunchesCompatible
  ImplementsLifecycle
