SPECIFICATION ImportFairSpec
CONSTANTS
  Imports = {i1, i2}
  NoImport = NoImport
  PackageCount = 1
  MaxAttempts = 2
  MaxFaults = 1
  MaxCrashes = 1
INVARIANTS NothingForgotten
PROPERTIES ImplementsImportLifecycle EachIsServedOrStopped
CHECK_DEADLOCK FALSE
