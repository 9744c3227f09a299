SPECIFICATION RunSpec
CONSTANTS
  Imports = {i1, i2}
  NoImport = NoImport
  PackageCount = 2
  MaxAttempts = 2
  MaxFaults = 0
  MaxCrashes = 1
  Versions = {v1, v2}
  Gone = Gone
  MaxChanges = 2
INVARIANTS RecordsAreTrue DeletesFollowRecords OneStartPerObjects
PROPERTIES NoArchiveWithoutManifest
SYMMETRY Interchangeable
CHECK_DEADLOCK FALSE
