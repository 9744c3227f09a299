SPECIFICATION ExportFairSpec
CONSTANTS
  N = 3
  Parallel = 2
  Digests = {d1, d2}
  Other = other
  NoSum = none
INVARIANTS ShippedIsVerified CauseIsKept LastEventIsExact
PROPERTIES StopEndsExport
CHECK_DEADLOCK FALSE
