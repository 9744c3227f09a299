SPECIFICATION ServiceSpec
CONSTANTS
  Jobs = {j1, j2}
  NoJob = NoJob
  RandomSuffixes = {x}
  NoSuffix = NoSuffix
  NoDir = NoDir
  Seconds = {t1}
  MaxCrashes = 1
  MaxFaults = 1
INVARIANTS IndexFollowsJobs DiskTellsTheVerdict OwnDirectory
SYMMETRY Symmetry
CHECK_DEADLOCK FALSE
