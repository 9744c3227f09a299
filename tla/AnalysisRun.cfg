SPECIFICATION AnalysisFairSpec
CONSTANTS
  Deps = 2
  MaxNewer = 2
  MaxVersions = 4
  Parallel = 2
  MaxVector = 2
INVARIANTS CancelMeetsBothScans ProposalsAreMeasured
PROPERTIES CancelEndsAnalysis
CHECK_DEADLOCK FALSE
