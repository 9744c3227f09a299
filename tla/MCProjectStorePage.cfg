SPECIFICATION Spec
CONSTANTS
  Ids = {p1}
  Clients = {r1, r2}
  Jobs = {j1, j2}
  Targets = {linux, other}
  DefaultTarget = linux
  Keys = {k1}
  Mask = Mask
  NoKey = NoKey
  NoId = NoId
  NoClient = NoClient
  NoJob = NoJob
  NoRecord = NoRecord
  MaxRequests = 3
  MaxFaults = 0
  MaxRestarts = 0
INVARIANT PageShowsEveryJob
SYMMETRY Symmetry
CHECK_DEADLOCK FALSE
