SPECIFICATION Spec
CONSTANTS
  Client = {c1, c2}
  Name = {desk}
  Link = {l1}
  None = none
  MaxChanges = 2
  MaxRequests = 3
  MaxFaults = 1
INVARIANTS TypeOK LoadsOnlySaved SavedSnapshotLoads
PROPERTIES RestoreReaches ShutdownEnds
CHECK_DEADLOCK FALSE
