SPECIFICATION Spec
CONSTANTS
  edcl_max = 2
  IMAGE = 12
  SHM = 15
  Files <- Debug
  MaxRuns = 1
  MaxFaults = 0
  MaxResets = 0
CHECK_DEADLOCK FALSE
INVARIANT SectionsLoaded
