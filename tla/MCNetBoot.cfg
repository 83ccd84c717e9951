SPECIFICATION FairSpec
CONSTANTS
  edcl_max = 2
  IMAGE = 12
  SHM = 15
  Files <- Tidy
  MaxRuns = 2
  MaxFaults = 1
  MaxResets = 1
CHECK_DEADLOCK FALSE
INVARIANTS
  BootExact
  OnlyWrittenSlots
  OneListPerTrigger
PROPERTIES
  BootHappens
