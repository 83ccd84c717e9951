CONSTANTS
    Rcas = {1, 7}
    Polls = {1, 42, 43}
    Sectors = {0, 5}
    MaxCount = 2
SPECIFICATION Spec
INVARIANTS InitialisedIsReady StuckOnlyWithout
PROPERTIES SectorExact
CHECK_DEADLOCK FALSE
