CONSTANTS
    MAX_FILES = 1
    FileSize = 3
    PGSIZE = 2
    FirstFree = 2
    MmapMax = 10
    FREE_PAGES = 6
    PTES = 4
    MAX_VMR = 3
    StackSize = 2
    Segments <- OneSegment
    Lengths = {2, 3}
    Prots <- ReadOrAll
    Offsets = {2}
    MaxCalls = 3
SPECIFICATION Spec
INVARIANTS VmrCounts FileCounts NoRightGained AssertsHold
PROPERTIES BrkGrowsClear Implements
CHECK_DEADLOCK FALSE
