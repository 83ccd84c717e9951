CONSTANTS
    Harts = {h1, h2}
    Console = h1
    Msgs = {m1, m2}
    Null = Null
    MaxChars = 2
    MAX_FILES = 1
    FileSize = 1
SPECIFICATION Spec
SYMMETRY Symmetry
INVARIANTS EventSignalled NothingLost
PROPERTIES Implements
CHECK_DEADLOCK FALSE
