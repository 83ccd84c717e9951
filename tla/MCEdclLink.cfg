SPECIFICATION FairSpec
CONSTANTS
  SIZE = 3
  CHUNK = 2
  SEQ_MOD = 3
  NBUF = 2
  Lengths = {1, 3}
  MaxCalls = 3
CHECK_DEADLOCK FALSE
INVARIANTS
  ReturnExact
  OncePerCall
  MisledOncePerLate
PROPERTIES
  CallReturns
