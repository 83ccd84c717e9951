CONSTANTS
  INIT_DELAY = 74
  BITS_TO_SEND = 48
  CMD_SIZE = 40
  RESP_SIZE_LONG = 127
  RESP_SIZE_SHORT = 39
  Timeouts = {14}
  MinDelay = 2
  MaxDelay = 13
SPECIFICATION FairSpec
INVARIANT NoContention
INVARIANT FrameIntact
INVARIANT FinishNotStale
PROPERTY AnswerDelivered
PROPERTY Implements
