CONSTANTS
  COUNT_MOD = 128
  BlkSizes = {1, 8}
  Transfers <- Transfers_4bit_and_read
  Timeouts = {6}
  MinDelay = 2
  MaxDelay = 5
  MaxAck = 1
  MaxBusy = 5
SPECIFICATION FairSpec
INVARIANT LanesOwned
INVARIANT BlockSent
PROPERTY BlockDelivered
PROPERTY FinishMeansDone
PROPERTY Implements
