CONSTANTS
  baud = 8
  Bytes <- SomeBytes
  BitTimes = {31, 32, 33}
  StopBits = {1, 2}
  Glitches = {1, 2, 5}
  WriteToPoll = 2
SPECIFICATION FairSpec
INVARIANT NoByteLost
INVARIANT GlitchFiltered
INVARIANT ErrorsCounted
PROPERTY BytesExact
PROPERTY BytesArrive
