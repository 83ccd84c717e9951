CONSTANTS
  COUNT_MOD = 256
  Dividers = {0, 1, 99, 200, 255}
SPECIFICATION DividerSpec
PROPERTY HalfPeriod
