SPECIFICATION IdSpec
CONSTANTS
  Providers = {p1}
  Calls = {c1, c2, c3}
  NoCall = NoCall
  Multiplier = 2
  HiValueTryCount = 3
  SerialContinuations = TRUE
  MaxRestarts = 0
INVARIANT UniqueIds
CHECK_DEADLOCK FALSE
