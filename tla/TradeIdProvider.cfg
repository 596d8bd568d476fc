SPECIFICATION IdSpec
CONSTANTS
  Providers = {p1, p2}
  Calls = {c1, c2, c3}
  NoCall = NoCall
  Multiplier = 1
  HiValueTryCount = 2
  SerialContinuations = FALSE
  MaxRestarts = 1
INVARIANTS IdTypeOK HiValuesNotShared
SYMMETRY CallSymmetry
CHECK_DEADLOCK FALSE
