SPECIFICATION Spec
CONSTANTS
  Providers = {p1, p2}
  Calls = {c1, c2}
  NoCall = NoCall
  RejectedCalls = {c1}
  Multiplier = 2
  HiValueTryCount = 2
  SerialContinuations = FALSE
  MaxRestarts = 1
INVARIANTS TypeOK TradeStreamsSound AnswersAreOnRecord
PROPERTIES ImplementsBook PendingIsAccountedFor EveryCallEnds
CHECK_DEADLOCK FALSE
