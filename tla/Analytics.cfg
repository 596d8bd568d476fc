SPECIFICATION Spec
CONSTANTS
  Streams = {host}
  TradeIds = {1}
  MaxEvents = 2
  MaxConnects = 2
  MaxRelaunches = 1
INVARIANT DoneTradesCountedOnce
CHECK_DEADLOCK FALSE
