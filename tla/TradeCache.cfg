SPECIFICATION CacheSpec
CONSTANTS
  Streams = {s1}
  TradeIds = {1, 2}
  MaxEvents = 2
  MaxConnects = 2
INVARIANTS CacheTypeOK CacheIsReplay StreamsMirrorCache
PROPERTY StreamsConverge
CHECK_DEADLOCK FALSE
