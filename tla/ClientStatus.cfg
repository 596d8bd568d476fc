SPECIFICATION StatusSpec
CONSTANTS
  Instances = {i1, i2}
  StreamOps = {s1}
  RequestOps = {r1}
  Loads = {0, 1}
  None = None
  Lost = Lost
  MaxCrashes = 1
  MaxLate = 1
  MaxDrops = 1
INVARIANTS ClientTypeOK AskedIsWatched WaitsOnlyWhenNone TradableIsStreamed FooterTells
PROPERTIES NoneHangsOnDeadInstance StreamsRecover
CHECK_DEADLOCK FALSE
