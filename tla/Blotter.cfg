SPECIFICATION Spec
CONSTANTS
  MaxTrades = 2
  MaxSotw = 1
  Topics = {a, b, c}
  NoTopic = NoTopic
  MaxQueue = 1
  Finals = {"Done"}
  Fickle = {1}
  MaxCrashes = 1
  MaxFaults = 2
INVARIANTS BlotterTypeOK ExpiredReconnects   StreamsEndWithTopics
PROPERTIES BlotterRecovers
CHECK_DEADLOCK FALSE
