SPECIFICATION Spec
CONSTANTS
  Streams = {s1}
  Symbols = {"EURUSD"}
  Requests = {r1, r2}
  MaxEvents = 0
  MaxConnects = 1
INVARIANTS PairsChangeInTurn StreamsMirrorCache
CHECK_DEADLOCK FALSE
