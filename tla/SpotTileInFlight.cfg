SPECIFICATION TileSpec
CONSTANTS
  Tickets = {t1}
  Closes = {c1}
  LimitChecker = FALSE
  None = None
PROPERTY InFlightEnds
CHECK_DEADLOCK FALSE
