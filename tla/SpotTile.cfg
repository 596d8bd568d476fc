SPECIFICATION TileSpec
CONSTANTS
  Tickets = {t1, t2}
  Closes = {c1}
  LimitChecker = TRUE
  None = None
INVARIANTS TileTypeOK ReportsLastTicket WarnsWhenPricingDown
PROPERTY SentIsGivenUp
CHECK_DEADLOCK FALSE
