SPECIFICATION Spec
CONSTANTS
  t1 = t1
  t2 = t2
  blotter = blotter
  Names = {t1, t2, blotter}
  NoName = NoName
  Dockable = {t1, t2}
  Size <- MCSize
  Monitor <- MCMonitor
  Points <- MCPoints
  Home <- MCHome
  MaxWindows = 3
  MaxActs = 3
  MaxRestarts = 1
INVARIANTS DockingTypeOK NoLoneMember DockedIsTold OnlyFoundersOverlap
PROPERTIES HowClosedStays
CHECK_DEADLOCK FALSE
