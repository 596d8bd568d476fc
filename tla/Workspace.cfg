SPECIFICATION Spec
CONSTANTS
  Pairs = {p1, p2}
  Panels = {analytics, blotter}
  Sidebar = {analytics}
  MaxChanges = 3
  MaxDrops = 1
  MaxRestarts = 1
INVARIANTS WorkspaceTypeOK TilesMatchPairs CacheFollowsServer ShownOnceAsSaved
CHECK_DEADLOCK FALSE
