SPECIFICATION FairSpec
CONSTANTS
  g1 = g1
  g2 = g2
  k = k
  N = 0
  Pursuits = {g1, g2}
  Compaction = k
  None = None
  MaxTroubles = 0
  MaxGoalTurns = 0
PROPERTY WatchResolves
CHECK_DEADLOCK FALSE
