SPECIFICATION FairSpec
CONSTANTS
  g1 = g1
  g2 = g2
  k = k
  N = 2
  Pursuits = {g1}
  Compaction = k
  None = None
  MaxTroubles = 1
  MaxGoalTurns = 1
INVARIANTS TypeOK CompactionKeptApart GoalForgotten
CHECK_DEADLOCK FALSE
