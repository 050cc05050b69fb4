SPECIFICATION FairSpec
CONSTANTS
  NoRun = NoRun
  Jobs = {j1}
  EnabledLimit = 1
  MaxFailures = 2
  Lanes = {1, 2}
  MaxEdits = 2
  MaxMishaps = 2
CHECK_DEADLOCK FALSE
INVARIANTS
  NoOverlap
  EnabledIsArmed
  StreakDisables
PROPERTIES
  OneShotSettles
