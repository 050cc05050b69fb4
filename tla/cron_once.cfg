SPECIFICATION Spec
CONSTANTS
  NoRun = NoRun
  Jobs = {j1}
  EnabledLimit = 1
  MaxFailures = 2
  Lanes = {1, 2}
  MaxEdits = 1
  MaxMishaps = 0
CHECK_DEADLOCK FALSE
INVARIANTS
  OneAttempt
