SPECIFICATION FairIntake
CONSTANTS
  N = 3
  Kinds <- KindsTried
  Processors = {1, 2}
  MaxEvents = 4
CHECK_DEADLOCK FALSE
INVARIANTS
  NothingLost
  HandledOnce
PROPERTIES
  CatchesUp
