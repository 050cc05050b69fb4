SPECIFICATION MutexSpec
CONSTANTS
  Dead = Dead
  NoOwner = NoOwner
  NoDir = NoDir
  Processes = {p1, p2}
  Leftovers = {NoOwner}
  MaxAcquisitions = 1
CHECK_DEADLOCK FALSE
INVARIANTS
  MutualExclusion
