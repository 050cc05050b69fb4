SPECIFICATION MutexSpec
CONSTANTS
  Dead = Dead
  NoOwner = NoOwner
  NoDir = NoDir
  Processes = {p1, p2}
  Leftovers = {NoDir, Dead}
  MaxAcquisitions = 3
CHECK_DEADLOCK FALSE
INVARIANTS
  ExclusionByToken
PROPERTIES
  EventuallyAcquired
