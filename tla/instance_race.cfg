SPECIFICATION LockSpec
CONSTANTS
  p1 = p1
  p2 = p2
  Dead = Dead
  NoOwner = NoOwner
  NoDir = NoDir
  NoFile = NoFile
  Processes = {p1, p2}
  Leftovers = {NoDir}
  LeftFiles <- NoLeftFile
  MaxAcquisitions = 1
  MaxStarts = 1
CHECK_DEADLOCK FALSE
INVARIANTS
  OneService
