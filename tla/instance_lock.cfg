SPECIFICATION LockSpec
CONSTANTS
  p1 = p1
  p2 = p2
  Dead = Dead
  NoOwner = NoOwner
  NoDir = NoDir
  NoFile = NoFile
  Processes = {p1, p2}
  Leftovers = {NoDir, Dead, NoOwner}
  LeftFiles <- AnyLeftFile
  MaxAcquisitions = 2
  MaxStarts = 2
CHECK_DEADLOCK FALSE
INVARIANTS
  SingleService
PROPERTIES
  ReportsUncleanEnd
  EveryStartEnds
