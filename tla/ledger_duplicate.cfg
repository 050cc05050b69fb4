SPECIFICATION Spec
CONSTANTS
  r1 = r1
  Replies = {r1}
  Early = {}
  Faulty = {}
  MaxAttempts = 2
  MaxUnclean = 3
  MaxStops = 3
CHECK_DEADLOCK FALSE
INVARIANTS
  NoSilentDuplicate
