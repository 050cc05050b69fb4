SPECIFICATION Spec
CONSTANTS
  r1 = r1
  Replies = {r1}
  Early = {r1}
  Faulty = {r1}
  MaxAttempts = 2
  MaxUnclean = 2
  MaxStops = 4
CHECK_DEADLOCK FALSE
INVARIANTS
  DeliveredWasComplete
  RedeliveryBounded
  FirstRedeliveryHonest
  RecoveryLoopBroken
PROPERTIES
  OrphanSettles
