SPECIFICATION FairSpec
CONSTANTS
  a = a
  b = b
  t1 = t1
  t2 = t2
  t3 = t3
  n1 = n1
  n2 = n2
  None = None
  Conversations = {a, b}
  Turns = {t1, t2, t3}
  Nested = {n1, n2}
  Named = {t1}
  RefusesBusy = TRUE
  MaxClears = 2
CHECK_DEADLOCK FALSE
INVARIANTS
  Serial
  SkipsExactlyTheDropped
PROPERTIES
  EverySettles
