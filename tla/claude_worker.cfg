SPECIFICATION Spec
CONSTANTS
  t1 = t1
  t2 = t2
  k1 = k1
  k2 = k2
  None = None
  Turns = {t1, t2}
  Tasks = {k1, k2}
  Workers = {1, 2}
  Styles = {"envelope", "init"}
SYMMETRY ClaudeSymmetry
CHECK_DEADLOCK FALSE
INVARIANTS
  ShownOnce
  AnswerIsItsOwn
  NobodyWaitsUnarmed
PROPERTIES
  ReviewReachesItsTask
