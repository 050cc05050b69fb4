SPECIFICATION Spec
CONSTANTS
  c1 = c1
  N = 3
  Kinds = {"text", "attachment", "quote", "q", "goal", "command"}
  Modes = {"fifo", "preempt-batch"}
  Cards = {c1}
  None = None
  MaxTouches = 1
  MaxWaitCards = 1
INVARIANTS StopReaches BurstGoesFirst NoStaleWaitCard NeverStuck
PROPERTY PursuitSurvives
CHECK_DEADLOCK FALSE
