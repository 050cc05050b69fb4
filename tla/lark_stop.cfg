SPECIFICATION Spec
CONSTANTS
  c1 = c1
  N = 2
  Kinds = {"text", "attachment", "quote", "q", "goal", "command"}
  Modes = {"fifo", "preempt-batch"}
  Cards = {c1}
  None = None
  MaxTouches = 2
  MaxWaitCards = 0
PROPERTY StopSparesThePursuit
CHECK_DEADLOCK FALSE
