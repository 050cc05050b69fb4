SPECIFICATION Spec
CONSTANTS
  t1 = t1
  a1 = a1
  t2 = t2
  t3 = t3
  conv = conv
  Tasks = {t1}
  Agents = {}
  NoAgent = NoAgent
  NoTask = NoTask
  Conversation <- OneConversation
  CreateInputs <- ShapeInputs
  PlanSizes = {1}
  Links = {}
  Reviewed = {}
  Scheduled = {t1}
  Archived = {}
  Deleted = {}
  MaxRuns = 2
  MaxLeases = 2
  MaxRetries = 0
  CircuitThreshold = 1
  GlobalLimit = 2
  AssigneeLimit = 1
  ConversationLimit = 2
CHECK_DEADLOCK FALSE
INVARIANTS
  ReadyOnlyWhenDue
