SPECIFICATION Spec
CONSTANTS
  t1 = t1
  a1 = a1
  t2 = t2
  t3 = t3
  conv = conv
  Tasks = {t1, t2}
  Agents = {a1}
  NoAgent = NoAgent
  NoTask = NoTask
  Conversation <- OneConversation
  CreateInputs <- LifecycleInputs
  PlanSizes = {2}
  Links = {}
  Reviewed = {t1, t2}
  Scheduled = {}
  Archived = {t1, t2}
  Deleted = {}
  MaxRuns = 2
  MaxLeases = 2
  MaxRetries = 1
  CircuitThreshold = 1
  GlobalLimit = 1
  AssigneeLimit = 1
  ConversationLimit = 2
SYMMETRY TaskSymmetry
CHECK_DEADLOCK FALSE
PROPERTIES
  IsTaskLife
