SPECIFICATION Spec
CONSTANTS
  t1 = t1
  a1 = a1
  t2 = t2
  t3 = t3
  conv = conv
  Tasks = {t1, t2, t3}
  Agents = {}
  NoAgent = NoAgent
  NoTask = NoTask
  Conversation <- OneConversation
  CreateInputs <- GraphInputs
  PlanSizes = {3}
  Links <- AllLinks
  Reviewed = {}
  Scheduled = {t1, t2, t3}
  Archived = {t1, t2, t3}
  Deleted = {t1, t2, t3}
  MaxRuns = 1
  MaxLeases = 0
  MaxRetries = 0
  CircuitThreshold = 1
  GlobalLimit = 1
  AssigneeLimit = 1
  ConversationLimit = 2
SYMMETRY TaskSymmetry
CHECK_DEADLOCK FALSE
INVARIANTS
  ReadyDepsWereDone
  DependenciesAcyclic
