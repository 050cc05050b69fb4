SPECIFICATION FairSpec
CONSTANTS
  p = p
  q = q
  a = a
  b = b
  t1 = t1
  t2 = t2
  t3 = t3
  s1 = s1
  s2 = s2
  s3 = s3
  x = x
  None = None
  Processes = {p, q}
  Conversations = {a, b}
  Home <- OneBot
  Turns = {t1, t2, t3}
  Lane <- Lanes
  Aside = {t2}
  Threads = {s1, s2, x}
  Local = {x}
  MaxActive <- Limits
  MaxCommands = 2
  MaxTroubles = 1
CHECK_DEADLOCK FALSE
PROPERTIES
  DetachReturns
