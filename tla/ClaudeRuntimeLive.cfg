SPECIFICATION FairSpec
CONSTANTS
  Sessions = {s1}
  Isolated = {}
  ToolUses = {u1}
  u1 = u1
  t1 = t1
  Tools = {t1}
  ToolOf <- MCToolOf
  Callers = {c1}
  Ids = {i1}
  None = None
  Runs = {r1, r2}
  Requests = {q1, q2}
PROPERTIES
  SessionSettles
  AskSettles
