SPECIFICATION FairSpec
CONSTANTS
  Sessions = {s1, s2}
  ToolUses = {u1, u2}
  u1 = u1
  u2 = u2
  t1 = t1
  t2 = t2
  Tools = {t1, t2}
  ToolOf <- MCToolOf
  Callers = {c1, c2, c3}
  Ids = {i1, i2}
  None = None
INVARIANTS
  ApprovalsInv
PROPERTIES
  RuleNeedsRow
  ImplementsGate
  AskIsAnswered
