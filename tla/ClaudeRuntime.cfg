SPECIFICATION Spec
CONSTANTS
  Sessions = {s1, s2}
  Isolated = {s1}
  ToolUses = {u1}
  u1 = u1
  t1 = t1
  Tools = {t1}
  ToolOf <- MCToolOf
  Callers = {}
  Ids = {}
  None = None
  Runs = {r1, r2}
  Requests = {q1, q2}
SYMMETRY Symmetry
INVARIANTS
  RuntimeInv
PROPERTIES
  OutcomeIsFinal
