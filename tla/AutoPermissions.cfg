SPECIFICATION Spec
CONSTANTS
  Requests = {r1, r2}
  Toggles = {t1, t2}
  None = None
  CompletedCap = 1
  MaxFlips = 1
  MaxDrops = 1
SYMMETRY Symmetry
INVARIANTS
  TypeOK
  NoApprovalAfterDisable
  NobodyForgotten
CHECK_DEADLOCK FALSE
