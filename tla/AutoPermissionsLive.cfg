SPECIFICATION FairSpec
CONSTANTS
  Requests = {r1}
  Toggles = {t1, t2}
  None = None
  CompletedCap = 1
  MaxFlips = 2
  MaxDrops = 1
INVARIANTS
  QueueInv
PROPERTIES
  RequestSettles
  FailureClears
CHECK_DEADLOCK FALSE
