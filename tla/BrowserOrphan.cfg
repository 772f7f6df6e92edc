SPECIFICATION Spec
CONSTANTS
  Sessions = {s1, s2}
  MaxPages = 1
  MaxMade = 2
  MaxContexts = 2
  MaxQueue = 1
  MaxFaults = 0
INVARIANTS
  LivePageHasSlot
CHECK_DEADLOCK FALSE
