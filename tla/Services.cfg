SPECIFICATION FairSpec
CONSTANTS
  PromptSessions = {s1}
  MaxRequests = 3
  Tools = {t1, t2}
  Agent = Agent
  LaunchKeys = {k1, k2}
  Bodies = {b1, b2}
  ManagedLimit = 1
  RootLimit = 2
  PromptFaults = 1
  LaunchFaults = 2
  Sessions = {s1, s2}
  MaxFaults = 1
  MaxPrompts = 2
  MaxCancels = 1
  MaxBridges = 2
  Pages = {p1, p2}
  MaxRevision = 3
  MaxPushes = 3
  Installs = {d1, d2}
  Endpoints = {e1, e2}
  MaxSubs = 2
  MaxRenewals = 3
  MaxChanges = 1
  MaxSwitches = 1
  MaxOutside = 1
  Asks = {FALSE}
  Lost = Lost
  PageRows = 2
  Resident = 3
  Retained = 4
  MaxRows = 5
  MaxLater = 1
  None = None
INVARIANTS
  PromptInv
  LaunchInv
  DevicesInv
PROPERTIES
  SessionsSettle
  DevicesSettle
  PageCatchesUp
CHECK_DEADLOCK FALSE
