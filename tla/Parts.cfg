SPECIFICATION Spec
CONSTANTS
  Responses = {r1, r2, r3}
  MaxFaults = 1
  Sessions = {s1, s2}
  MaxPages = 1
  MaxMade = 2
  MaxContexts = 2
  MaxOpens = 1
  CaptureSessions = {s1, s2, s3}
  MaxQueue = 2
  MaxCaptures = 7
  PageSessions = {s1, s2}
  MaxChanges = 1
  MaxSwitches = 1
  MaxOuter = 1
  Asks = {TRUE, FALSE}
  Lost = Lost
  Window = 2
  MaxMessages = 6
  MaxEvents = 2
  Limit = 2
  MaxHappenings = 6
  PageRows = 2
  Resident = 3
  Retained = 4
  MaxRows = 5
  MaxOutside = 2
  Children = {c1}
  Probes = 1
  MaxTurns = 2
  LedgerFaults = 2
  Tabs = {t1, t2}
  Loads = {l1, l2}
  MaxVersion = 3
  WorkSessions = {s1}
  Requests = {r1, r2}
  MaxEdits = 2
  MaxHuman = 1
  Processes = {p1, p2}
  Directories = {d1, d2}
  MaxToggles = 2
  FileFaults = 1
  MaxPrompts = 2
  MaxCancels = 2
  MaxBridges = 2
  None = None
INVARIANTS
  BrowserInv
  CaptureInv
  StreamInv
  PagesInv
  LedgerInv
  PlanningInv
  WorktreeInv
  AutoFileInv
  DshInv
CHECK_DEADLOCK FALSE
