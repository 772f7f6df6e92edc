SPECIFICATION FairSpec
CONSTANTS
  Jobs = {j1, j2, j3, j4}
  Asks = {a1}
  s1 = s1
  Sessions = {s1}
  SessionOf <- MCSessionOf
  TurnEvents = {"idle"}
  QuietKinds = {"permission"}
  LookupSlots = 1
  HistoryLimit = 1
  MaxOutside = 3
  None = None
INVARIANTS
  ServiceInv
PROPERTIES
  CountMovesRevision
  UncheckedStays
  StalledAskEscalates
CHECK_DEADLOCK FALSE
