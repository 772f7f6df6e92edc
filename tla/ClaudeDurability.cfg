SPECIFICATION FairSpec
CONSTANTS
  Sessions = {s1, s2}
  Runs = {r1, r2, r3}
  None = None
  LedgerCap = 2
  MaxQueue = 2
  MaxCrashes = 2
  MaxFailures = 1
INVARIANTS
  DurabilityInv
PROPERTIES
  NeverRunningAgain
  RecoveryIsLocal
  NoSpinnerForever
CHECK_DEADLOCK FALSE
