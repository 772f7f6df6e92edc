SPECIFICATION Spec
CONSTANTS
  Limit = 2
  MaxEvents = 6
  None = None
INVARIANTS
  AllShown
CHECK_DEADLOCK FALSE
