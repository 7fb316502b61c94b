SPECIFICATION SwSpec
CONSTANTS
  Splits <- AcrossServices
  MaxTurns = 2
  MaxSessions = 3
  MaxSwitchFaults = 0
INVARIANT ContextIsCarried
CHECK_DEADLOCK FALSE
