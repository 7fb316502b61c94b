SPECIFICATION Spec
CONSTANTS
  Precincts = {"p"}
  CaseIn <- TwoCases
  MaxTrash = 1
  Requests <- RecordRequests
  MaxAsked = 2
  MaxTokens = 1
  MaxLawDeaths = 1
  Splits <- EitherWay
  MaxTurns = 1
  MaxSessions = 3
  MaxSwitchFaults = 2
INVARIANTS FiledIsKept LaneIsWhatRuns SessionIsKept
CHECK_DEADLOCK FALSE
