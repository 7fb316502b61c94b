SPECIFICATION Spec
CONSTANTS
  GpuJobs = {1, 2}
  Unrunnable = {1}
  MaxManagerDeaths = 1
  Forms = {"f1", "f2"}
  Uids = {"u1"}
  MailOf <- OneMail
  Batches <- BatchOfThree
  Malformed = {"f2", "g2"}
  Groups <- TaskForces
  Foreign = {3}
  Workloads <- Arrivals
  MaxNumber = 7
  MaxDeaths = 1
  Nobody = "nobody"
  TicksPerHour = 2
  HoursPerDay = 2
  DaysPerWeek = 3
  MonthLengths <- ShortMonths
  Schedules <- DocketEntries
  Grace = 5
  MaxCatchupSteps = 12
  Horizon = 13
  MaxEdits = 2
  MaxDocketDeaths = 1
  Mails = {1, 2, 3, 4, 5, 6, 7}
  MailHas <- SomeMails
  Registry <- SomeDeputies
  LivePrecincts = {"lab"}
  CaseMap <- SomeCases
  MaxDefers = 1
  HandlerIds = {1, 2}
  MaxFaults = 1
  IntakeFaults = {"mark", "unmark", "loop", "handler", "relapse", "late_mark"}
  NoOne = "none"
  Judges = {"anonymous", "vyas"}
  Packaged = {"anonymous"}
  DefaultJudge = "anonymous"
  ReviewCalls <- TwoReviews
  MaxRounds = 2
  MaxJudgeOps = 2
  MaxSheriffDeaths = 1
  Precincts = {"p"}
  CaseIn <- NoCases
  MaxTrash = 2
  Requests <- SomeRequests
  MaxAsked = 2
  MaxTokens = 2
  MaxLawDeaths = 1
  Splits <- TheSplit
  MaxTurns = 1
  MaxSessions = 2
  MaxSwitchFaults = 0
  HandoffCalls <- Handoffs
  MaxWriterRounds = 2
  MaxDeputyKills = 1
  Categories = {"code", "report"}
  AutoThreshold = 2
  MaxLessons = 3
  MaxRequests = 2
  MaxGuideFaults = 1
  HoursADay = 4
  DaysAMonth = 3
  MonthsAYear = 2
  HostZone = 1
  NoticeZones <- EastAndWest
  NowTimes <- AYearOfHours
INVARIANTS ServicesTypeOK GpuJobKept OneHolder SpokenForIsSkipped UidHasOneCase RecordHasOneDeputy
  SlotFiredOnce NextRunIsTheNextSlot MailKept AnsweredOnce JudgeHasAPrompt SignOffIsTheJudges
  DeletedOnYes NewestReportIsHandedOver
  ReadyIsTheWriters LessonsAreReviewed LimitReset
PROPERTIES GpuServed
CHECK_DEADLOCK FALSE
