SPECIFICATION IntakeSpec
CONSTANTS
  Entries = {1, 2}
  Pollers = {"cron", "manual"}
  Dates <- MCDates
  Horizon = 5
  Day = 1
  DigestTimes = {2, 3, 4}
  Window = 2
  PollLimit = 1
  Batch = 2
  Retention = 3
  ScanDays = 2
  CleanAge = 2
  Ceiling = 1
  Crashes = 1
  Mails = {1, 2}
  Sources = {"a", "b"}
  Subjects = {"s", "t"}
  u = u
  Links = {u, v}
  NoLink = NoLink
  Deliveries = 3
  Runs = 2
  DayLength = 4
  LastHour = 5
  Schedules <- MCSchedules
  Zones <- MCZones
  CatchUp = 3
  Moves = 1
CONSTRAINT MovesEarly
CHECK_DEADLOCK FALSE
INVARIANTS
  IntakeTypeOK
  SlipsOnlyByFault
  EachIssueOnce
  RowPassesForNoOther
PROPERTIES
  ReturnsOnlyIfRedated
  FirstIssueStands
