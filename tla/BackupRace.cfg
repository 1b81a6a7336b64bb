SPECIFICATION Spec
CONSTANTS
  Messages = {m1}
  OwnMessages = {o1}
  MediaMessages = {}
  Threads = {a, b}
  Drainers = {a, b}
  Compactors = {b}
  Installers = {a, b}
  SegmentLimit = 1
  MinGroupSize = 2
  DailyToWeekly = 1
  WeeklyToMonthly = 4
  WeekLength = 1
  MonthLength = 4
  DropsConversations = TRUE
  MaxJournal = 2
  MaxMinted = 5
  MaxTime = 1
  MaxFaults = 0
INVARIANTS TypeOK PersistedTailResolves
CHECK_DEADLOCK FALSE
