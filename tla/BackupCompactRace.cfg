SPECIFICATION Spec
CONSTANTS
  Messages = {m1, m2, m3}
  OwnMessages = {}
  MediaMessages = {}
  Threads = {a, b}
  Drainers = {a}
  Compactors = {b}
  Installers = {a}
  SegmentLimit = 1
  MinGroupSize = 2
  DailyToWeekly = 1
  WeeklyToMonthly = 4
  WeekLength = 1
  MonthLength = 4
  DropsConversations = FALSE
  MaxJournal = 3
  MaxMinted = 5
  MaxTime = 1
  MaxFaults = 0
INVARIANT NoLiveMessageLost
CHECK_DEADLOCK FALSE
