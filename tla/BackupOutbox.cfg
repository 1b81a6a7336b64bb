SPECIFICATION FairSpec
CONSTANTS
  Messages = {m1}
  OwnMessages = {o1}
  MediaMessages = {}
  Threads = {a, b}
  Drainers = {a}
  Compactors = {}
  Installers = {b}
  SegmentLimit = 3
  MinGroupSize = 2
  DailyToWeekly = 1
  WeeklyToMonthly = 4
  WeekLength = 1
  MonthLength = 4
  DropsConversations = FALSE
  MaxJournal = 3
  MaxMinted = 3
  MaxTime = 0
  MaxFaults = 0
PROPERTY SentMessagesAreBackedUp
CHECK_DEADLOCK FALSE
