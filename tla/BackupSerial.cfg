SPECIFICATION Spec
CONSTANTS
  Messages = {m1, m2}
  OwnMessages = {}
  MediaMessages = {m2}
  Threads = {a}
  Drainers = {a}
  Compactors = {a}
  Installers = {a}
  SegmentLimit = 2
  MinGroupSize = 2
  DailyToWeekly = 1
  WeeklyToMonthly = 1
  WeekLength = 1
  MonthLength = 4
  DropsConversations = FALSE
  MaxJournal = 4
  MaxMinted = 10
  MaxTime = 1
  MaxFaults = 1
INVARIANTS NoLiveMessageLost NoEventSealedTwice MemoryMirrorsDisk ChainIsLinear
CHECK_DEADLOCK FALSE
