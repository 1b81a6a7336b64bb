SPECIFICATION RestoreFairSpec
CONSTANTS
  Messages = {m1}
  OwnMessages = {o1}
  MediaMessages = {}
  Threads = {a, b}
  Drainers = {a}
  Compactors = {}
  Installers = {b}
  SegmentLimit = 1
  MinGroupSize = 2
  DailyToWeekly = 1
  WeeklyToMonthly = 4
  WeekLength = 1
  MonthLength = 4
  DropsConversations = TRUE
  MaxJournal = 2
  MaxMinted = 4
  MaxTime = 0
  MaxFaults = 2
INVARIANTS RestoreTypeOK StageIsEarned OnlySegmentedIsRestored SegmentedEventsAreSealed ManifestsAreRestorable
PROPERTIES EventsAreEventuallySealed BackupIsASealedLog RestoresComplete
CHECK_DEADLOCK FALSE
