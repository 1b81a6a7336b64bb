SPECIFICATION Spec
CONSTANTS
  Messages = {m1}
  Readers = {r}
  Archivers = {a}
  Compactors = {}
  DeletesConversations = FALSE
  MaxJournal = 2
  MaxSegments = 1
  MaxMonth = 1
PROPERTIES DeletedForEveryoneIsTerminal
CHECK_DEADLOCK FALSE
