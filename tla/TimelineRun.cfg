SPECIFICATION Spec
CONSTANTS
  Messages = {m1}
  Readers = {r}
  Archivers = {a}
  Compactors = {c, d}
  DeletesConversations = TRUE
  MaxJournal = 2
  MaxSegments = 3
  MaxMonth = 2
INVARIANTS TypeInv IndexMirrorsBody StubsAreArchived ArchiveKeepsLiveTexts
PROPERTIES RowsNeverBecomeStubs
CHECK_DEADLOCK FALSE
