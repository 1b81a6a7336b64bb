--------------------------- MODULE BackupRefinement ---------------------------
(* A device that never compacts implements the sealed log, for any number   *)
(* of threads, messages and faults.                                         *)
EXTENDS BackupProofs

-----------------------------------------------------------------------------
(* The ledger holds the typed rows up to the cursor and no other, and what  *)
(* is at the sink was in the ledger first.                                  *)

RowsBehind(n) == {i \in 1..n : journal[i].type \in Typed}

\* A call seals no row but those it read, and it read none past its last.
SealsItsWindow(t) ==
    pc[t] \in {"read", "cut"} =>
        /\ job[t].seqs \subseteq RowsBehind(job[t].last)
        /\ pc[t] = "cut" => SealedIn(job[t].out) \subseteq job[t].seqs

\* A call sends only segments whose ledger row is durable.
SendsWhatIsSealed(t) == pc[t] \in {"persisted", "uploading"} => job[t].out \subseteq dbLedger

CallSeals(t) == SealsItsWindow(t) /\ SendsWhatIsSealed(t)

SealInv ==
    /\ SealedIn(dbLedger) \subseteq RowsBehind(cursor)
    /\ sinkSegments \subseteq dbLedger
    /\ \A t \in Threads : CallSeals(t)

\* Rows that were read or sealed do not change when others are added.
Kept == \A i \in DOMAIN journal : journal'[i] = journal[i]

LEMMA CallSealsStays ==
    ASSUME TypeInv, NEW t \in Threads, CallSeals(t), Kept, dbLedger \subseteq dbLedger',
           pc'[t] = pc[t], job'[t] = job[t]
    PROVE  CallSeals(t)'
<1>1. ASSUME pc[t] \in {"read", "cut"}
      PROVE  job'[t].seqs \subseteq RowsBehind(job[t].last)'
  BY <1>1, CallState DEF CallSeals, SealsItsWindow, RowsBehind, Kept
<1>2. job'[t].last = job[t].last
  OBVIOUS
<1>3. SealsItsWindow(t)'
  BY <1>1, <1>2 DEF CallSeals, SealsItsWindow, SealedIn, RowsBehind
<1>4. SendsWhatIsSealed(t)'
  BY DEF CallSeals, SendsWhatIsSealed
<1>5. QED
  BY <1>3, <1>4 DEF CallSeals

\* One call's step, the others standing still.
LEMMA SealCall ==
    ASSUME TypeInv, SealInv, NEW t \in Threads, Kept, dbLedger \subseteq dbLedger',
           sinkSegments' \subseteq dbLedger', CallSeals(t)',
           (SealedIn(dbLedger) \subseteq RowsBehind(cursor))',
           \A u \in Threads \ {t} : pc'[u] = pc[u] /\ job'[u] = job[u]
    PROVE  SealInv'
<1>1. ASSUME NEW u \in Threads PROVE CallSeals(u)'
  BY CallSealsStays DEF SealInv
<1>2. QED
  BY <1>1 DEF SealInv

LEMMA SealReturn ==
    ASSUME TypeInv, SealInv, UNCHANGED <<journal, cursor, dbLedger>>,
           sinkSegments' \subseteq dbLedger, NEW t \in Threads, NEW result, Return(t, result)
    PROVE  SealInv'
<1>1. CallSeals(t)' /\ \A u \in Threads \ {t} : pc'[u] = pc[u] /\ job'[u] = job[u]
  BY CallState, ReturnFrame DEF CallSeals, SealsItsWindow, SendsWhatIsSealed
<1>2. Kept /\ (SealedIn(dbLedger) \subseteq RowsBehind(cursor))'
  BY DEF Kept, SealInv, SealedIn, RowsBehind
<1>3. QED
  BY <1>1, <1>2, SealCall

LEMMA SealGoto ==
    ASSUME TypeInv, SealInv, UNCHANGED <<journal, cursor, dbLedger>>,
           sinkSegments' \subseteq dbLedger, NEW t \in Threads, NEW where, NEW j,
           Goto(t, where, j),
           where \in {"read", "cut"} => j.seqs \subseteq RowsBehind(j.last),
           where = "cut" => SealedIn(j.out) \subseteq j.seqs,
           where \in {"persisted", "uploading"} => j.out \subseteq dbLedger
    PROVE  SealInv'
<1>1. /\ pc'[t] = where /\ job'[t] = j
      /\ \A u \in Threads \ {t} : pc'[u] = pc[u] /\ job'[u] = job[u]
  BY CallState, GotoFrame
<1>2. CallSeals(t)'
  BY <1>1 DEF CallSeals, SealsItsWindow, SendsWhatIsSealed, RowsBehind, SealedIn
<1>3. Kept /\ (SealedIn(dbLedger) \subseteq RowsBehind(cursor))'
  BY DEF Kept, SealInv, SealedIn, RowsBehind
<1>4. QED
  BY <1>1, <1>2, <1>3, SealCall

LEMMA SealRead ==
    ASSUME TypeInv, SealInv, NEW t \in Threads, Read(t)
    PROVE  SealInv'
<1>1. PICK last \in Drainable :
         /\ \A i \in Drainable : i <= last
         /\ Goto(t, "read", [NoJob EXCEPT !.kind = "incremental",
                                          !.seqs = Drainable, !.last = last])
  BY DEF Read
<1> DEFINE j == [NoJob EXCEPT !.kind = "incremental", !.seqs = Drainable, !.last = last]
<1>2. j.seqs = Drainable /\ j.last = last /\ Goto(t, "read", j)
  BY <1>1 DEF NoJob
<1> HIDE DEF j
<1>3. DOMAIN journal = 1..Len(journal) /\ Len(journal) \in Nat
  BY JournalTyped
<1>4. Drainable \subseteq RowsBehind(last)
  BY <1>1, <1>3 DEF Drainable, Window, RowsBehind
<1>5. UNCHANGED <<journal, cursor, dbLedger, sinkSegments>>
  BY DEF Read, durable, world
<1>6. QED
  BY <1>2, <1>4, <1>5, SealGoto DEF SealInv

LEMMA SealCut ==
    ASSUME TypeInv, SealInv, NEW t \in Threads, CutIncremental(t)
    PROVE  SealInv'
<1> DEFINE seg == SealedSegment(job[t].seqs, minted + 1)
           man == NextManifest({seg}, minted + 1)
           j == [job[t] EXCEPT !.out = {seg}, !.man = man]
<1>1. /\ Goto(t, "cut", j) /\ pc[t] = "read"
      /\ UNCHANGED <<journal, cursor, dbLedger, sinkSegments>>
  BY DEF CutIncremental, durable, world
<1>2. seg.seqs = job[t].seqs
  BY DEF SealedSegment
<1>3. IsJob(job[t]) /\ j = [job[t] EXCEPT !.out = {seg}, !.man = man]
  BY CallState
<1> HIDE DEF seg, man, j
<1>4. j.last = job[t].last /\ j.seqs = job[t].seqs /\ j.out = {seg}
  BY <1>3 DEF IsJob
<1>5. SealedIn(j.out) \subseteq j.seqs
  BY <1>2, <1>4 DEF SealedIn
<1>6. j.seqs \subseteq RowsBehind(j.last)
  BY <1>1, <1>4 DEF SealInv, CallSeals, SealsItsWindow
<1>7. QED
  BY <1>1, <1>5, <1>6, SealGoto DEF SealInv

LEMMA SealPersist ==
    ASSUME TypeInv, SealInv, NEW t \in Threads, PersistIncremental(t)
    PROVE  SealInv'
<1>1. /\ pc[t] = "cut" /\ job[t].last >= cursor /\ cursor' = job[t].last
      /\ dbLedger' = dbLedger \cup job[t].out
      /\ Goto(t, "persisted", job[t]) /\ UNCHANGED <<journal, sinkSegments>>
  BY DEF PersistIncremental, world
<1>2. /\ pc'[t] = "persisted" /\ job'[t] = job[t]
      /\ \A u \in Threads \ {t} : pc'[u] = pc[u] /\ job'[u] = job[u]
  BY <1>1, CallState, GotoFrame
<1>3. CallSeals(t)'
  BY <1>1, <1>2 DEF CallSeals, SealsItsWindow, SendsWhatIsSealed
<1>4. SealedIn(dbLedger)' = SealedIn(dbLedger) \cup SealedIn(job[t].out)
  BY <1>1 DEF SealedIn
<1>5. SealedIn(job[t].out) \subseteq RowsBehind(job[t].last)
  BY <1>1 DEF SealInv, CallSeals, SealsItsWindow
<1>6. RowsBehind(cursor) \subseteq RowsBehind(job[t].last)
  BY <1>1, JournalTyped DEF RowsBehind
<1>7. RowsBehind(cursor)' = RowsBehind(job[t].last)
  BY <1>1 DEF RowsBehind
<1>8. (SealedIn(dbLedger) \subseteq RowsBehind(cursor))'
  BY <1>4, <1>5, <1>6, <1>7 DEF SealInv
<1>9. Kept /\ dbLedger \subseteq dbLedger' /\ sinkSegments' \subseteq dbLedger'
  BY <1>1 DEF Kept, SealInv
<1>10. QED
  BY <1>2, <1>3, <1>8, <1>9, SealCall

LEMMA SealUpload ==
    ASSUME TypeInv, SealInv, NEW t \in Threads, UploadSegment(t) \/ UploadFails(t)
    PROVE  SealInv'
<1>1. UNCHANGED <<journal, cursor, dbLedger>> /\ pc[t] = "uploading"
  BY DEF UploadSegment, UploadFails, Uploading, durable
<1>2. job[t].out \subseteq dbLedger /\ sinkSegments \subseteq dbLedger
  BY <1>1 DEF SealInv, CallSeals, SendsWhatIsSealed
<1>3. CASE UploadSegment(t)
  <2>1. PICK s \in job[t].out : /\ sinkSegments' = sinkSegments \cup {s}
                                /\ Goto(t, "uploading", [job[t] EXCEPT !.out = @ \ {s}])
    BY <1>3 DEF UploadSegment
  <2> DEFINE j == [job[t] EXCEPT !.out = @ \ {s}]
  <2>2. IsJob(job[t]) /\ j = [job[t] EXCEPT !.out = @ \ {s}] /\ Goto(t, "uploading", j)
    BY <2>1, CallState
  <2> HIDE DEF j
  <2>3. j.out = job[t].out \ {s}
    BY <2>2 DEF IsJob
  <2>4. QED
    BY <1>1, <1>2, <2>1, <2>2, <2>3, SealGoto
<1>4. CASE UploadFails(t)
  <2>1. sinkSegments' \subseteq dbLedger /\ Return(t, "failed")
    BY <1>2, <1>4 DEF UploadFails, world
  <2>2. QED
    BY <1>1, <2>1, SealReturn
<1>5. QED
  BY <1>3, <1>4

LEMMA SealDevice ==
    ASSUME TypeInv, CursorInv, SealInv,
           Journalling \/ InstallSink \/ GoOnline \/ GoOffline \/ UNCHANGED vars
    PROVE  SealInv'
<1>1. /\ UNCHANGED <<cursor, dbLedger, sinkSegments, pc, job>>
      /\ Kept /\ \A i \in 1..cursor : i \in DOMAIN journal
  <2>1. \A i \in 1..cursor : i \in DOMAIN journal
    BY JournalTyped DEF CursorInv
  <2>2. CASE Journalling
    BY <2>1, <2>2, TypeParts, JournallingAppends, JournalGrows
       DEF TypeInv, JournalOnly, world, Kept
  <2>3. CASE InstallSink \/ GoOnline \/ GoOffline \/ UNCHANGED vars
    BY <2>1, <2>3 DEF InstallSink, GoOnline, GoOffline, vars, durable, world, Kept
  <2>4. QED
    BY <2>2, <2>3
<1>2. ASSUME NEW t \in Threads PROVE CallSeals(t)'
  BY <1>1, CallSealsStays DEF SealInv
<1>3. (SealedIn(dbLedger) \subseteq RowsBehind(cursor))'
  <2>1. SealedIn(dbLedger)' = SealedIn(dbLedger)
    BY <1>1 DEF SealedIn
  <2>2. RowsBehind(cursor) \subseteq RowsBehind(cursor)'
    BY <1>1 DEF RowsBehind, Kept
  <2>3. QED
    BY <2>1, <2>2 DEF SealInv
<1>4. QED
  BY <1>1, <1>2, <1>3 DEF SealInv

LEMMA SealStep ==
    ASSUME Compactors = {}, TypeInv, NoCompaction, CursorInv, SealInv, [Next]_vars
    PROVE  SealInv'
<1>1. ASSUME NEW t \in Threads, CommitIncremental(t) PROVE SealInv'
  <2>1. /\ UNCHANGED <<journal, cursor, dbLedger, sinkSegments>>
        /\ Goto(t, "uploading", job[t]) \/ Return(t, "done")
        /\ pc[t] = "persisted"
    BY <1>1 DEF CommitIncremental, durable, world
  <2>2. job[t].out \subseteq dbLedger /\ sinkSegments \subseteq dbLedger
    BY <2>1 DEF SealInv, CallSeals, SendsWhatIsSealed
  <2>3. QED
    BY <2>1, <2>2, SealGoto, SealReturn
<1>2. ASSUME NEW t \in Threads, Materialise(t) PROVE SealInv'
  <2>1. UNCHANGED <<journal, cursor, dbLedger, sinkSegments>>
    BY <1>2 DEF Materialise, durable, world
  <2>2. QED
    BY <1>2, <2>1, SealGoto DEF Materialise, SealInv
<1>3. ASSUME NEW t \in Threads, Defer(t) \/ KeysMissing(t) \/ CursorRefused(t)
                                \/ UploadManifest(t) \/ PersistFails(t) \/ InstallKeys(t)
      PROVE  SealInv'
  <2>1. UNCHANGED <<journal, cursor, dbLedger, sinkSegments>>
    BY <1>3 DEF Defer, KeysMissing, CursorRefused, UploadManifest, PersistFails,
                InstallKeys, durable, world
  <2>2. QED
    BY <1>3, <2>1, SealReturn DEF Defer, KeysMissing, CursorRefused, UploadManifest,
                                  PersistFails, InstallKeys, SealInv
<1>4. \A t \in Threads : ~Compaction(t)
  BY DEF Compaction, Compact, CutCompaction, PersistCompaction, DuplicateRow,
         CommitCompaction, NoCompaction
<1>5. CASE Crash
  <2>1. /\ UNCHANGED <<journal, cursor, dbLedger, sinkSegments>>
        /\ \A t \in Threads : pc'[t] = "idle"
    BY <1>5 DEF Crash, durable, world
  <2>2. ASSUME NEW t \in Threads PROVE CallSeals(t)'
    BY <2>1 DEF CallSeals, SealsItsWindow, SendsWhatIsSealed
  <2>3. QED
    BY <2>1, <2>2 DEF SealInv, SealedIn, RowsBehind
<1>6. QED
  BY <1>1, <1>2, <1>3, <1>4, <1>5, SealRead, SealCut, SealPersist, SealUpload, SealDevice
     DEF Next, Incremental, Upload, Install

-----------------------------------------------------------------------------
(* Every step is a step of the sealed log, or none.                         *)

Inv ==
    /\ TypeInv /\ NoCompaction /\ CutsAgree
    /\ CursorInv /\ UploadInv /\ SealInv

LEMMA InvInit == Init => Inv
<1>1. Init => NoCompaction /\ CutsAgree /\ CursorInv /\ UploadInv
  BY DEF Init, NoCompaction, NoJob, CutsAgree, CutAgrees, CursorInv,
         SegmentedEventsAreSealed, WindowsCovered, WindowCovered, UploadInv,
         UploadResolves, ManifestsAreRestorable
<1>2. Init => SealInv
  BY DEF Init, SealInv, SealedIn, CallSeals, SealsItsWindow, SendsWhatIsSealed
<1>3. QED
  BY <1>1, <1>2, TypeInvInit DEF Inv

LEMMA InvStep ==
    ASSUME Compactors = {}, Inv, [Next]_vars
    PROVE  Inv'
<1>1. TypeInv'
  BY TypeInvIncremental, TypeInvCompaction, TypeInvUpload, TypeInvInstall, TypeInvDevice,
     TypeInvStutter DEF Inv, Next
<1>2. QED
  BY <1>1, NoCompactionStep, CutsAgreeStep, CursorStep, UploadStep, SealStep DEF Inv

LEMMA InvHolds ==
    ASSUME Compactors = {}
    PROVE  Spec => []Inv
<1>1. Inv /\ [Next]_vars => Inv'
  BY InvStep
<1>2. QED
  BY <1>1, InvInit, PTL DEF Spec

Published == UNION {SealedIn(m.segs) : m \in sinkManifests}

LEMMA LogInit == Init => Log!Init
BY DEF Init, Log!Init, SealedIn

\* The ledger at the cursor is exactly what the abstract log calls Rows.
LEMMA SealedIsRows == Inv => SealedIn(dbLedger) = Log!Rows(cursor)
BY DEF Inv, CursorInv, SegmentedEventsAreSealed, SealInv, RowsBehind, Log!Rows

LEMMA LogRecord ==
    ASSUME Inv, Journalling
    PROVE  Log!Record \/ UNCHANGED Log!vars
<1>1. DataOK
  BY TypeParts DEF Inv, TypeInv
<1>2. PICK rows \in Seq(Event) : journal' = journal \o rows
  BY <1>1, JournallingAppends
<1>3. /\ \A i \in 1..Len(journal) : journal'[i] = journal[i]
      /\ Len(journal') \in Nat /\ Len(journal) \in Nat /\ Len(journal) <= Len(journal')
  <2>1. journal \in Seq(Event) /\ journal' \in Seq(Event)
    BY <1>1, <1>2, JournalGrows DEF DataOK
  <2>2. Len(journal') \in Nat /\ Len(journal) \in Nat /\ DOMAIN journal = 1..Len(journal)
    BY ONLY <2>1, LenProperties
  <2>3. QED
    BY <1>1, <1>2, <2>2, JournalGrows
<1>4. UNCHANGED <<cursor, SealedIn(dbLedger), SealedIn(sinkSegments), Published>>
  BY <1>1, JournallingAppends DEF JournalOnly, world, SealedIn, Published
<1>5. Len(journal') = Len(journal) => journal' = journal
  <2>1. journal \in Seq(Event)
    BY <1>1 DEF DataOK
  <2>2. SUFFICES ASSUME Len(journal') = Len(journal) PROVE journal' = journal
    OBVIOUS
  <2>3. Len(rows) = 0
    <3>1. Len(journal') = Len(journal) + Len(rows) /\ Len(rows) \in Nat
      BY <1>2, <2>1, ConcatProperties, LenProperties
    <3>2. QED
      BY <1>3, <2>2, <3>1
  <2>4. rows = <<>>
    BY <2>3, EmptySeq
  <2>5. QED
    BY <1>2, <2>1, <2>4, ConcatEmptySeq
<1>6. CASE Len(journal') = Len(journal)
  <2>1. UNCHANGED <<journal, cursor, SealedIn(dbLedger), SealedIn(sinkSegments), Published>>
    BY ONLY <1>4, <1>5, <1>6
  <2>2. QED
    BY ONLY <2>1 DEF Log!vars, Published
<1>7. CASE Len(journal') # Len(journal)
  <2>1. Len(journal') > Len(journal)
    BY ONLY <1>3, <1>7
  <2>2. QED
    BY ONLY <1>3, <1>4, <2>1 DEF Log!Record, Published
<1>8. QED
  BY <1>6, <1>7

LEMMA LogSeal ==
    ASSUME Inv, Inv', NEW t \in Threads, PersistIncremental(t)
    PROVE  Log!Seal \/ UNCHANGED Log!vars
<1>1. /\ cursor' \in Nat /\ cursor \in Nat /\ cursor' >= cursor
      /\ UNCHANGED <<journal, sinkSegments, sinkManifests>>
  BY JournalTyped DEF Inv, PersistIncremental, world
<1>2. cursor' <= Len(journal) /\ Len(journal) \in Nat
  BY <1>1, JournalTyped DEF Inv, CursorInv
<1>3. SealedIn(dbLedger) = Log!Rows(cursor)
  BY SealedIsRows
<1>4. SealedIn(dbLedger)' = Log!Rows(cursor')
  <2>1. \A i \in 1..cursor' : journal[i].type \in Typed => i \in SealedIn(dbLedger)'
    BY <1>1 DEF Inv, CursorInv, SegmentedEventsAreSealed
  <2>2. SealedIn(dbLedger)' \subseteq RowsBehind(cursor')
    BY <1>1 DEF Inv, SealInv, RowsBehind
  <2>3. QED
    BY <2>1, <2>2 DEF RowsBehind, Log!Rows
<1>5. UNCHANGED <<SealedIn(sinkSegments), Published>>
  BY <1>1 DEF SealedIn, Published
<1>6. CASE cursor' = cursor
  BY <1>1, <1>3, <1>4, <1>5, <1>6 DEF Log!vars, Published
<1>7. CASE cursor' > cursor
  BY <1>1, <1>2, <1>4, <1>5, <1>7 DEF Log!Seal, Published
<1>8. QED
  BY <1>1, <1>6, <1>7

LEMMA LogUpload ==
    ASSUME Inv, Inv', NEW t \in Threads, Upload(t) \/ UploadFails(t)
    PROVE  Log!Next \/ UNCHANGED Log!vars
<1>1. UNCHANGED <<journal, cursor, SealedIn(dbLedger)>>
  BY DEF Upload, UploadSegment, UploadManifest, UploadFails, durable, SealedIn
<1>2. sinkSegments' \subseteq dbLedger /\ UNCHANGED dbLedger
  BY DEF Inv, SealInv, Upload, UploadSegment, UploadManifest, UploadFails, durable
<1>3. \/ sinkSegments \subseteq sinkSegments' /\ UNCHANGED sinkManifests
      \/ sinkManifests \subseteq sinkManifests' /\ UNCHANGED sinkSegments
  BY DEF Upload, UploadSegment, UploadManifest, UploadFails, world
<1>4. CASE sinkSegments \subseteq sinkSegments' /\ UNCHANGED sinkManifests
  <2>1. /\ SealedIn(sinkSegments) \subseteq SealedIn(sinkSegments)'
        /\ SealedIn(sinkSegments)' \subseteq SealedIn(dbLedger)
    BY <1>2, <1>4 DEF SealedIn
  <2>2. UNCHANGED Published
    BY <1>4 DEF Published, SealedIn
  <2>3. QED
    BY <1>1, <2>1, <2>2 DEF Log!Next, Log!Store, Published
<1>5. CASE sinkManifests \subseteq sinkManifests' /\ UNCHANGED sinkSegments
  <2>1. Published \subseteq Published'
    BY <1>5 DEF Published, SealedIn
  <2>2. \A m \in sinkManifests' : m.segs \subseteq sinkSegments
    BY <1>5 DEF Inv, UploadInv, ManifestsAreRestorable
  <2>3. Published' \subseteq SealedIn(sinkSegments)
    BY <2>2 DEF Published, SealedIn
  <2>4. UNCHANGED SealedIn(sinkSegments)
    BY <1>5 DEF SealedIn
  <2>5. QED
    BY <1>1, <2>1, <2>3, <2>4 DEF Log!Next, Log!Publish, Published
<1>6. QED
  BY <1>3, <1>4, <1>5

LEMMA LogStep ==
    ASSUME Compactors = {}, Inv, Inv', [Next]_vars
    PROVE  [Log!Next]_(Log!vars)
<1>1. CASE Journalling
  BY <1>1, LogRecord DEF Log!Next
<1>2. ASSUME NEW t \in Threads, PersistIncremental(t) PROVE [Log!Next]_(Log!vars)
  BY <1>2, LogSeal DEF Log!Next
<1>3. ASSUME NEW t \in Threads, Upload(t) \/ UploadFails(t) PROVE [Log!Next]_(Log!vars)
  BY <1>3, LogUpload
<1>4. CASE UNCHANGED <<journal, cursor, dbLedger, sinkSegments, sinkManifests>>
  BY <1>4 DEF Log!vars, SealedIn
<1>5. \A t \in Threads : ~Compaction(t)
  BY DEF Compaction, Compact, CutCompaction, PersistCompaction, DuplicateRow,
         CommitCompaction, NoCompaction, Inv
<1>6. QED
  BY <1>1, <1>2, <1>3, <1>4, <1>5
     DEF Next, Incremental, Install, Defer, Read, CutIncremental, KeysMissing,
         CursorRefused, CommitIncremental, PersistFails, Materialise, InstallKeys,
         InstallSink, Crash, GoOnline, GoOffline, vars, durable, world

\* On a device that never compacts, the calls, retries, crashes and lost
\* uploads of the engine amount to the sealed log: rows are sealed in journal
\* order and without a gap, and uploaded and published in that order.
THEOREM ImplementsSealedLog ==
    ASSUME Compactors = {}
    PROVE  Spec => BackupIsASealedLog
<1>1. Inv /\ Inv' /\ [Next]_vars => [Log!Next]_(Log!vars)
  BY LogStep
<1>2. QED
  BY <1>1, LogInit, InvHolds, PTL DEF Spec, BackupIsASealedLog, Log!Spec

\* A device that never compacts loses no live message, whatever its threads do
\* to each other, whatever faults and dropped conversations it has: the ledger
\* then holds every typed row behind the cursor and no row past it, so a reader
\* of the ledger meets the same receptions and deletions in the same order.
THEOREM NothingLostUncompacted ==
    ASSUME Compactors = {}
    PROVE  Spec => []NoLiveMessageLost
<1>1. ASSUME Inv PROVE NoLiveMessageLost
  <2>1. SealedIn(dbLedger) = Log!Rows(cursor)
    BY <1>1, SealedIsRows
  <2>2. "received" \in Typed
    BY DEF Typed
  <2>3. ASSUME NEW m \in Replay(1..cursor) PROVE m \in Replay(SealedIn(dbLedger))
    <3>1. PICK i \in 1..cursor :
              /\ journal[i].msg = m /\ journal[i].type = "received"
              /\ \A j \in 1..cursor : j > i => journal[j].type # "deleted" \/ journal[j].msg # m
      BY <2>3 DEF Replay
    <3>2. i \in SealedIn(dbLedger) /\ SealedIn(dbLedger) \subseteq 1..cursor
      BY <2>1, <2>2, <3>1 DEF Log!Rows
    <3>3. QED
      BY <2>3, <3>1, <3>2 DEF Replay
  <2>4. QED
    BY <2>3 DEF NoLiveMessageLost
<1>2. QED
  BY <1>1, InvHolds, PTL
====
