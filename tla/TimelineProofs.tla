--------------------------- MODULE TimelineProofs ---------------------------
(* What the timeline, its search indexes and its archive guarantee for any  *)
(* messages, threads and bounds: types, indexes that mirror the bodies,     *)
(* stubs that can be followed, and an archive that loses no live text.      *)
EXTENDS Timeline, SequenceTheorems, TLAPS

Row == [kind : {"message_received", "message_edited", "message_deleted"},
        msg : Messages, bucket : Nat]
SegmentRow == [bucket : Nat, events : SUBSET Seqs,
               state : {"archive_uploaded", "archive_verified", "archive_compacted"}]
PCs == {"idle", "searched", "hydrating", "scrolling", "archiving", "merging", "flipping"}

-----------------------------------------------------------------------------
(* Types. *)

\* The rows the messages own.
RowsOK ==
    /\ conversation \in BOOLEAN
    /\ bodyState \in [Messages -> BodyStates \cup {"none"}]
    /\ born \in [Messages -> Nat]
    /\ body \in [Messages -> Seqs \cup {0}]
    /\ fts \in [Messages -> SUBSET Seqs]
    /\ fuzzy \in [Messages -> SUBSET Seqs]
    /\ vector \in [Messages -> Seqs \cup {0}]

\* The archive's tables and the clock.
ArchiveOK ==
    /\ journal \in Seq(Row)
    /\ cursor \in 0..Len(journal)
    /\ segments \in Seq(SegmentRow)
    /\ month \in Nat

\* What the threads hold.
CallsOK ==
    /\ pc \in [Threads -> PCs]
    /\ job \in [Threads -> JobType]

LEMMA TypeParts == TypeInv <=> RowsOK /\ ArchiveOK /\ CallsOK
BY DEF TypeInv, RowsOK, ArchiveOK, CallsOK, Row, SegmentRow, PCs

LEMMA TypePartsNext == TypeInv' <=> RowsOK' /\ ArchiveOK' /\ CallsOK'
BY TypeParts, PTL

LEMMA IdleTyped == ArchiveOK => Idle \in JobType
BY DEF Idle, JobType, ArchiveOK

LEMMA GotoTyped ==
    ASSUME ArchiveOK, CallsOK, NEW t \in Threads, NEW stage \in PCs, NEW held \in JobType,
           Goto(t, stage, held)
    PROVE  pc' \in [Threads -> PCs] /\ job' \in [Threads -> JobType]
BY DEF CallsOK, Goto

LEMMA DoneTyped ==
    ASSUME ArchiveOK, CallsOK, NEW t \in Threads, Done(t)
    PROVE  pc' \in [Threads -> PCs] /\ job' \in [Threads -> JobType]
BY GotoTyped, IdleTyped DEF Done, PCs

\* The archive grew: no row of the journal changed, no segment left or changed
\* its contents.
Grew ==
    /\ ArchiveOK'
    /\ Len(journal) <= Len(journal')
    /\ \A e \in Seqs : journal'[e] = journal[e]
    /\ Len(segments) <= Len(segments')
    /\ \A s \in DOMAIN segments :
          /\ segments'[s].bucket = segments[s].bucket
          /\ segments'[s].events = segments[s].events

LEMMA Domains ==
    ASSUME ArchiveOK
    PROVE  /\ Seqs = 1..Len(journal) /\ Len(journal) \in Nat
           /\ DOMAIN segments = 1..Len(segments) /\ Len(segments) \in Nat
           /\ \A e \in Seqs : journal[e] \in Row
           /\ \A s \in DOMAIN segments : segments[s] \in SegmentRow
<1>1. journal \in Seq(Row) /\ segments \in Seq(SegmentRow)
  BY DEF ArchiveOK
<1>2. Seqs = 1..Len(journal) /\ Len(journal) \in Nat
  BY <1>1, LenProperties DEF Seqs
<1>3. DOMAIN segments = 1..Len(segments) /\ Len(segments) \in Nat
  BY <1>1, LenProperties
<1>4. \A e \in Seqs : journal[e] \in Row
  BY <1>1, ElementOfSeq, <1>2
<1>5. \A s \in DOMAIN segments : segments[s] \in SegmentRow
  BY <1>1, ElementOfSeq, <1>3
<1>6. QED
  BY <1>2, <1>3, <1>4, <1>5

LEMMA GrewDomains ==
    ASSUME ArchiveOK, Grew
    PROVE  Seqs \subseteq Seqs' /\ DOMAIN segments \subseteq DOMAIN segments'
<1>1. Seqs = 1..Len(journal) /\ Len(journal) \in Nat
      /\ DOMAIN segments = 1..Len(segments) /\ Len(segments) \in Nat
  BY Domains
<1>2. /\ Seqs' = 1..Len(journal') /\ Len(journal') \in Nat
      /\ DOMAIN segments' = 1..Len(segments') /\ Len(segments') \in Nat
  <2>1. journal' \in Seq(Row) /\ segments' \in Seq(SegmentRow')
    BY DEF Grew, ArchiveOK, Row
  <2>2. QED
    BY <2>1, LenProperties DEF Seqs
<1>3. QED
  BY <1>1, <1>2 DEF Grew

\* Everything that refers into the archive keeps its type when it grows.
LEMMA JobsGrow ==
    ASSUME ArchiveOK, Grew
    PROVE  \A j \in JobType : j \in JobType'
<1> SUFFICES ASSUME NEW j \in JobType PROVE j \in JobType'
  OBVIOUS
<1>1. Seqs \subseteq Seqs' /\ DOMAIN segments \subseteq DOMAIN segments'
  BY GrewDomains
<1>2. 0..Len(journal) \subseteq 0..Len(journal')
  BY Domains DEF Grew
<1>3. j.replay \subseteq (DOMAIN segments') \X Seqs'
  BY <1>1 DEF JobType
<1>4. /\ j.todo \subseteq Seqs' /\ j.segs \subseteq DOMAIN segments'
      /\ j.upto \in 0..Len(journal')
  BY <1>1, <1>2 DEF JobType
<1>5. QED
  BY <1>3, <1>4 DEF JobType

LEMMA CallsGrow ==
    ASSUME ArchiveOK, Grew, pc' \in [Threads -> PCs], job' \in [Threads -> JobType]
    PROVE  CallsOK'
BY JobsGrow DEF CallsOK, PCs

\* Steps that leave the archive alone.
LEMMA ArchiveKept ==
    ASSUME ArchiveOK, UNCHANGED <<journal, cursor, segments>>, month' \in Nat
    PROVE  Grew
BY Domains DEF Grew, ArchiveOK, SegmentRow, Seqs, Row

\* Steps that append a row to the journal.
LEMMA JournalAppend ==
    ASSUME ArchiveOK, NEW row \in Row, journal' = Append(journal, row),
           UNCHANGED <<cursor, segments, month>>
    PROVE  Grew /\ NextSeq \in Seqs' /\ journal'[NextSeq] = row /\ Len(journal') = NextSeq
<1>1. journal \in Seq(Row)
  BY DEF ArchiveOK
<1>2. /\ journal' \in Seq(Row) /\ Len(journal') = Len(journal) + 1
      /\ \A i \in 1..Len(journal) : journal'[i] = journal[i]
      /\ journal'[Len(journal) + 1] = row
  BY <1>1, AppendProperties
<1>3. Seqs' = 1..Len(journal) + 1 /\ Seqs = 1..Len(journal) /\ Len(journal) \in Nat
  BY <1>1, <1>2, LenProperties DEF Seqs
<1>4. segments' \in Seq(SegmentRow')
  <2>1. \A s \in DOMAIN segments : segments[s] \in SegmentRow'
    BY Domains, <1>3 DEF SegmentRow
  <2>2. QED
    BY <2>1, Domains, SeqDef DEF ArchiveOK
<1>5. ArchiveOK'
  BY <1>2, <1>3, <1>4 DEF ArchiveOK, Row
<1>6. QED
  BY <1>2, <1>3, <1>5 DEF Grew, NextSeq

\* Steps that enter a segment in the map.
LEMMA SegmentAppend ==
    ASSUME ArchiveOK, NEW row \in SegmentRow, segments' = Append(segments, row),
           UNCHANGED <<journal, cursor, month>>
    PROVE  /\ Grew
           /\ Len(segments') = Len(segments) + 1
           /\ segments'[Len(segments) + 1] = row
           /\ \A s \in DOMAIN segments : segments'[s] = segments[s]
<1>1. segments \in Seq(SegmentRow)
  BY DEF ArchiveOK
<1>2. /\ segments' \in Seq(SegmentRow) /\ Len(segments') = Len(segments) + 1
      /\ \A i \in 1..Len(segments) : segments'[i] = segments[i]
      /\ segments'[Len(segments) + 1] = row
  BY <1>1, AppendProperties
<1>3. SegmentRow' = SegmentRow /\ Seqs' = Seqs /\ Row' = Row
  BY DEF SegmentRow, Seqs, Row
<1>4. ArchiveOK'
  BY <1>2, <1>3 DEF ArchiveOK
<1>5. QED
  BY <1>2, <1>3, <1>4, Domains DEF Grew

\* Steps that only move rows of the map from one state to another.
LEMMA SegmentsRelabelled ==
    ASSUME ArchiveOK, UNCHANGED <<journal, cursor, month>>,
           segments' = [s \in DOMAIN segments |-> segments'[s]],
           \A s \in DOMAIN segments :
              /\ segments'[s] \in SegmentRow
              /\ segments'[s].bucket = segments[s].bucket
              /\ segments'[s].events = segments[s].events
    PROVE  Grew /\ Len(segments') = Len(segments) /\ DOMAIN segments' = DOMAIN segments
<1>1. DOMAIN segments = 1..Len(segments) /\ Len(segments) \in Nat
  BY Domains
<1>2. segments' \in Seq(SegmentRow) /\ Len(segments') = Len(segments)
  BY <1>1, SeqDef
<1>3. SegmentRow' = SegmentRow /\ Seqs' = Seqs /\ Row' = Row
  BY DEF SegmentRow, Seqs, Row
<1>4. ArchiveOK'
  BY <1>2, <1>3 DEF ArchiveOK
<1>5. QED
  BY <1>1, <1>2, <1>3, <1>4, Domains DEF Grew

-----------------------------------------------------------------------------
(* The host's calls. *)

\* The message rows keep their types when the archive grows around them.
LEMMA RowsGrow ==
    ASSUME ArchiveOK, RowsOK, Grew
    PROVE  /\ body \in [Messages -> Seqs' \cup {0}]
           /\ fts \in [Messages -> SUBSET Seqs']
           /\ fuzzy \in [Messages -> SUBSET Seqs']
           /\ vector \in [Messages -> Seqs' \cup {0}]
<1>1. Seqs \subseteq Seqs'
  BY GrewDomains
<1>2. QED
  BY <1>1 DEF RowsOK

LEMMA LandTyped ==
    ASSUME TypeInv, NEW m \in Messages, NEW bucket \in Nat, Land(m, bucket),
           vector' = vector \/ vector' = [vector EXCEPT ![m] = NextSeq]
    PROVE  TypeInv' /\ Grew
<1>1. RowsOK /\ ArchiveOK /\ CallsOK
  BY TypeParts
<1>2. Event("message_received", m, bucket) \in Row
  BY DEF Event, Row
<1>3. Grew /\ NextSeq \in Seqs'
  BY <1>1, <1>2, JournalAppend DEF Land, archive
<1>4. RowsOK'
  BY <1>1, <1>3, RowsGrow DEF RowsOK, Land, BodyStates
<1>5. CallsOK'
  BY <1>1, <1>3, CallsGrow DEF CallsOK, Land, threads
<1>6. QED
  BY <1>3, <1>4, <1>5, TypePartsNext DEF Grew

LEMMA EditTyped ==
    ASSUME TypeInv, NEW m \in Messages, Edit(m)
    PROVE  TypeInv' /\ Grew
<1>1. RowsOK /\ ArchiveOK /\ CallsOK
  BY TypeParts
<1>2. Event("message_edited", m, month) \in Row
  BY <1>1 DEF Event, Row, ArchiveOK
<1>3. Grew /\ NextSeq \in Seqs'
  BY <1>1, <1>2, JournalAppend DEF Edit, archive
<1>4. RowsOK'
  BY <1>1, <1>3, RowsGrow DEF RowsOK, Edit
<1>5. CallsOK'
  BY <1>1, <1>3, CallsGrow DEF CallsOK, Edit, threads
<1>6. QED
  BY <1>3, <1>4, <1>5, TypePartsNext DEF Grew

LEMMA DeleteTyped ==
    ASSUME TypeInv, NEW m \in Messages,
           NEW scope \in {"deleted_for_me", "deleted_for_everyone"}, Delete(m, scope)
    PROVE  TypeInv' /\ Grew
<1>1. RowsOK /\ ArchiveOK /\ CallsOK
  BY TypeParts
<1>2. Event("message_deleted", m, month) \in Row
  BY <1>1 DEF Event, Row, ArchiveOK
<1>3. Grew
  BY <1>1, <1>2, JournalAppend DEF Delete, archive
<1>4. RowsOK'
  <2>1. body' \in [Messages -> Seqs' \cup {0}]
    BY <1>1, <1>3, RowsGrow DEF Delete
  <2>2. /\ fts' \in [Messages -> SUBSET Seqs'] /\ fuzzy' \in [Messages -> SUBSET Seqs']
        /\ vector' \in [Messages -> Seqs' \cup {0}]
    BY <1>1, <1>3, RowsGrow DEF Delete
  <2>3. conversation' \in BOOLEAN /\ born' \in [Messages -> Nat]
        /\ bodyState' \in [Messages -> BodyStates \cup {"none"}]
    BY <1>1 DEF RowsOK, Delete, BodyStates
  <2>4. QED
    BY <2>1, <2>2, <2>3 DEF RowsOK
<1>5. CallsOK'
  BY <1>1, <1>3, CallsGrow DEF CallsOK, Delete, threads
<1>6. QED
  BY <1>3, <1>4, <1>5, TypePartsNext DEF Grew

LEMMA ConversationTyped ==
    ASSUME TypeInv, CreateConversation \/ DeleteConversation \/ NextMonth
    PROVE  TypeInv' /\ Grew
<1>1. RowsOK /\ ArchiveOK /\ CallsOK
  BY TypeParts
<1>2. Grew
  BY <1>1, ArchiveKept
     DEF CreateConversation, DeleteConversation, NextMonth, archive, ArchiveOK
<1>3. RowsOK'
  <2>1. CASE CreateConversation
    BY <1>1, <1>2, <2>1, RowsGrow DEF RowsOK, CreateConversation, message, index
  <2>2. CASE DeleteConversation
    BY <1>1, <2>2 DEF RowsOK, DeleteConversation
  <2>3. CASE NextMonth
    BY <1>1, <1>2, <2>3, RowsGrow DEF RowsOK, NextMonth, message, index
  <2>4. QED
    BY <2>1, <2>2, <2>3
<1>4. CallsOK'
  BY <1>1, <1>2, CallsGrow
     DEF CallsOK, CreateConversation, DeleteConversation, NextMonth, threads
<1>5. QED
  BY <1>2, <1>3, <1>4, TypePartsNext DEF Grew

LEMMA VerifyTyped ==
    ASSUME TypeInv, NEW s \in DOMAIN segments, VerifySegment(s)
    PROVE  TypeInv' /\ Grew
<1>1. RowsOK /\ ArchiveOK /\ CallsOK
  BY TypeParts
<1>2. \A r \in DOMAIN segments : segments[r] \in SegmentRow
  BY <1>1, Domains
<1>3. \A r \in DOMAIN segments :
         /\ segments'[r] \in SegmentRow
         /\ segments'[r].bucket = segments[r].bucket
         /\ segments'[r].events = segments[r].events
  BY <1>2 DEF VerifySegment, SegmentRow
<1>4. segments' = [r \in DOMAIN segments |-> segments'[r]]
  BY DEF VerifySegment
<1>5. Grew
  BY <1>1, <1>3, <1>4, SegmentsRelabelled DEF VerifySegment
<1>6. RowsOK'
  BY <1>1, <1>5, RowsGrow DEF RowsOK, VerifySegment, message, index
<1>7. CallsOK'
  BY <1>1, <1>5, CallsGrow DEF CallsOK, VerifySegment, threads
<1>8. QED
  BY <1>5, <1>6, <1>7, TypePartsNext DEF Grew

-----------------------------------------------------------------------------
(* The calls that release the lock on the way. *)

\* Steps that change only the rows of the messages and what a thread holds.
LEMMA RowsAndCalls ==
    ASSUME TypeInv, UNCHANGED <<journal, archive, month>>,
           RowsOK', pc' \in [Threads -> PCs], job' \in [Threads -> JobType]
    PROVE  TypeInv' /\ Grew
<1>1. RowsOK /\ ArchiveOK /\ CallsOK
  BY TypeParts
<1>2. Grew
  BY <1>1, ArchiveKept DEF archive, ArchiveOK
<1>3. CallsOK'
  BY <1>1, <1>2, CallsGrow
<1>4. QED
  BY <1>2, <1>3, TypePartsNext DEF Grew

\* Steps that change only what a thread holds.
LEMMA OnlyCalls ==
    ASSUME TypeInv, UNCHANGED <<conversation, message, index, journal, archive, month>>,
           pc' \in [Threads -> PCs], job' \in [Threads -> JobType]
    PROVE  TypeInv' /\ Grew
<1>1. RowsOK /\ ArchiveOK /\ CallsOK
  BY TypeParts
<1>2. Grew
  BY <1>1, ArchiveKept DEF archive, ArchiveOK
<1>3. RowsOK'
  BY <1>1, <1>2, RowsGrow DEF RowsOK, message, index
<1>4. QED
  BY <1>3, RowsAndCalls

\* What a step finds in its thread's hands.
LEMMA HeldTyped ==
    ASSUME TypeInv, NEW t \in Threads
    PROVE  /\ ArchiveOK /\ CallsOK /\ job[t] \in JobType
           /\ job[t].msg \in Messages \cup {0} /\ job[t].bucket \in Nat
           /\ job[t].replay \subseteq (DOMAIN segments) \X Seqs
           /\ job[t].todo \subseteq Seqs /\ job[t].upto \in 0..Len(journal)
           /\ job[t].segs \subseteq DOMAIN segments /\ job[t].out \in Nat
<1>1. ArchiveOK /\ CallsOK
  BY TypeParts
<1>2. job[t] \in JobType
  BY <1>1 DEF CallsOK
<1>3. QED
  BY <1>1, <1>2 DEF JobType

LEMMA ReaderFetchTyped ==
    ASSUME TypeInv, NEW t \in Threads,
           SearchCold(t) \/ HydrateFetch(t) \/ ScrollFetch(t)
    PROVE  TypeInv' /\ Grew
<1>1. ArchiveOK /\ CallsOK /\ job[t] \in JobType /\ Idle \in JobType
  BY HeldTyped, IdleTyped
<1>2. month \in Nat
  BY <1>1 DEF ArchiveOK
<1>3. CASE SearchCold(t)
  <2>1. PICK hit \in ColdHits :
           Goto(t, "searched", [Idle EXCEPT !.msg = hit[1], !.bucket = hit[2]])
    BY <1>3 DEF SearchCold
  <2>2. hit[1] \in Messages /\ hit[2] \in Nat
    BY <1>2 DEF ColdHits
  <2>3. [Idle EXCEPT !.msg = hit[1], !.bucket = hit[2]] \in JobType
    BY <1>1, <2>2 DEF JobType
  <2>4. QED
    BY <1>1, <1>3, <2>1, <2>3, GotoTyped, OnlyCalls DEF SearchCold, PCs
<1>4. CASE HydrateFetch(t)
  <2> DEFINE wanted == {p \in SegmentsOf(job[t].bucket) \X DOMAIN journal :
                           /\ p[2] \in segments[p[1]].events
                           /\ CarriesText(p[2])
                           /\ journal[p[2]].msg = job[t].msg}
  <2>1. wanted \subseteq (DOMAIN segments) \X Seqs
    BY DEF SegmentsOf, Seqs
  <2>2. [Idle EXCEPT !.replay = wanted] \in JobType
    <3> HIDE DEF wanted
    <3> QED BY <1>1, <2>1 DEF JobType
  <2>3. Done(t) \/ Goto(t, "hydrating", [Idle EXCEPT !.replay = wanted])
    BY <1>4 DEF HydrateFetch
  <2>4. pc' \in [Threads -> PCs] /\ job' \in [Threads -> JobType]
    <3> HIDE DEF wanted
    <3> QED BY <1>1, <2>2, <2>3, GotoTyped, DoneTyped DEF PCs
  <2>5. QED
    BY <1>4, <2>4, OnlyCalls DEF HydrateFetch
<1>5. CASE ScrollFetch(t)
  <2>1. PICK bucket \in 1..month :
           Goto(t, "scrolling", [Idle EXCEPT !.segs = SegmentsOf(bucket)])
    BY <1>5 DEF ScrollFetch
  <2>2. [Idle EXCEPT !.segs = SegmentsOf(bucket)] \in JobType
    BY <1>1 DEF JobType, SegmentsOf
  <2>3. QED
    BY <1>1, <1>5, <2>1, <2>2, GotoTyped, OnlyCalls DEF ScrollFetch, PCs
<1>6. QED
  BY <1>3, <1>4, <1>5

LEMMA HydrateApplyTyped ==
    ASSUME TypeInv, NEW t \in Threads, HydrateApply(t)
    PROVE  TypeInv' /\ Grew
<1>1. ArchiveOK /\ CallsOK /\ job[t] \in JobType
      /\ job[t].replay \subseteq (DOMAIN segments) \X Seqs
  BY HeldTyped
<1>2. PICK p \in NextToReplay(t) :
         /\ bodyState[journal[p[2]].msg] # "none"
         /\ Rehydrate(journal[p[2]].msg, p[2])
         /\ IF job[t].replay = {p}
            THEN Done(t)
            ELSE Goto(t, "hydrating", [job[t] EXCEPT !.replay = @ \ {p}, !.cur = p[1]])
  BY DEF HydrateApply
<1>3. p \in (DOMAIN segments) \X Seqs
  BY <1>1, <1>2 DEF NextToReplay
<1>4. p[1] \in Nat /\ p[2] \in Seqs /\ journal[p[2]].msg \in Messages
  BY <1>1, <1>3, Domains DEF Row
<1>5. [job[t] EXCEPT !.replay = @ \ {p}, !.cur = p[1]] \in JobType
  BY <1>1, <1>4 DEF JobType
<1>6. pc' \in [Threads -> PCs] /\ job' \in [Threads -> JobType]
  BY <1>1, <1>2, <1>5, GotoTyped, DoneTyped DEF PCs
<1>7. RowsOK'
  <2>1. RowsOK
    BY TypeParts
  <2>2. Seqs' = Seqs
    BY DEF HydrateApply, Seqs
  <2>3. PICK m \in Messages : Rehydrate(m, p[2])
    BY <1>2, <1>4
  <2>4. /\ bodyState' \in [Messages -> BodyStates \cup {"none"}]
        /\ body' \in [Messages -> Seqs \cup {0}]
    BY <1>4, <2>1, <2>3 DEF RowsOK, Rehydrate, BodyStates
  <2>5. fts' \in [Messages -> SUBSET Seqs] /\ fuzzy' \in [Messages -> SUBSET Seqs]
    BY <1>4, <2>1, <2>3 DEF RowsOK, Rehydrate
  <2>6. QED
    BY <2>1, <2>2, <2>4, <2>5 DEF HydrateApply, RowsOK
<1>8. QED
  BY <1>6, <1>7, RowsAndCalls DEF HydrateApply

LEMMA ScrollApplyTyped ==
    ASSUME TypeInv, NEW t \in Threads, ScrollApply(t)
    PROVE  TypeInv' /\ Grew
<1>1. ArchiveOK /\ CallsOK /\ job[t] \in JobType /\ job[t].segs \subseteq DOMAIN segments
  BY HeldTyped
<1>2. PICK s \in job[t].segs :
         /\ bodyState' = [m \in Messages |->
               IF m \in Stubs(s) THEN "remote_archive_only" ELSE bodyState[m]]
         /\ born' = [m \in Messages |->
               IF m \in Stubs(s) THEN segments[s].bucket ELSE born[m]]
         /\ IF job[t].segs = {s}
            THEN Done(t)
            ELSE Goto(t, "scrolling", [job[t] EXCEPT !.segs = @ \ {s}])
  BY DEF ScrollApply
<1>3. segments[s].bucket \in Nat
  BY <1>1, <1>2, Domains DEF SegmentRow
<1>4. [job[t] EXCEPT !.segs = @ \ {s}] \in JobType
  BY <1>1 DEF JobType
<1>5. pc' \in [Threads -> PCs] /\ job' \in [Threads -> JobType]
  BY <1>1, <1>2, <1>4, GotoTyped, DoneTyped DEF PCs
<1>6. RowsOK'
  <2>1. RowsOK
    BY TypeParts
  <2>2. Seqs' = Seqs
    BY DEF ScrollApply, Seqs
  <2>3. QED
    BY <1>2, <1>3, <2>1, <2>2 DEF ScrollApply, RowsOK, BodyStates, index
<1>7. QED
  BY <1>5, <1>6, RowsAndCalls DEF ScrollApply

\* Steps that change only the archive's map and what a thread holds.
LEMMA ArchiveAndCalls ==
    ASSUME TypeInv, Grew, UNCHANGED <<conversation, message, index>>,
           pc' \in [Threads -> PCs], job' \in [Threads -> JobType']
    PROVE  TypeInv' /\ Grew
<1>1. RowsOK /\ ArchiveOK /\ CallsOK
  BY TypeParts
<1>2. RowsOK'
  BY <1>1, RowsGrow DEF RowsOK, message, index
<1>3. CallsOK'
  BY DEF CallsOK, PCs
<1>4. QED
  BY <1>2, <1>3, TypePartsNext DEF Grew

LEMMA GotoGrown ==
    ASSUME TypeInv, Grew, NEW t \in Threads, NEW stage \in PCs, NEW held \in JobType',
           Goto(t, stage, held)
    PROVE  pc' \in [Threads -> PCs] /\ job' \in [Threads -> JobType']
<1>1. ArchiveOK /\ CallsOK
  BY TypeParts
<1>2. job \in [Threads -> JobType']
  BY <1>1, JobsGrow DEF CallsOK
<1>3. QED
  BY <1>1, <1>2 DEF Goto, CallsOK

LEMMA DoneGrown ==
    ASSUME TypeInv, Grew, NEW t \in Threads, Done(t)
    PROVE  pc' \in [Threads -> PCs] /\ job' \in [Threads -> JobType']
<1>1. Idle \in JobType'
  BY TypeParts, IdleTyped, JobsGrow
<1>2. QED
  BY <1>1, GotoGrown DEF Done, PCs

LEMMA ArchiveReadTyped ==
    ASSUME TypeInv, NEW t \in Threads, ArchiveRead(t)
    PROVE  TypeInv' /\ Grew
<1>1. ArchiveOK /\ CallsOK /\ Idle \in JobType
  BY HeldTyped, IdleTyped
<1>2. cursor + 1 .. Len(journal) \subseteq Seqs /\ Len(journal) \in 0..Len(journal)
  BY <1>1, Domains DEF ArchiveOK
<1>3. [Idle EXCEPT !.todo = cursor + 1 .. Len(journal), !.upto = Len(journal)] \in JobType
  BY <1>1, <1>2 DEF JobType
<1>4. QED
  BY <1>1, <1>3, GotoTyped, OnlyCalls DEF ArchiveRead, PCs

LEMMA ArchiveSegmentTyped ==
    ASSUME TypeInv, NEW t \in Threads, ArchiveSegment(t)
    PROVE  TypeInv' /\ Grew
<1>1. ArchiveOK /\ job[t] \in JobType /\ job[t].todo \subseteq Seqs
  BY HeldTyped
<1>2. PICK bucket, events :
         /\ bucket \in {journal[e].bucket : e \in job[t].todo}
         /\ events = {e \in job[t].todo : journal[e].bucket = bucket}
         /\ segments' = Append(segments, [bucket |-> bucket, events |-> events,
                                          state |-> "archive_uploaded"])
         /\ Goto(t, "archiving", [job[t] EXCEPT !.todo = @ \ events])
  BY DEF ArchiveSegment
<1>3. bucket \in Nat /\ events \subseteq Seqs
  BY <1>1, <1>2, Domains DEF Row
<1>4. Grew
  BY <1>1, <1>2, <1>3, SegmentAppend DEF ArchiveSegment, SegmentRow
<1>5. [job[t] EXCEPT !.todo = @ \ events] \in JobType
  BY <1>1 DEF JobType
<1>6. pc' \in [Threads -> PCs] /\ job' \in [Threads -> JobType']
  BY <1>1, <1>2, <1>4, <1>5, JobsGrow, GotoGrown DEF PCs
<1>7. QED
  BY <1>4, <1>6, ArchiveAndCalls DEF ArchiveSegment

LEMMA ArchiveAdvanceTyped ==
    ASSUME TypeInv, NEW t \in Threads, ArchiveAdvance(t)
    PROVE  TypeInv' /\ Grew
<1>1. ArchiveOK /\ job[t].upto \in 0..Len(journal)
  BY HeldTyped
<1>2. Grew
  BY <1>1, Domains DEF ArchiveAdvance, Grew, ArchiveOK, SegmentRow, Seqs, Row
<1>3. QED
  BY <1>2, DoneGrown, ArchiveAndCalls DEF ArchiveAdvance

LEMMA CompactReadTyped ==
    ASSUME TypeInv, NEW t \in Threads, CompactRead(t)
    PROVE  TypeInv' /\ Grew
<1>1. ArchiveOK /\ CallsOK /\ Idle \in JobType /\ month \in Nat
  BY HeldTyped, IdleTyped DEF ArchiveOK
<1>2. PICK bucket \in 1..month :
         Goto(t, "merging", [Idle EXCEPT !.segs = Eligible(bucket), !.bucket = bucket])
  BY DEF CompactRead
<1>3. [Idle EXCEPT !.segs = Eligible(bucket), !.bucket = bucket] \in JobType
  <2>1. Eligible(bucket) \subseteq DOMAIN segments /\ bucket \in Nat
    BY <1>1 DEF Eligible, SegmentsOf
  <2>2. QED
    BY <1>1, <2>1 DEF JobType
<1>4. QED
  BY <1>1, <1>2, <1>3, GotoTyped, OnlyCalls DEF CompactRead, PCs

LEMMA MergedTyped ==
    ASSUME TypeInv, NEW t \in Threads
    PROVE  Merged(t) \subseteq Seqs
<1>1. ArchiveOK /\ job[t].segs \subseteq DOMAIN segments
  BY HeldTyped
<1>2. \A s \in job[t].segs : segments[s].events \subseteq Seqs
  BY <1>1, Domains DEF SegmentRow
<1>3. QED
  BY <1>2 DEF Merged, Survivors

LEMMA CompactCommitTyped ==
    ASSUME TypeInv, NEW t \in Threads, CompactCommit(t)
    PROVE  TypeInv' /\ Grew
<1>1. ArchiveOK /\ CallsOK /\ job[t] \in JobType /\ job[t].bucket \in Nat
  BY HeldTyped
<1>2. Grew
  <2>1. CASE UNCHANGED segments
    BY <1>1, <2>1, ArchiveKept DEF CompactCommit, ArchiveOK
  <2>2. CASE segments' = Append(segments, [bucket |-> job[t].bucket, events |-> Merged(t),
                                           state |-> "archive_uploaded"])
    BY <1>1, <2>2, MergedTyped, SegmentAppend DEF CompactCommit, SegmentRow
  <2>3. QED
    BY <2>1, <2>2 DEF CompactCommit
<1>3. [job[t] EXCEPT !.out = Len(segments) + 1] \in JobType
  BY <1>1, Domains DEF JobType
<1>4. pc' \in [Threads -> PCs] /\ job' \in [Threads -> JobType']
  BY <1>1, <1>2, <1>3, JobsGrow, GotoGrown DEF CompactCommit, PCs
<1>5. QED
  BY <1>2, <1>4, ArchiveAndCalls DEF CompactCommit

LEMMA CompactFlipTyped ==
    ASSUME TypeInv, NEW t \in Threads, CompactFlip(t)
    PROVE  TypeInv' /\ Grew
<1>1. ArchiveOK
  BY HeldTyped
<1>2. \A s \in DOMAIN segments : segments[s] \in SegmentRow
  BY <1>1, Domains
<1>3. \A s \in DOMAIN segments :
         /\ segments'[s] \in SegmentRow
         /\ segments'[s].bucket = segments[s].bucket
         /\ segments'[s].events = segments[s].events
  BY <1>2 DEF CompactFlip, SegmentRow
<1>4. segments' = [s \in DOMAIN segments |-> segments'[s]]
  BY DEF CompactFlip
<1>5. Grew
  BY <1>1, <1>3, <1>4, SegmentsRelabelled DEF CompactFlip
<1>6. QED
  BY <1>5, DoneGrown, ArchiveAndCalls DEF CompactFlip

LEMMA ReturnTyped ==
    ASSUME TypeInv, NEW t \in Threads, Return(t)
    PROVE  TypeInv' /\ Grew
BY HeldTyped, DoneTyped, OnlyCalls DEF Return

\* Every step keeps the types, and only ever adds to the archive.
LEMMA StepTyped ==
    ASSUME TypeInv, Next
    PROVE  TypeInv' /\ Grew
<1>1. CASE Host
  <2>1. CASE \E m \in Messages : Ingest(m) \/ SendText(m)
    <3>1. month \in Nat
      BY TypeParts DEF ArchiveOK
    <3>2. PICK m \in Messages : Ingest(m) \/ SendText(m)
      BY <2>1
    <3>3. \E bucket \in Nat : /\ Land(m, bucket)
                              /\ vector' = vector \/ vector' = [vector EXCEPT ![m] = NextSeq]
      BY <3>1, <3>2 DEF Ingest, SendText
    <3>4. QED
      BY <3>3, LandTyped
  <2>2. CASE \E m \in Messages : Edit(m)
    BY <2>2, EditTyped
  <2>3. CASE \E m \in Messages :
               \E scope \in {"deleted_for_me", "deleted_for_everyone"} : Delete(m, scope)
    BY <2>3, DeleteTyped
  <2>4. CASE CreateConversation \/ DeleteConversation \/ NextMonth
    BY <2>4, ConversationTyped
  <2>5. CASE \E s \in DOMAIN segments : VerifySegment(s)
    BY <2>5, VerifyTyped
  <2>6. QED
    BY <1>1, <2>1, <2>2, <2>3, <2>4, <2>5 DEF Host
<1>2. CASE \E t \in Readers : \/ SearchCold(t) \/ HydrateFetch(t) \/ HydrateApply(t)
                              \/ ScrollFetch(t) \/ ScrollApply(t)
  BY <1>2, ReaderFetchTyped, HydrateApplyTyped, ScrollApplyTyped DEF Threads
<1>3. CASE \E t \in Archivers : ArchiveRead(t) \/ ArchiveSegment(t) \/ ArchiveAdvance(t)
  BY <1>3, ArchiveReadTyped, ArchiveSegmentTyped, ArchiveAdvanceTyped DEF Threads
<1>4. CASE \E t \in Compactors : CompactRead(t) \/ CompactCommit(t) \/ CompactFlip(t)
  BY <1>4, CompactReadTyped, CompactCommitTyped, CompactFlipTyped DEF Threads
<1>5. CASE \E t \in Threads : Return(t)
  BY <1>5, ReturnTyped
<1>6. QED
  BY <1>1, <1>2, <1>3, <1>4, <1>5 DEF Next

\* Steps that do nothing are no exception.
LEMMA StutterTyped ==
    ASSUME TypeInv, UNCHANGED vars
    PROVE  TypeInv' /\ Grew
<1>1. UNCHANGED <<conversation, message, index, journal, archive, month>> /\ UNCHANGED threads
  BY DEF vars
<1>2. ArchiveOK /\ CallsOK
  BY TypeParts
<1>3. pc' \in [Threads -> PCs] /\ job' \in [Threads -> JobType]
  BY <1>1, <1>2 DEF threads, CallsOK
<1>4. QED
  BY <1>1, <1>3, OnlyCalls

LEMMA InitTyped == Init => TypeInv
<1> SUFFICES ASSUME Init PROVE TypeInv
  OBVIOUS
<1>1. ArchiveOK
  BY EmptySeq DEF Init, ArchiveOK
<1>2. RowsOK
  BY DEF Init, RowsOK, BodyStates
<1>3. CallsOK
  BY <1>1, IdleTyped DEF Init, CallsOK, PCs
<1>4. QED
  BY <1>1, <1>2, <1>3, TypeParts

\* The type invariant holds of every behaviour: in particular no index row, body
\* or segment ever names an event the journal does not hold, whatever the order
\* of the host's calls and of the threads' steps.
THEOREM TimelineTypesCorrect == Spec => []TypeInv
<1>1. TypeInv /\ [Next]_vars => TypeInv'
  BY StepTyped, StutterTyped
<1>2. QED
  BY <1>1, InitTyped, PTL DEF Spec

-----------------------------------------------------------------------------
(* The indexes mirror the bodies. *)

\* What IndexMirrorsBody says of one message.
Mirrored(m) ==
    /\ bodyState[m] = "local_plain_available" =>
          /\ body[m] # 0
          /\ fts[m] = {body[m]}
          /\ fuzzy[m] = {body[m]}
    /\ bodyState[m] # "local_plain_available" =>
          /\ fts[m] = {}
          /\ fuzzy[m] = {}
          /\ vector[m] = 0
    /\ bodyState[m] \notin {"local_plain_available", "deleted_for_me"} => body[m] = 0

LEMMA MirroredAll == IndexMirrorsBody <=> \A m \in Messages : Mirrored(m)
BY DEF IndexMirrorsBody, Mirrored

\* A message whose rows a step leaves alone stays mirrored.
LEMMA MirrorKept ==
    ASSUME NEW m \in Messages, Mirrored(m),
           bodyState'[m] = bodyState[m], body'[m] = body[m], fts'[m] = fts[m],
           fuzzy'[m] = fuzzy[m], vector'[m] = vector[m]
    PROVE  Mirrored(m)'
BY DEF Mirrored

LEMMA LandMirrors ==
    ASSUME TypeInv, IndexMirrorsBody, NEW m \in Messages, NEW bucket \in Nat,
           Land(m, bucket), vector' = vector \/ vector' = [vector EXCEPT ![m] = NextSeq]
    PROVE  IndexMirrorsBody'
<1>1. RowsOK /\ NextSeq # 0
  BY TypeParts, Domains DEF NextSeq
<1>2. Mirrored(m)'
  BY <1>1, MirroredAll DEF Land, RowsOK, Mirrored
<1>3. \A n \in Messages \ {m} : Mirrored(n)'
  BY <1>1, MirroredAll, MirrorKept DEF Land, RowsOK
<1>4. QED
  BY <1>2, <1>3 DEF IndexMirrorsBody, Mirrored

LEMMA EditMirrors ==
    ASSUME TypeInv, IndexMirrorsBody, NEW m \in Messages, Edit(m)
    PROVE  IndexMirrorsBody'
<1>1. RowsOK /\ NextSeq # 0
  BY TypeParts, Domains DEF NextSeq
<1>2. Mirrored(m)'
  BY <1>1 DEF Edit, RowsOK, Mirrored
<1>3. \A n \in Messages \ {m} : Mirrored(n)'
  BY <1>1, MirroredAll, MirrorKept DEF Edit, RowsOK
<1>4. QED
  BY <1>2, <1>3 DEF IndexMirrorsBody, Mirrored

LEMMA DeleteMirrors ==
    ASSUME TypeInv, IndexMirrorsBody, NEW m \in Messages,
           NEW scope \in {"deleted_for_me", "deleted_for_everyone"}, Delete(m, scope)
    PROVE  IndexMirrorsBody'
<1>1. RowsOK
  BY TypeParts
<1>2. body'[m] = (IF scope = "deleted_for_everyone" THEN 0 ELSE body[m])
      /\ \A n \in Messages \ {m} : body'[n] = body[n]
  BY <1>1 DEF Delete, RowsOK
<1>3. Mirrored(m)'
  BY <1>1, <1>2 DEF Delete, RowsOK, Mirrored
<1>4. \A n \in Messages \ {m} : Mirrored(n)'
  BY <1>1, <1>2, MirroredAll, MirrorKept DEF Delete, RowsOK
<1>5. QED
  BY <1>3, <1>4 DEF IndexMirrorsBody, Mirrored

LEMMA HydrateMirrors ==
    ASSUME TypeInv, IndexMirrorsBody, NEW t \in Threads, HydrateApply(t)
    PROVE  IndexMirrorsBody'
<1>1. RowsOK /\ ArchiveOK /\ job[t].replay \subseteq (DOMAIN segments) \X Seqs
  BY TypeParts, HeldTyped
<1>2. PICK p \in job[t].replay : Rehydrate(journal[p[2]].msg, p[2])
  BY DEF HydrateApply, NextToReplay
<1>3. p[2] \in Seqs /\ journal[p[2]].msg \in Messages
  BY <1>1, <1>2, Domains DEF Row
<1>4. p[2] # 0
  BY <1>1, <1>3, Domains
<1>5. PICK m, text : m \in Messages /\ Rehydrate(m, text) /\ text # 0
  BY <1>2, <1>3, <1>4
<1>6. Mirrored(m)'
  BY <1>1, <1>5 DEF Rehydrate, RowsOK, Mirrored
<1>7. \A n \in Messages \ {m} : Mirrored(n)'
  BY <1>1, <1>5, MirroredAll, MirrorKept DEF Rehydrate, RowsOK, HydrateApply
<1>8. QED
  BY <1>6, <1>7 DEF IndexMirrorsBody, Mirrored

LEMMA ScrollMirrors ==
    ASSUME TypeInv, IndexMirrorsBody, NEW t \in Threads, ScrollApply(t)
    PROVE  IndexMirrorsBody'
<1>1. PICK s : bodyState' = [m \in Messages |->
                 IF m \in Stubs(s) THEN "remote_archive_only" ELSE bodyState[m]]
  BY DEF ScrollApply
<1>2. \A m \in Messages : m \in Stubs(s) => bodyState[m] = "none"
  BY DEF Stubs
<1>3. \A m \in Messages : Mirrored(m)'
  BY <1>1, <1>2, MirroredAll DEF ScrollApply, Mirrored, index
<1>4. QED
  BY <1>3 DEF IndexMirrorsBody, Mirrored

\* A step that leaves every row of the messages alone.
LEMMA RowsKeptMirror ==
    ASSUME IndexMirrorsBody, UNCHANGED <<message, index>>
    PROVE  IndexMirrorsBody'
BY DEF IndexMirrorsBody, message, index

LEMMA StepMirrors ==
    ASSUME TypeInv, IndexMirrorsBody, Next
    PROVE  IndexMirrorsBody'
<1>1. CASE Host
  <2>1. CASE \E m \in Messages : Ingest(m) \/ SendText(m)
    <3>1. month \in Nat
      BY TypeParts DEF ArchiveOK
    <3>2. PICK m \in Messages : Ingest(m) \/ SendText(m)
      BY <2>1
    <3>3. \E bucket \in Nat : /\ Land(m, bucket)
                              /\ vector' = vector \/ vector' = [vector EXCEPT ![m] = NextSeq]
      BY <3>1, <3>2 DEF Ingest, SendText
    <3>4. QED
      BY <3>3, LandMirrors
  <2>2. CASE \E m \in Messages : Edit(m)
    BY <2>2, EditMirrors
  <2>3. CASE \E m \in Messages :
               \E scope \in {"deleted_for_me", "deleted_for_everyone"} : Delete(m, scope)
    BY <2>3, DeleteMirrors
  <2>4. CASE DeleteConversation
    BY <2>4 DEF DeleteConversation, IndexMirrorsBody
  <2>5. CASE CreateConversation \/ NextMonth
    BY <2>5, RowsKeptMirror DEF CreateConversation, NextMonth
  <2>6. CASE \E s \in DOMAIN segments : VerifySegment(s)
    BY <2>6, RowsKeptMirror DEF VerifySegment
  <2>7. QED
    BY <1>1, <2>1, <2>2, <2>3, <2>4, <2>5, <2>6 DEF Host
<1>2. CASE \E t \in Readers : HydrateApply(t)
  BY <1>2, HydrateMirrors DEF Threads
<1>3. CASE \E t \in Readers : ScrollApply(t)
  BY <1>3, ScrollMirrors DEF Threads
<1>4. CASE \E t \in Readers : SearchCold(t) \/ HydrateFetch(t) \/ ScrollFetch(t)
  BY <1>4, RowsKeptMirror DEF SearchCold, HydrateFetch, ScrollFetch
<1>5. CASE \E t \in Archivers : ArchiveRead(t) \/ ArchiveSegment(t) \/ ArchiveAdvance(t)
  BY <1>5, RowsKeptMirror DEF ArchiveRead, ArchiveSegment, ArchiveAdvance
<1>6. CASE \E t \in Compactors : CompactRead(t) \/ CompactCommit(t) \/ CompactFlip(t)
  BY <1>6, RowsKeptMirror DEF CompactRead, CompactCommit, CompactFlip
<1>7. CASE \E t \in Threads : Return(t)
  BY <1>7, RowsKeptMirror DEF Return
<1>8. QED
  BY <1>1, <1>2, <1>3, <1>4, <1>5, <1>6, <1>7 DEF Next

\* Search finds what the timeline shows, whatever the host calls and however the
\* readers' late writes fall between edits, deletions and dropped conversations:
\* edit_message, delete_inner, rehydrate_message_body_locally and
\* delete_conversation keep the three lanes and the body together.
THEOREM SearchMirrorsTimeline == Spec => []IndexMirrorsBody
<1>1. Init => IndexMirrorsBody
  BY DEF Init, IndexMirrorsBody
<1>2. TypeInv /\ IndexMirrorsBody /\ [Next]_vars => IndexMirrorsBody'
  BY StepMirrors, RowsKeptMirror DEF vars
<1>3. QED
  BY <1>1, <1>2, TimelineTypesCorrect, PTL DEF Spec

\* A row that exists never becomes a stub, so scroll-back applied from a stale
\* fetch hides no body: upsert_skeleton_from_archive inserts or ignores, and a
\* message without a row has no body.
THEOREM ExistingRowsWin == Spec => RowsNeverBecomeStubs
<1>1. ASSUME TypeInv, IndexMirrorsBody, [Next]_vars, NEW m \in Messages,
             bodyState'[m] = "remote_archive_only", bodyState[m] # "remote_archive_only"
      PROVE  bodyState[m] = "none" /\ body[m] = 0
  <2>1. bodyState[m] = "none"
    <3>1. RowsOK
      BY <1>1, TypeParts
    <3>2. CASE \E t \in Readers : ScrollApply(t)
      BY <1>1, <3>2 DEF ScrollApply, Stubs
    <3>3. CASE \E t \in Readers : HydrateApply(t)
      BY <1>1, <3>1, <3>3 DEF HydrateApply, Rehydrate, RowsOK
    <3>4. CASE Host
      BY <1>1, <3>1, <3>4 DEF Host, CreateConversation, DeleteConversation, NextMonth, Ingest,
         SendText, Land, Edit, Delete, VerifySegment, RowsOK, message
    <3>5. CASE UNCHANGED vars
      BY <1>1, <3>5 DEF vars, message
    <3>6. CASE \E t \in Threads : \/ SearchCold(t) \/ HydrateFetch(t) \/ ScrollFetch(t)
                                  \/ ArchiveRead(t) \/ ArchiveSegment(t) \/ ArchiveAdvance(t)
                                  \/ CompactRead(t) \/ CompactCommit(t) \/ CompactFlip(t)
                                  \/ Return(t)
      BY <1>1, <3>6 DEF SearchCold, HydrateFetch, ScrollFetch, ArchiveRead, ArchiveSegment,
         ArchiveAdvance, CompactRead, CompactCommit, CompactFlip, Return, message
    <3>7. QED
      BY <1>1, <3>2, <3>3, <3>4, <3>5, <3>6 DEF Next, Threads
  <2>2. QED
    BY <1>1, <2>1 DEF IndexMirrorsBody
<1>2. TypeInv /\ IndexMirrorsBody /\ [Next]_vars =>
         [\A m \in Messages :
             bodyState'[m] = "remote_archive_only" /\ bodyState[m] # "remote_archive_only"
                => bodyState[m] = "none" /\ body[m] = 0]_vars
  BY <1>1
<1>3. QED
  BY <1>2, TimelineTypesCorrect, SearchMirrorsTimeline, PTL DEF Spec, RowsNeverBecomeStubs

-----------------------------------------------------------------------------
(* Stubs can be followed. *)

\* A segment of the bucket mentions the message, before and after a step.
Follows(m, bucket) ==
    \E s \in DOMAIN segments :
        segments[s].bucket = bucket /\ \E e \in segments[s].events : journal[e].msg = m
FollowsNext(m, bucket) ==
    \E s \in DOMAIN segments' :
        segments'[s].bucket = bucket /\ \E e \in segments'[s].events : journal'[e].msg = m

LEMMA StubsFollow ==
    /\ StubsAreArchived <=>
          \A m \in Messages : bodyState[m] = "remote_archive_only" => Follows(m, born[m])
    /\ StubsAreArchived' <=>
          \A m \in Messages : bodyState'[m] = "remote_archive_only" => FollowsNext(m, born'[m])
BY DEF StubsAreArchived, Follows, FollowsNext, SegmentsOf, Mentioned

\* The archive only grows, so what could be followed still can.
LEMMA FollowsGrows ==
    ASSUME ArchiveOK, Grew, NEW m, NEW bucket, Follows(m, bucket)
    PROVE  FollowsNext(m, bucket)
<1>1. PICK s \in DOMAIN segments :
         segments[s].bucket = bucket /\ \E e \in segments[s].events : journal[e].msg = m
  BY DEF Follows
<1>2. PICK e \in segments[s].events : journal[e].msg = m
  BY <1>1
<1>3. s \in DOMAIN segments' /\ segments'[s].bucket = bucket
      /\ segments'[s].events = segments[s].events
  BY <1>1, GrewDomains DEF Grew
<1>4. e \in Seqs /\ journal'[e] = journal[e]
  BY <1>1, <1>2, Domains DEF Grew, SegmentRow
<1>5. QED
  BY <1>2, <1>3, <1>4 DEF FollowsNext

\* Only scroll-back makes a stub or dates one anew.
LEMMA StubsStay ==
    ASSUME TypeInv, Next, ~ \E t \in Readers : ScrollApply(t),
           NEW m \in Messages, bodyState'[m] = "remote_archive_only"
    PROVE  bodyState[m] = "remote_archive_only" /\ born'[m] = born[m]
<1>1. RowsOK
  BY TypeParts
<1>2. CASE Host
  BY <1>1, <1>2 DEF Host, CreateConversation, DeleteConversation, NextMonth, Ingest,
     SendText, Land, Edit, Delete, VerifySegment, RowsOK, message
<1>3. CASE \E t \in Readers : HydrateApply(t)
  BY <1>1, <1>3 DEF HydrateApply, Rehydrate, RowsOK
<1>4. CASE \E t \in Threads : \/ SearchCold(t) \/ HydrateFetch(t) \/ ScrollFetch(t)
                              \/ ArchiveRead(t) \/ ArchiveSegment(t) \/ ArchiveAdvance(t)
                              \/ CompactRead(t) \/ CompactCommit(t) \/ CompactFlip(t)
                              \/ Return(t)
  BY <1>4 DEF SearchCold, HydrateFetch, ScrollFetch, ArchiveRead, ArchiveSegment,
     ArchiveAdvance, CompactRead, CompactCommit, CompactFlip, Return, message
<1>5. QED
  BY <1>2, <1>3, <1>4 DEF Next, Threads

LEMMA StepFollows ==
    ASSUME TypeInv, StubsAreArchived, [Next]_vars
    PROVE  StubsAreArchived'
<1>1. ArchiveOK /\ Grew
  BY TypeParts, StepTyped, StutterTyped
<1>2. SUFFICES ASSUME NEW m \in Messages, bodyState'[m] = "remote_archive_only"
               PROVE  FollowsNext(m, born'[m])
  BY StubsFollow
<1>3. ASSUME bodyState[m] = "remote_archive_only", born'[m] = born[m]
      PROVE  FollowsNext(m, born'[m])
  BY <1>1, <1>3, StubsFollow, FollowsGrows
<1>4. CASE \E t \in Readers : ScrollApply(t)
  <2>1. PICK t \in Readers : ScrollApply(t)
    BY <1>4
  <2>2. PICK s \in job[t].segs :
           /\ bodyState' = [n \in Messages |->
                 IF n \in Stubs(s) THEN "remote_archive_only" ELSE bodyState[n]]
           /\ born' = [n \in Messages |->
                 IF n \in Stubs(s) THEN segments[s].bucket ELSE born[n]]
    BY <2>1 DEF ScrollApply
  <2>3. s \in DOMAIN segments
    BY <2>1, <2>2, HeldTyped DEF Threads
  <2>4. CASE m \in Stubs(s)
    <3>1. Follows(m, born'[m])
      BY <2>2, <2>3, <2>4 DEF Stubs, Mentioned, Follows
    <3>2. QED
      BY <1>1, <3>1, FollowsGrows
  <2>5. CASE m \notin Stubs(s)
    BY <1>2, <1>3, <2>2, <2>5
  <2>6. QED
    BY <2>4, <2>5
<1>5. CASE Next /\ ~ \E t \in Readers : ScrollApply(t)
  BY <1>2, <1>3, <1>5, StubsStay
<1>6. CASE UNCHANGED vars
  BY <1>2, <1>3, <1>6 DEF vars, message
<1>7. QED
  BY <1>4, <1>5, <1>6

\* A stub that scroll-back leaves in the timeline can be followed: the bucket of
\* its timestamp has a segment with an event of the message, whatever happened
\* between the fetch and the insert (rehydrate_timeline_skeletons).
THEOREM StubsCanBeFollowed == Spec => []StubsAreArchived
<1>1. Init => StubsAreArchived
  BY DEF Init, StubsAreArchived
<1>2. TypeInv /\ StubsAreArchived /\ [Next]_vars => StubsAreArchived'
  BY StepFollows
<1>3. QED
  BY <1>1, <1>2, TimelineTypesCorrect, PTL DEF Spec

-----------------------------------------------------------------------------
(* The archive loses no live text. *)

\* Texts the archive has to keep: those of messages never deleted.
Live(e) == CarriesText(e) /\ ~Deleted(journal[e].msg)

\* What the driver has sealed is archived before the cursor moves over it.
DriverSealed ==
    \A t \in Threads : pc[t] = "archiving" =>
        \A e \in 1..job[t].upto : e \notin job[t].todo /\ Live(e) => Archived(e)

\* An event held in service by a segment at least as new as the given one.
ArchivedFrom(out, e) ==
    \E s \in DOMAIN segments :
        s >= out /\ segments[s].state # "archive_compacted" /\ e \in segments[s].events

\* What a compactor is about to mark superseded is held by newer segments. It is
\* stated with "newer" because two compactors may flip each other's outputs: the
\* order of the segments is what keeps the last copy in service.
CompactorSealed ==
    \A t \in Threads : pc[t] = "flipping" =>
        \A s \in job[t].segs :
            /\ s < job[t].out
            /\ \A e \in segments[s].events : Live(e) => ArchivedFrom(job[t].out, e)

ArchiveInv == ArchiveKeepsLiveTexts /\ DriverSealed /\ CompactorSealed

LEMMA ArchivedAnywhere ==
    ASSUME ArchiveOK, NEW e
    PROVE  Archived(e) <=> ArchivedFrom(0, e)
BY Domains DEF Archived, ArchivedFrom

\* Deletions are never taken back, so what is live after a step was live before.
LEMMA LiveShrinks ==
    ASSUME ArchiveOK, Grew, NEW e \in Seqs, Live(e)'
    PROVE  Live(e)
<1>1. Seqs \subseteq Seqs' /\ \A d \in Seqs : journal'[d] = journal[d]
  BY GrewDomains DEF Grew
<1>2. QED
  BY <1>1 DEF Live, CarriesText, Deleted

\* A step that supersedes no segment keeps every event in service.
LEMMA ServiceKept ==
    ASSUME ArchiveOK, Grew, NEW e, NEW out \in Nat, ArchivedFrom(out, e),
           \A s \in DOMAIN segments :
              segments'[s].state = "archive_compacted" => segments[s].state = "archive_compacted"
    PROVE  ArchivedFrom(out, e)'
BY GrewDomains DEF ArchivedFrom, Grew

\* A flip takes out of service only what newer segments hold.
LEMMA FlipKeeps ==
    ASSUME TypeInv, ArchiveInv, NEW t \in Threads, CompactFlip(t),
           NEW e \in Seqs, Live(e), NEW out \in Nat, ArchivedFrom(out, e)
    PROVE  ArchivedFrom(out, e)'
<1>1. ArchiveOK /\ job[t].segs \subseteq DOMAIN segments /\ job[t].out \in Nat
  BY HeldTyped
<1>2. PICK s \in DOMAIN segments :
         s >= out /\ segments[s].state # "archive_compacted" /\ e \in segments[s].events
  BY DEF ArchivedFrom
<1>3. \A r \in DOMAIN segments : r \in Nat
  BY <1>1, Domains
<1>4. PICK r \in DOMAIN segments :
         /\ r >= out /\ r \notin job[t].segs
         /\ segments[r].state # "archive_compacted" /\ e \in segments[r].events
  <2>1. CASE s \notin job[t].segs
    BY <1>2, <2>1
  <2>2. CASE s \in job[t].segs
    <3>1. s < job[t].out /\ ArchivedFrom(job[t].out, e)
      BY <1>2, <2>2 DEF ArchiveInv, CompactorSealed, CompactFlip
    <3>2. PICK r \in DOMAIN segments :
             /\ r >= job[t].out /\ segments[r].state # "archive_compacted"
             /\ e \in segments[r].events
      BY <3>1 DEF ArchivedFrom
    <3>3. r \notin job[t].segs
      BY <1>1, <1>3, <3>2 DEF ArchiveInv, CompactorSealed, CompactFlip
    <3>4. QED
      BY <1>1, <1>2, <1>3, <3>1, <3>2, <3>3
  <2>3. QED
    BY <2>1, <2>2
<1>5. segments' = [q \in DOMAIN segments |->
          IF q \in job[t].segs THEN [segments[q] EXCEPT !.state = "archive_compacted"]
                               ELSE segments[q]]
  BY DEF CompactFlip
<1>6. r \in DOMAIN segments' /\ segments'[r] = segments[r]
  BY <1>4, <1>5
<1>7. QED
  BY <1>4, <1>6 DEF ArchivedFrom

\* No other step takes a segment out of service.
LEMMA OnlyFlipSupersedes ==
    ASSUME TypeInv, Next, ~ \E t \in Compactors : CompactFlip(t)
    PROVE  \A s \in DOMAIN segments :
              segments'[s].state = "archive_compacted" => segments[s].state = "archive_compacted"
<1>1. ArchiveOK
  BY TypeParts
<1>2. CASE \E r \in DOMAIN segments : VerifySegment(r)
  <2>1. PICK r \in DOMAIN segments : VerifySegment(r)
    BY <1>2
  <2>2. \A s \in DOMAIN segments : segments[s] \in SegmentRow
    BY <1>1, Domains
  <2>3. QED
    BY <2>1, <2>2 DEF VerifySegment, SegmentRow
<1>3. CASE \E t \in Archivers : ArchiveSegment(t)
  BY <1>1, <1>3, Domains, AppendProperties DEF ArchiveSegment, ArchiveOK
<1>4. CASE \E t \in Compactors : CompactCommit(t)
  BY <1>1, <1>4, Domains, AppendProperties DEF CompactCommit, ArchiveOK
<1>5. CASE UNCHANGED segments
  BY <1>5
<1>6. QED
  BY <1>2, <1>3, <1>4, <1>5 DEF Next, Host, CreateConversation, DeleteConversation, NextMonth,
     Ingest, SendText, Land, Edit, Delete, SearchCold, HydrateFetch, HydrateApply, ScrollFetch,
     ScrollApply, ArchiveRead, ArchiveAdvance, CompactRead, Return, archive

LEMMA StaysArchivedFrom ==
    ASSUME TypeInv, ArchiveInv, Next,
           NEW e \in Seqs, Live(e), NEW out \in Nat, ArchivedFrom(out, e)
    PROVE  ArchivedFrom(out, e)'
<1>1. ArchiveOK /\ Grew
  BY TypeParts, StepTyped
<1>2. CASE \E t \in Compactors : CompactFlip(t)
  BY <1>2, FlipKeeps DEF Threads
<1>3. CASE ~ \E t \in Compactors : CompactFlip(t)
  BY <1>1, <1>3, ServiceKept, OnlyFlipSupersedes
<1>4. QED
  BY <1>2, <1>3

LEMMA StaysArchived ==
    ASSUME TypeInv, ArchiveInv, Next, NEW e \in Seqs, Live(e), Archived(e)
    PROVE  Archived(e)'
<1>1. ArchivedFrom(0, e)
  BY TypeParts, ArchivedAnywhere
<1>2. ArchivedFrom(0, e)'
  BY <1>1, StaysArchivedFrom
<1>3. QED
  BY <1>2 DEF ArchivedFrom, Archived

\* A thread's job and stage change only by its own steps.
LEMMA OwnSteps ==
    ASSUME TypeInv, Next, NEW t \in Threads
    PROVE  \/ pc'[t] = pc[t] /\ job'[t] = job[t]
           \/ pc'[t] \notin {"archiving", "flipping"}
           \/ pc'[t] = "archiving" /\ (ArchiveRead(t) \/ ArchiveSegment(t))
           \/ pc'[t] = "flipping" /\ CompactCommit(t)
<1>1. pc \in [Threads -> PCs] /\ job \in [Threads -> JobType]
  BY TypeParts DEF CallsOK
<1>2. CASE Host
  BY <1>2 DEF Host, CreateConversation, DeleteConversation, NextMonth, Ingest, SendText, Land,
     Edit, Delete, VerifySegment, threads
<1>3. ASSUME NEW u \in Threads, NEW stage, NEW held, Goto(u, stage, held)
      PROVE  /\ u # t => pc'[t] = pc[t] /\ job'[t] = job[t]
             /\ u = t => pc'[t] = stage
  BY <1>1, <1>3 DEF Goto
<1>4. CASE \E u \in Readers : \/ SearchCold(u) \/ HydrateFetch(u) \/ HydrateApply(u)
                              \/ ScrollFetch(u) \/ ScrollApply(u)
  <2>1. PICK u, stage, held :
           u \in Threads /\ stage \in PCs \ {"archiving", "flipping"} /\ Goto(u, stage, held)
    BY <1>4 DEF SearchCold, HydrateFetch, HydrateApply, ScrollFetch, ScrollApply, Done,
       Threads, PCs
  <2>2. QED
    BY <1>3, <2>1
<1>5. CASE \E u \in Archivers : ArchiveRead(u) \/ ArchiveSegment(u)
  <2>1. PICK u \in Threads : ArchiveRead(u) \/ ArchiveSegment(u)
    BY <1>5 DEF Threads
  <2>2. \E held : Goto(u, "archiving", held)
    BY <2>1 DEF ArchiveRead, ArchiveSegment
  <2>3. QED
    BY <1>3, <2>1, <2>2
<1>6. CASE \E u \in Threads : ArchiveAdvance(u) \/ CompactFlip(u) \/ Return(u)
  BY <1>3, <1>6 DEF ArchiveAdvance, CompactFlip, Return, Done
<1>7. CASE \E u \in Compactors : CompactRead(u)
  <2>1. PICK u, held : u \in Threads /\ Goto(u, "merging", held)
    BY <1>7 DEF CompactRead, Threads
  <2>2. QED
    BY <1>3, <2>1
<1>8. CASE \E u \in Compactors : CompactCommit(u)
  <2>1. PICK u \in Threads : CompactCommit(u)
    BY <1>8 DEF Threads
  <2>2. \E held : Goto(u, "flipping", held)
    BY <2>1 DEF CompactCommit
  <2>3. QED
    BY <1>3, <2>1, <2>2
<1>9. QED
  BY <1>2, <1>4, <1>5, <1>6, <1>7, <1>8 DEF Next, Threads

LEMMA DriverKeeps ==
    ASSUME TypeInv, ArchiveInv, Next
    PROVE  DriverSealed'
<1> SUFFICES ASSUME NEW t \in Threads, pc'[t] = "archiving",
                    NEW e \in 1..job'[t].upto, e \notin job'[t].todo, Live(e)'
             PROVE  Archived(e)'
  BY DEF DriverSealed
<1>1. ArchiveOK /\ CallsOK /\ Grew /\ Seqs = 1..Len(journal) /\ Len(journal) \in Nat
  BY StepTyped, HeldTyped, Domains
<1>2. \A d \in Seqs : Live(d)' => Live(d)
  BY <1>1, LiveShrinks
<1>3. CASE pc'[t] = pc[t] /\ job'[t] = job[t]
  <2>1. e \in Seqs
    <3>1. job[t].upto \in 0..Len(journal)
      BY HeldTyped
    <3>2. e \in 1..job[t].upto
      BY <1>3
    <3>3. QED
      BY <1>1, <3>1, <3>2
  <2>2. Live(e) /\ Archived(e)
    BY <1>2, <1>3, <2>1 DEF ArchiveInv, DriverSealed
  <2>3. QED
    BY <2>1, <2>2, StaysArchived
<1>4. CASE ArchiveRead(t)
  <2>1. job'[t] = [Idle EXCEPT !.todo = cursor + 1 .. Len(journal), !.upto = Len(journal)]
    BY <1>1, <1>4 DEF ArchiveRead, Goto, CallsOK
  <2>2. job'[t].upto = Len(journal) /\ job'[t].todo = cursor + 1 .. Len(journal)
    BY <2>1 DEF Idle
  <2>3. cursor \in Nat
    BY <1>1 DEF ArchiveOK
  <2>4. e \in Seqs /\ e \in 1..cursor
    BY <1>1, <2>2, <2>3
  <2>5. Live(e) /\ Archived(e)
    BY <1>2, <2>4 DEF ArchiveInv, ArchiveKeepsLiveTexts, Live
  <2>6. QED
    BY <2>4, <2>5, StaysArchived
<1>5. CASE ArchiveSegment(t)
  <2>1. PICK bucket, events :
           /\ bucket \in {journal[d].bucket : d \in job[t].todo}
           /\ events = {d \in job[t].todo : journal[d].bucket = bucket}
           /\ segments' = Append(segments, [bucket |-> bucket, events |-> events,
                                            state |-> "archive_uploaded"])
           /\ Goto(t, "archiving", [job[t] EXCEPT !.todo = @ \ events])
    BY <1>5 DEF ArchiveSegment
  <2>2. job[t] \in JobType /\ job[t].todo \subseteq Seqs /\ job[t].upto \in 0..Len(journal)
    BY HeldTyped
  <2>3. job'[t] = [job[t] EXCEPT !.todo = @ \ events]
    BY <1>1, <2>1 DEF Goto, CallsOK
  <2>4. job'[t].upto = job[t].upto /\ job'[t].todo = job[t].todo \ events
    BY <2>2, <2>3 DEF JobType
  <2>5. e \in 1..job[t].upto
    BY <2>4
  <2>6. e \in Seqs
    BY <1>1, <2>2, <2>5
  <2>7. CASE e \in events
    <3>1. segments' \in Seq(SegmentRow') /\ segments \in Seq(SegmentRow)
      BY <1>1 DEF ArchiveOK, Grew
    <3>2. /\ Len(segments) + 1 \in DOMAIN segments'
          /\ segments'[Len(segments) + 1] = [bucket |-> bucket, events |-> events,
                                             state |-> "archive_uploaded"]
      BY <2>1, <3>1
    <3>3. QED
      BY <2>7, <3>2 DEF Archived
  <2>8. CASE e \notin events
    <3>1. Live(e) /\ Archived(e)
      BY <1>2, <1>5, <2>4, <2>5, <2>6, <2>8 DEF ArchiveInv, DriverSealed, ArchiveSegment
    <3>2. QED
      BY <2>6, <3>1, StaysArchived
  <2>9. QED
    BY <2>7, <2>8
<1>6. QED
  BY <1>3, <1>4, <1>5, OwnSteps

\* ArchivedFrom after the step, for an out that the step computes.
WillBeFrom(out, e) ==
    \E s \in DOMAIN segments' :
        s >= out /\ segments'[s].state # "archive_compacted" /\ e \in segments'[s].events

LEMMA CompactorKeeps ==
    ASSUME TypeInv, ArchiveInv, Next
    PROVE  CompactorSealed'
<1> SUFFICES ASSUME NEW t \in Threads, pc'[t] = "flipping", NEW s \in job'[t].segs
             PROVE  /\ s < job'[t].out
                    /\ \A e \in segments'[s].events : Live(e)' => WillBeFrom(job'[t].out, e)
  BY DEF CompactorSealed, ArchivedFrom, WillBeFrom
<1>1. ArchiveOK /\ CallsOK /\ Grew /\ job[t] \in JobType /\ job[t].segs \subseteq DOMAIN segments
      /\ job[t].out \in Nat
  BY StepTyped, HeldTyped
<1>2. \A r \in DOMAIN segments : segments[r].events \subseteq Seqs
                                 /\ segments'[r].events = segments[r].events
  BY <1>1, Domains DEF Grew, SegmentRow
<1>3. \A d \in Seqs : Live(d)' => Live(d)
  BY <1>1, LiveShrinks
<1>4. CASE pc'[t] = pc[t] /\ job'[t] = job[t]
  <2>1. pc[t] = "flipping" /\ s \in job[t].segs /\ s \in DOMAIN segments
    BY <1>1, <1>4
  <2>2. /\ s < job[t].out
        /\ \A e \in segments[s].events : Live(e) => ArchivedFrom(job[t].out, e)
    BY <2>1 DEF ArchiveInv, CompactorSealed
  <2>3. ASSUME NEW e \in segments[s].events, Live(e)'
        PROVE  WillBeFrom(job[t].out, e)
    <3>1. e \in Seqs /\ Live(e)
      BY <1>2, <1>3, <2>1, <2>3
    <3>2. ArchivedFrom(job[t].out, e)
      BY <2>2, <3>1
    <3>3. PICK out \in Nat : out = job[t].out
      BY <1>1
    <3>4. ArchivedFrom(out, e)'
      BY <3>1, <3>2, <3>3, StaysArchivedFrom
    <3>5. QED
      BY <3>3, <3>4 DEF ArchivedFrom, WillBeFrom
  <2>4. QED
    BY <1>2, <1>4, <2>1, <2>2, <2>3
<1>5. CASE CompactCommit(t)
  <2>1. job'[t] = [job[t] EXCEPT !.out = Len(segments) + 1]
    BY <1>1, <1>5 DEF CompactCommit, Goto, CallsOK
  <2>2. job'[t].out = Len(segments) + 1 /\ job'[t].segs = job[t].segs
    BY <1>1, <2>1 DEF JobType
  <2>3. s \in DOMAIN segments /\ s < Len(segments) + 1
    BY <1>1, <2>2, Domains
  <2>4. ASSUME NEW e \in segments[s].events, Live(e)'
        PROVE  WillBeFrom(Len(segments) + 1, e)
    <3>1. e \in Seqs /\ Live(e)
      BY <1>2, <1>3, <2>3, <2>4
    <3>2. e \in UNION {segments[r].events : r \in job[t].segs}
      BY <2>2
    <3>3. \A d \in UNION {segments[r].events : r \in job[t].segs} : d \in Seqs
      BY <1>1, <1>2
    <3>4. e \in Merged(t)
      BY <3>1, <3>2, <3>3 DEF Merged, Survivors, Live, Deleted
    <3>5. segments' = Append(segments, [bucket |-> job[t].bucket, events |-> Merged(t),
                                        state |-> "archive_uploaded"])
      BY <1>5, <3>4 DEF CompactCommit
    <3>6. segments \in Seq(SegmentRow)
      BY <1>1 DEF ArchiveOK
    <3>7. /\ Len(segments) + 1 \in DOMAIN segments'
          /\ segments'[Len(segments) + 1] = [bucket |-> job[t].bucket, events |-> Merged(t),
                                             state |-> "archive_uploaded"]
      BY <3>5, <3>6
    <3>8. Len(segments) \in Nat
      BY <3>6, LenProperties
    <3>9. QED
      BY <3>4, <3>7, <3>8 DEF WillBeFrom
  <2>5. QED
    BY <1>2, <2>2, <2>3, <2>4
<1>6. QED
  BY <1>4, <1>5, OwnSteps

LEMMA MainKeeps ==
    ASSUME TypeInv, ArchiveInv, Next
    PROVE  ArchiveKeepsLiveTexts'
<1> SUFFICES ASSUME NEW e \in 1..cursor', Live(e)'
             PROVE  Archived(e)'
  BY DEF ArchiveKeepsLiveTexts, Live
<1>1. ArchiveOK /\ Grew /\ Seqs = 1..Len(journal) /\ Len(journal) \in Nat
      /\ cursor \in 0..Len(journal)
  BY StepTyped, TypeParts, Domains DEF ArchiveOK
<1>2. e \in Seqs /\ (Live(e) => Archived(e))
  <2>1. CASE cursor' = cursor
    BY <1>1, <2>1 DEF ArchiveInv, ArchiveKeepsLiveTexts, Live
  <2>2. CASE \E t \in Threads : ArchiveAdvance(t)
    <3>1. PICK t \in Threads : ArchiveAdvance(t)
      BY <2>2
    <3>2. job[t].upto \in 0..Len(journal)
      BY HeldTyped
    <3>3. cursor' = job[t].upto /\ job[t].todo = {} /\ pc[t] = "archiving"
      BY <3>1 DEF ArchiveAdvance
    <3>4. e \in 1..job[t].upto /\ e \in Seqs
      BY <1>1, <3>2, <3>3
    <3>5. QED
      BY <3>3, <3>4 DEF ArchiveInv, DriverSealed
  <2>3. QED
    BY <2>1, <2>2 DEF Next, Host, CreateConversation, DeleteConversation, NextMonth,
       Ingest, SendText, Land, Edit, Delete, SearchCold, HydrateFetch, HydrateApply, ScrollFetch,
       ScrollApply, VerifySegment, ArchiveRead, ArchiveSegment, CompactRead, CompactCommit,
       CompactFlip, Return, archive, Threads
<1>3. Live(e)
  BY <1>1, <1>2, LiveShrinks
<1>4. QED
  BY <1>2, <1>3, StaysArchived

LEMMA StutterKeeps == ArchiveInv /\ UNCHANGED vars => ArchiveInv'
BY DEF ArchiveInv, ArchiveKeepsLiveTexts, DriverSealed, CompactorSealed, Live, ArchivedFrom,
   Archived, CarriesText, Deleted, Seqs, vars, archive, threads

\* The archive driver and archive compaction lose no live text: a text behind the
\* cursor whose message was never deleted stays in a segment that is in service,
\* however drivers and compactors interleave and wherever they stop.
THEOREM NoLiveTextIsLost == Spec => []ArchiveKeepsLiveTexts
<1>1. Init => ArchiveInv
  BY DEF Init, ArchiveInv, ArchiveKeepsLiveTexts, DriverSealed, CompactorSealed
<1>2. TypeInv /\ ArchiveInv /\ [Next]_vars => ArchiveInv'
  BY MainKeeps, DriverKeeps, CompactorKeeps, StutterKeeps DEF ArchiveInv
<1>3. ArchiveInv => ArchiveKeepsLiveTexts
  BY DEF ArchiveInv
<1>4. QED
  BY <1>1, <1>2, <1>3, TimelineTypesCorrect, PTL DEF Spec

=============================================================================
