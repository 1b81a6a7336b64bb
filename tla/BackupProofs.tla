---------------------------- MODULE BackupProofs ----------------------------
(* What the backup engine guarantees for any threads, messages and bounds:  *)
(* the types and the persisted manifest tail; as long as nothing compacts,   *)
(* that no event is skipped and no uploaded manifest dangles; and, as long   *)
(* as calls do not overlap, that memory agrees with disk, the chain is       *)
(* linear, no event is sealed twice and no live message is lost.             *)
EXTENDS Backup, SequenceTheorems, TLAPS

-----------------------------------------------------------------------------
(* Data.                                                                    *)

\* The ledger rows of a database table form a ledger.
LEMMA SetLedger ==
    ASSUME NEW S, S \subseteq Segment
    PROVE  IsLedger(SetToBag(S)) /\ BagToSet(SetToBag(S)) = S
BY DEF IsLedger, IsABag, SetToBag, BagToSet

\* Pushing entries on a ledger gives a ledger.
LEMMA SumLedger ==
    ASSUME NEW b, NEW c, IsLedger(b), IsLedger(c)
    PROVE  IsLedger(b (+) c)
<1> DEFINE d == b (+) c
<1>1. d = [e \in DOMAIN b \cup DOMAIN c |->
              (IF e \in DOMAIN b THEN b[e] ELSE 0) + (IF e \in DOMAIN c THEN c[e] ELSE 0)]
  BY DEF (+)
<1>2. DOMAIN d = DOMAIN b \cup DOMAIN c
  BY <1>1
<1>3. \A e \in DOMAIN b : b[e] \in Nat /\ b[e] > 0
  BY DEF IsLedger, IsABag
<1>4. \A e \in DOMAIN c : c[e] \in Nat /\ c[e] > 0
  BY DEF IsLedger, IsABag
<1>5. \A e \in DOMAIN d : d[e] \in Nat /\ d[e] > 0
  BY <1>1, <1>3, <1>4
<1>6. d \in [DOMAIN d -> {n \in Nat : n > 0}]
  BY <1>1, <1>5
<1>7. QED
  BY <1>2, <1>6 DEF IsLedger, IsABag

\* Dropping entries from a ledger leaves a ledger.
LEMMA SubLedger ==
    ASSUME NEW b, NEW S, IsLedger(b)
    PROVE  IsLedger([s \in DOMAIN b \ S |-> b[s]])
BY DEF IsLedger, IsABag

LEMMA LedgerEntries ==
    ASSUME NEW b, IsLedger(b)
    PROVE  BagToSet(b) \subseteq Segment
BY DEF IsLedger, BagToSet

-----------------------------------------------------------------------------
(* Types.                                                                   *)

\* What TypeOK says of the threads and their calls.
CallsOK ==
    /\ pc \in [Threads -> PCs]
    /\ job = [t \in Threads |-> job[t]] /\ \A t \in Threads : IsJob(job[t])
    /\ outcome \in [Threads -> {"none", "deferred", "done", "failed"}]

LEMMA EmptyLedger == IsLedger(EmptyBag)
BY SetLedger DEF EmptyBag

LEMMA NoManifestTyped == NoManifest \in Manifest
BY DEF NoManifest, Manifest

LEMMA NoJobTyped == IsJob(NoJob)
BY EmptyLedger, NoManifestTyped DEF IsJob, NoJob, Kinds

\* A job stays one when its fields are replaced by values of their types.
LEMMA JobFields ==
    ASSUME NEW j, IsJob(j)
    PROVE  /\ j.kind \in Kinds /\ j.seqs \in SUBSET Nat /\ j.last \in Nat
           /\ j.out \in SUBSET Segment /\ IsLedger(j.rest) /\ j.man \in Manifest
BY DEF IsJob

LEMMA GotoTyped ==
    ASSUME CallsOK, NEW t \in Threads, NEW where \in PCs, NEW j, IsJob(j),
           Goto(t, where, j)
    PROVE  /\ pc' \in [Threads -> PCs]
           /\ job' = [u \in Threads |-> job'[u]] /\ \A u \in Threads : IsJob(job'[u])
<1>1. job' = [u \in Threads |-> IF u = t THEN j ELSE job[u]]
  BY DEF CallsOK, Goto
<1>2. \A u \in Threads : IsJob(job'[u])
  BY <1>1 DEF CallsOK
<1>3. job' = [u \in Threads |-> job'[u]]
  BY <1>1
<1>4. pc' \in [Threads -> PCs]
  BY DEF CallsOK, Goto
<1>5. QED
  BY <1>2, <1>3, <1>4

LEMMA ReturnTyped ==
    ASSUME CallsOK, NEW t \in Threads,
           NEW result \in {"none", "deferred", "done", "failed"}, Return(t, result)
    PROVE  CallsOK'
<1>1. job' = [u \in Threads |-> IF u = t THEN NoJob ELSE job[u]]
  BY DEF CallsOK, Return
<1>2. \A u \in Threads : IsJob(job'[u])
  BY <1>1, NoJobTyped DEF CallsOK
<1>3. job' = [u \in Threads |-> job'[u]]
  BY <1>1
<1>4. /\ pc' \in [Threads -> PCs]
      /\ outcome' \in [Threads -> {"none", "deferred", "done", "failed"}]
  BY DEF CallsOK, Return, PCs
<1>5. QED
  BY <1>2, <1>3, <1>4 DEF CallsOK

\* The rows a call has read stay in the journal; TypeOK needs it because a
\* sealed segment's span is made of their timestamps.
WindowsInJournal == \A t \in Threads : job[t].seqs \subseteq DOMAIN journal
TypeInv == TypeOK /\ WindowsInJournal

\* The part of TypeOK that the calls leave alone.
DataOK ==
    /\ journal \in Seq(Event)
    /\ store \in [AllMessages -> {"absent", "live", "deleted"}]
    /\ cursor \in Nat /\ minted \in Nat /\ faults \in Nat
    /\ dbLedger \subseteq Segment /\ IsLedger(ledger)
    /\ dbTail \in Manifest /\ tail \in Manifest
    /\ keys \in BOOLEAN /\ sinkReady \in BOOLEAN /\ online \in BOOLEAN
    /\ sinkSegments \subseteq Segment /\ sinkManifests \subseteq Manifest

LEMMA TypeParts == TypeOK <=> DataOK /\ CallsOK
BY DEF TypeOK, DataOK, CallsOK

LEMMA ExtremesTyped ==
    ASSUME NEW T, T \subseteq Nat
    PROVE  Extremes(T) \subseteq Nat
BY DEF Extremes

\* Journal rows are only ever added, and a row never changes.
LEMMA JournalGrows ==
    ASSUME DataOK, NEW rows \in Seq(Event), journal' = journal \o rows
    PROVE  /\ journal' \in Seq(Event) /\ DOMAIN journal \subseteq DOMAIN journal'
           /\ Len(journal) <= Len(journal')
           /\ \A i \in DOMAIN journal : journal'[i] = journal[i]
<1>1. journal \in Seq(Event)
  BY DEF DataOK
<1>2. /\ journal' \in Seq(Event)
      /\ Len(journal') = Len(journal) + Len(rows)
      /\ \A i \in 1..Len(journal) + Len(rows) : journal'[i] =
            IF i <= Len(journal) THEN journal[i] ELSE rows[i - Len(journal)]
  BY <1>1, ConcatProperties
<1>3. /\ Len(journal) \in Nat /\ Len(rows) \in Nat
      /\ DOMAIN journal = 1..Len(journal) /\ DOMAIN journal' = 1..Len(journal')
  BY <1>1, <1>2, LenProperties
<1>4. QED
  BY <1>2, <1>3

\* Every journalling operation appends typed rows and moves the store within
\* its taxonomy.
LEMMA JournallingAppends ==
    ASSUME DataOK, Journalling
    PROVE  /\ \E rows \in Seq(Event) : journal' = journal \o rows
           /\ store' \in [AllMessages -> {"absent", "live", "deleted"}]
           /\ JournalOnly
<1>1. journal \in Seq(Event) /\ store \in [AllMessages -> {"absent", "live", "deleted"}]
  BY DEF DataOK
<1>2. ASSUME NEW type \in {"received", "edited", "outbox"}, NEW m \in AllMessages,
             Append1(type, m)
      PROVE  \E rows \in Seq(Event) : journal' = journal \o rows
  <2>1. PICK at \in 0..MaxTime :
           journal' = Append(journal, [type |-> type, msg |-> m, at |-> at])
    BY <1>2 DEF Append1
  <2>2. at \in Nat
    BY NumbersAssumption
  <2>3. [type |-> type, msg |-> m, at |-> at] \in Event
    BY <2>2 DEF Event, Typed
  <2>4. <<[type |-> type, msg |-> m, at |-> at]>> \in Seq(Event)
    BY <2>3
  <2>5. journal' = journal \o <<[type |-> type, msg |-> m, at |-> at]>>
    BY <1>1, <2>1, <2>3, AppendIsConcat
  <2>6. QED
    BY <2>4, <2>5
<1>3. ASSUME NEW m \in AllMessages, Ingest(m) \/ Edit(m) \/ Send(m) \/ MarkSent(m)
      PROVE  \E rows \in Seq(Event) : journal' = journal \o rows
  BY <1>2, <1>3 DEF Ingest, Edit, Send, MarkSent
<1>4. ASSUME NEW m \in AllMessages, Delete(m)
      PROVE  \E rows \in Seq(Event) : journal' = journal \o rows
  <2> DEFINE types == IF m \in MediaMessages THEN <<"deleted", "media_deleted">>
                                             ELSE <<"deleted">>
  <2>1. PICK at \in 0..MaxTime : journal' = journal \o
           [i \in DOMAIN types |-> [type |-> types[i], msg |-> m, at |-> at]]
    BY <1>4 DEF Delete
  <2>2. at \in Nat
    BY NumbersAssumption
  <2>3. [i \in DOMAIN types |-> [type |-> types[i], msg |-> m, at |-> at]] \in Seq(Event)
    <3>1. types \in Seq(Typed)
      <4>1. "deleted" \in Typed /\ "media_deleted" \in Typed
        BY DEF Typed
      <4>2. <<"deleted">> \in Seq(Typed) /\ <<"deleted", "media_deleted">> \in Seq(Typed)
        BY <4>1
      <4>3. QED
        BY <4>2
    <3> HIDE DEF types
    <3>2. /\ DOMAIN types = 1..Len(types) /\ Len(types) \in Nat
          /\ \A i \in DOMAIN types : types[i] \in Typed
      BY <3>1, LenProperties
    <3>3. \A i \in DOMAIN types : [type |-> types[i], msg |-> m, at |-> at] \in Event
      BY <2>2, <3>2 DEF Event
    <3>4. [i \in DOMAIN types |-> [type |-> types[i], msg |-> m, at |-> at]]
             \in [1..Len(types) -> Event]
      BY <3>3, <3>2
    <3>5. QED
      BY <3>4, <3>2, SeqDef
  <2>4. QED
    BY <2>1, <2>3
<1>5. CASE DeleteConversation
  BY <1>1, <1>5, ConcatEmptySeq, EmptySeq DEF DeleteConversation, JournalOnly
<1>6. \E rows \in Seq(Event) : journal' = journal \o rows
  BY <1>3, <1>4, <1>5 DEF Journalling
<1>7. store' \in [AllMessages -> {"absent", "live", "deleted"}]
  BY <1>1 DEF Journalling, Ingest, Edit, Delete, Send, MarkSent, DeleteConversation
<1>8. JournalOnly
  BY DEF Journalling, Ingest, Edit, Delete, Send, MarkSent, DeleteConversation
<1>9. QED
  BY <1>6, <1>7, <1>8

LEMMA GotoStep ==
    ASSUME TypeInv, NEW t \in Threads, NEW where \in PCs, NEW j, IsJob(j),
           j.seqs \subseteq DOMAIN journal, Goto(t, where, j), UNCHANGED journal, DataOK',
           outcome' = outcome \/ outcome' = [outcome EXCEPT ![t] = "none"]
    PROVE  TypeInv'
<1>1. CallsOK
  BY TypeParts DEF TypeInv
<1>2. outcome' \in [Threads -> {"none", "deferred", "done", "failed"}]
  BY <1>1 DEF CallsOK
<1>3. CallsOK'
  BY <1>1, <1>2, GotoTyped DEF CallsOK
<1>4. job' = [u \in Threads |-> IF u = t THEN j ELSE job[u]]
  BY <1>1 DEF CallsOK, Goto
<1>5. WindowsInJournal'
  BY <1>4 DEF TypeInv, WindowsInJournal
<1>6. TypeOK'
  BY <1>3, TypeParts, PTL
<1>7. QED
  BY <1>5, <1>6 DEF TypeInv

LEMMA ReturnStep ==
    ASSUME TypeInv, NEW t \in Threads,
           NEW result \in {"none", "deferred", "done", "failed"}, Return(t, result),
           UNCHANGED journal, DataOK'
    PROVE  TypeInv'
<1>1. CallsOK
  BY TypeParts DEF TypeInv
<1>2. CallsOK'
  BY <1>1, ReturnTyped
<1>3. job' = [u \in Threads |-> IF u = t THEN NoJob ELSE job[u]]
  BY <1>1 DEF CallsOK, Return
<1>4. WindowsInJournal'
  BY <1>3 DEF TypeInv, WindowsInJournal, NoJob
<1>5. TypeOK'
  BY <1>2, TypeParts, PTL
<1>6. QED
  BY <1>4, <1>5 DEF TypeInv

\* What a call finds: its own job is typed and its window is in the journal.
LEMMA CallState ==
    ASSUME TypeInv, NEW t \in Threads
    PROVE  /\ DataOK /\ CallsOK /\ IsJob(job[t])
           /\ job[t].seqs \subseteq DOMAIN journal
           /\ DOMAIN journal \subseteq Nat
           /\ \A i \in DOMAIN journal : journal[i].at \in Nat
<1>1. DataOK /\ CallsOK
  BY TypeParts DEF TypeInv
<1>2. journal \in Seq(Event)
  BY <1>1 DEF DataOK
<1>3. DOMAIN journal = 1..Len(journal) /\ Len(journal) \in Nat
  BY <1>2, LenProperties
<1>4. \A i \in DOMAIN journal : journal[i] \in Event
  BY <1>2, <1>3, ElementOfSeq
<1>5. QED
  BY <1>1, <1>3, <1>4 DEF CallsOK, TypeInv, WindowsInJournal, Event

\* A new job made from NoJob.
LEMMA FreshJob ==
    ASSUME NEW kind \in Kinds, NEW seqs \in SUBSET Nat, NEW last \in Nat,
           NEW out \in SUBSET Segment, NEW rest, IsLedger(rest)
    PROVE  /\ IsJob([NoJob EXCEPT !.kind = kind, !.seqs = seqs, !.last = last])
           /\ IsJob([NoJob EXCEPT !.kind = kind, !.out = out, !.rest = rest])
           /\ IsJob([NoJob EXCEPT !.kind = kind, !.rest = rest])
           /\ [NoJob EXCEPT !.kind = kind, !.seqs = seqs, !.last = last].seqs = seqs
           /\ [NoJob EXCEPT !.kind = kind, !.out = out, !.rest = rest].seqs = {}
           /\ [NoJob EXCEPT !.kind = kind, !.rest = rest].seqs = {}
BY NoJobTyped, NoManifestTyped, EmptyLedger DEF IsJob, NoJob

LEMMA SealedSegmentTyped ==
    ASSUME TypeInv, NEW t \in Threads
    PROVE  SealedSegment(job[t].seqs, minted + 1) \in Segment
<1>1. /\ job[t].seqs \subseteq Nat /\ minted \in Nat
      /\ \A i \in job[t].seqs : journal[i].at \in Nat
  BY CallState DEF DataOK
<1>2. Extremes({journal[i].at : i \in job[t].seqs}) \subseteq Nat
  BY <1>1, ExtremesTyped
<1>3. QED
  BY <1>1, <1>2 DEF SealedSegment, Segment, Tiers

LEMMA NextManifestTyped ==
    ASSUME DataOK, NEW S \in SUBSET Segment
    PROVE  NextManifest(S, minted + 1) \in Manifest
BY DEF DataOK, NextManifest, Manifest

LEMMA TypeInvInit == Init => TypeInv
<1> SUFFICES ASSUME Init PROVE TypeInv
  OBVIOUS
<1>1. DataOK
  BY EmptyLedger, NoManifestTyped, EmptySeq DEF Init, DataOK
<1>2. CallsOK
  BY NoJobTyped DEF Init, CallsOK, PCs
<1>3. WindowsInJournal
  BY DEF Init, WindowsInJournal, NoJob
<1>4. QED
  BY <1>1, <1>2, <1>3, TypeParts DEF TypeInv

LEMMA TypeInvIncremental ==
    ASSUME TypeInv, NEW t \in Threads, Defer(t) \/ Incremental(t)
    PROVE  TypeInv'
<1> USE CallState
<1>1. CASE Defer(t)
  <2>1. DataOK' /\ UNCHANGED journal
    BY <1>1 DEF Defer, DataOK, durable, chain, world
  <2>2. QED
    BY <1>1, <2>1, ReturnStep DEF Defer
<1>2. CASE Read(t)
  <2>1. DataOK' /\ UNCHANGED journal
    BY <1>2 DEF Read, DataOK, durable, chain, world
  <2>2. Drainable \subseteq DOMAIN journal /\ DOMAIN journal \subseteq Nat
    BY DEF Drainable, Window
  <2>3. PICK last \in Drainable :
           Goto(t, "read", [NoJob EXCEPT !.kind = "incremental",
                                         !.seqs = Drainable, !.last = last])
    BY <1>2 DEF Read
  <2> DEFINE j == [NoJob EXCEPT !.kind = "incremental", !.seqs = Drainable, !.last = last]
  <2>4. IsJob(j) /\ j.seqs = Drainable
    <3>1. "incremental" \in Kinds /\ Drainable \in SUBSET Nat /\ last \in Nat
      BY <2>2 DEF Kinds
    <3>2. QED
      BY <3>1, FreshJob, EmptyLedger
  <2>5. Goto(t, "read", j) /\ outcome' = [outcome EXCEPT ![t] = "none"]
    BY <1>2, <2>3 DEF Read
  <2> HIDE DEF j
  <2>6. QED
    BY <2>1, <2>2, <2>4, <2>5, GotoStep DEF PCs
<1>3. CASE CutIncremental(t)
  <2> DEFINE seg == SealedSegment(job[t].seqs, minted + 1)
             man == NextManifest({seg}, minted + 1)
             j == [job[t] EXCEPT !.out = {seg}, !.man = man]
  <2>1. DataOK' /\ UNCHANGED journal
    BY <1>3 DEF CutIncremental, DataOK, durable, chain, world
  <2>2. {seg} \in SUBSET Segment
    BY SealedSegmentTyped
  <2>3. man \in Manifest
    BY <2>2, NextManifestTyped
  <2>4. Goto(t, "cut", j) /\ UNCHANGED outcome
    BY <1>3 DEF CutIncremental
  <2> HIDE DEF seg, man
  <2>5. IsJob(job[t]) /\ j = [job[t] EXCEPT !.out = {seg}, !.man = man]
    OBVIOUS
  <2> HIDE DEF j
  <2>6. IsJob(j) /\ j.seqs = job[t].seqs
    BY ONLY <2>2, <2>3, <2>5 DEF IsJob
  <2>7. QED
    BY <2>1, <2>4, <2>6, GotoStep DEF PCs
<1>4. CASE KeysMissing(t)
  <2>1. DataOK' /\ UNCHANGED journal
    BY <1>4 DEF KeysMissing, DataOK, durable, chain, world
  <2>2. QED
    BY <1>4, <2>1, ReturnStep DEF KeysMissing
<1>5. CASE PersistIncremental(t)
  <2>1. /\ job[t].last \in Nat /\ job[t].out \subseteq Segment /\ job[t].man \in Manifest
    BY JobFields
  <2>2. DataOK /\ UNCHANGED <<journal, store, keys, ledger, tail, sinkReady, online,
                              sinkSegments, sinkManifests, minted, faults>>
    BY <1>5 DEF PersistIncremental, chain, world
  <2>3. cursor' \in Nat /\ dbLedger' \subseteq Segment /\ dbTail' \in Manifest
    BY <1>5, <2>1 DEF PersistIncremental, DataOK
  <2>4. DataOK' /\ UNCHANGED journal
    BY ONLY <2>2, <2>3 DEF DataOK
  <2>5. QED
    BY <1>5, <2>4, GotoStep DEF PersistIncremental, PCs
<1>6. CASE CursorRefused(t)
  <2>1. DataOK' /\ UNCHANGED journal
    BY <1>6 DEF CursorRefused, DataOK, durable, chain, world
  <2>2. QED
    BY <1>6, <2>1, ReturnStep DEF CursorRefused
<1>7. CASE CommitIncremental(t)
  <2>1. job[t].out \subseteq Segment /\ job[t].man \in Manifest
    BY JobFields
  <2>2. IsLedger(ledger (+) SetToBag(job[t].out))
    BY <2>1, SetLedger, SumLedger DEF DataOK
  <2>3. DataOK' /\ UNCHANGED journal
    BY <1>7, <2>1, <2>2 DEF CommitIncremental, DataOK, durable, world
  <2>4. \/ Goto(t, "uploading", job[t]) /\ UNCHANGED outcome
        \/ Return(t, "done")
    BY <1>7 DEF CommitIncremental
  <2>5. QED
    BY <2>3, <2>4, GotoStep, ReturnStep DEF PCs
<1>8. QED
  BY <1>1, <1>2, <1>3, <1>4, <1>5, <1>6, <1>7 DEF Incremental

\* A compacted segment keeps rows and extremes of the segments it replaces.
LEMMA GroupSegmentTyped ==
    ASSUME NEW g, g \subseteq Segment, minted \in Nat
    PROVE  GroupSegment(g, minted + 1) \in Segment
<1>1. \A s \in g : s.seqs \subseteq Nat /\ s.span \subseteq Nat
  BY DEF Segment
<1>2. UNION {s.seqs : s \in g} \subseteq Nat /\ UNION {s.span : s \in g} \subseteq Nat
  BY <1>1
<1>3. /\ Survivors(UNION {s.seqs : s \in g}) \subseteq Nat
      /\ Extremes(UNION {s.span : s \in g}) \subseteq Nat
  BY <1>2, ExtremesTyped DEF Survivors
<1>4. NextTier((CHOOSE s \in g : TRUE).tier) \in Tiers
  BY DEF NextTier, Tiers
<1>5. QED
  BY <1>3, <1>4 DEF GroupSegment, Segment

LEMMA TypeInvCompaction ==
    ASSUME TypeInv, NEW t \in Threads, Compaction(t)
    PROVE  TypeInv'
<1> USE CallState
<1>1. ASSUME NEW now \in 0..MaxTime, Compact(t, now) PROVE TypeInv'
  <2> DEFINE groups == Plan(ledger, now)
             outputs == {s \in {GroupSegment(g, minted + 1) : g \in groups} : s.seqs # {}}
             kept == [s \in DOMAIN ledger \ UNION groups |-> ledger[s]]
             rest == kept (+) SetToBag(outputs)
             j == [NoJob EXCEPT !.kind = "compaction", !.out = outputs, !.rest = rest]
  <2>1. DataOK' /\ UNCHANGED journal
    BY <1>1 DEF Compact, DataOK, durable, chain, world
  <2>2. IsLedger(ledger) /\ minted \in Nat /\ DOMAIN ledger \subseteq Segment
    BY DEF DataOK, IsLedger
  <2>3. \A g \in groups : g \subseteq Segment
    BY <2>2 DEF Plan
  <2>4. outputs \in SUBSET Segment
    BY <2>2, <2>3, GroupSegmentTyped
  <2>5. IsLedger(rest)
    <3>1. IsLedger(kept)
      BY <2>2, SubLedger
    <3> HIDE DEF kept, outputs
    <3>2. QED
      BY <2>4, <3>1, SetLedger, SumLedger
  <2>6. Goto(t, "read", j) /\ outcome' = [outcome EXCEPT ![t] = "none"]
    BY <1>1 DEF Compact
  <2> HIDE DEF rest, outputs
  <2>7. IsJob(j) /\ j.seqs = {}
    <3>1. "compaction" \in Kinds
      BY DEF Kinds
    <3>2. QED
      BY <2>4, <2>5, <3>1, FreshJob
  <2> HIDE DEF j
  <2>8. QED
    BY <2>1, <2>6, <2>7, GotoStep DEF PCs
<1>2. CASE CutCompaction(t)
  <2> DEFINE man == NextManifest(BagToSet(job[t].rest), minted + 1)
             j == [job[t] EXCEPT !.man = man]
  <2>1. DataOK' /\ UNCHANGED journal
    BY <1>2 DEF CutCompaction, DataOK, durable, chain, world
  <2>2. BagToSet(job[t].rest) \in SUBSET Segment
    BY JobFields, LedgerEntries
  <2>3. man \in Manifest
    BY <2>2, NextManifestTyped
  <2>4. Goto(t, "cut", j) /\ UNCHANGED outcome
    BY <1>2 DEF CutCompaction
  <2> HIDE DEF man
  <2>5. IsJob(job[t]) /\ j = [job[t] EXCEPT !.man = man]
    OBVIOUS
  <2> HIDE DEF j
  <2>6. IsJob(j) /\ j.seqs = job[t].seqs
    BY ONLY <2>3, <2>5 DEF IsJob
  <2>7. QED
    BY <2>1, <2>4, <2>6, GotoStep DEF PCs
<1>3. CASE PersistCompaction(t)
  <2>1. BagToSet(job[t].rest) \subseteq Segment /\ job[t].man \in Manifest
    BY JobFields, LedgerEntries
  <2>2. DataOK /\ UNCHANGED <<journal, store, cursor, keys, ledger, tail, sinkReady, online,
                              sinkSegments, sinkManifests, minted, faults>>
    BY <1>3 DEF PersistCompaction, chain, world
  <2>3. dbLedger' \subseteq Segment /\ dbTail' \in Manifest
    BY <1>3, <2>1 DEF PersistCompaction
  <2>4. DataOK' /\ UNCHANGED journal
    BY ONLY <2>2, <2>3 DEF DataOK
  <2>5. QED
    BY <1>3, <2>4, GotoStep DEF PersistCompaction, PCs
<1>4. CASE DuplicateRow(t)
  <2>1. DataOK' /\ UNCHANGED journal
    BY <1>4 DEF DuplicateRow, DataOK, durable, chain, world
  <2>2. QED
    BY <1>4, <2>1, ReturnStep DEF DuplicateRow
<1>5. CASE CommitCompaction(t)
  <2>1. IsLedger(job[t].rest) /\ job[t].man \in Manifest
    BY JobFields
  <2>2. DataOK' /\ UNCHANGED journal
    BY <1>5, <2>1 DEF CommitCompaction, DataOK, durable, world
  <2>3. \/ Goto(t, "uploading", job[t]) /\ UNCHANGED outcome
        \/ Return(t, "done")
    BY <1>5 DEF CommitCompaction
  <2>4. QED
    BY <2>2, <2>3, GotoStep, ReturnStep DEF PCs
<1>6. QED
  BY <1>1, <1>2, <1>3, <1>4, <1>5 DEF Compaction

LEMMA TypeInvUpload ==
    ASSUME TypeInv, NEW t \in Threads, Upload(t) \/ UploadFails(t) \/ PersistFails(t)
    PROVE  TypeInv'
<1> USE CallState
<1>1. job[t].out \subseteq Segment /\ job[t].man \in Manifest
  BY JobFields
<1>2. CASE UploadSegment(t)
  <2>1. PICK s \in job[t].out : /\ sinkSegments' = sinkSegments \cup {s}
                                /\ Goto(t, "uploading", [job[t] EXCEPT !.out = @ \ {s}])
    BY <1>2 DEF UploadSegment
  <2>2. UNCHANGED outcome /\ DataOK' /\ UNCHANGED journal
    BY <1>1, <1>2, <2>1 DEF UploadSegment, DataOK, durable, chain
  <2> DEFINE j == [job[t] EXCEPT !.out = @ \ {s}]
  <2>3. /\ IsJob(job[t]) /\ j = [job[t] EXCEPT !.out = @ \ {s}]
        /\ job[t].out \ {s} \subseteq Segment
    BY <1>1
  <2>4. Goto(t, "uploading", j)
    BY <2>1
  <2> HIDE DEF j
  <2>5. IsJob(j) /\ j.seqs = job[t].seqs
    BY ONLY <2>3 DEF IsJob
  <2>6. QED
    BY <2>2, <2>4, <2>5, GotoStep DEF PCs
<1>3. CASE UploadManifest(t)
  <2>1. DataOK' /\ UNCHANGED journal
    BY <1>1, <1>3 DEF UploadManifest, DataOK, durable, chain
  <2>2. QED
    BY <1>3, <2>1, ReturnStep DEF UploadManifest
<1>4. CASE UploadFails(t)
  <2>1. /\ sinkSegments' \subseteq Segment /\ sinkManifests' \subseteq Manifest
        /\ online' = online
    BY <1>1, <1>4 DEF UploadFails, DataOK, world
  <2>2. DataOK' /\ UNCHANGED journal
    BY <1>4, <2>1 DEF UploadFails, DataOK, durable, chain
  <2>3. QED
    BY <1>4, <2>2, ReturnStep DEF UploadFails
<1>5. CASE PersistFails(t)
  <2>1. DataOK' /\ UNCHANGED journal
    BY <1>5 DEF PersistFails, DataOK, durable, chain, world
  <2>2. QED
    BY <1>5, <2>1, ReturnStep DEF PersistFails
<1>6. QED
  BY <1>2, <1>3, <1>4, <1>5 DEF Upload

LEMMA TypeInvInstall ==
    ASSUME TypeInv, NEW t \in Threads, Install(t)
    PROVE  TypeInv'
<1> USE CallState
<1>1. CASE Materialise(t)
  <2> DEFINE j == [NoJob EXCEPT !.kind = "install", !.rest = SetToBag(dbLedger)]
  <2>1. DataOK' /\ UNCHANGED journal
    BY <1>1 DEF Materialise, DataOK, durable, chain, world
  <2>2. IsLedger(SetToBag(dbLedger)) /\ "install" \in Kinds
    BY SetLedger DEF DataOK, Kinds
  <2>3. IsJob(j) /\ j.seqs = {}
    BY <2>2, FreshJob
  <2>4. Goto(t, "materialised", j) /\ outcome' = [outcome EXCEPT ![t] = "none"]
    BY <1>1 DEF Materialise
  <2> HIDE DEF j
  <2>5. QED
    BY <2>1, <2>3, <2>4, GotoStep DEF PCs
<1>2. CASE InstallKeys(t)
  <2>1. IsLedger(job[t].rest)
    BY JobFields
  <2>2. DataOK' /\ UNCHANGED journal
    BY <1>2, <2>1 DEF InstallKeys, DataOK, durable, world
  <2>3. QED
    BY <1>2, <2>2, ReturnStep DEF InstallKeys
<1>3. QED
  BY <1>1, <1>2 DEF Install

\* The device's own steps: journalling, the sink, the network, a crash.
LEMMA TypeInvDevice ==
    ASSUME TypeInv, Journalling \/ InstallSink \/ Crash \/ GoOnline \/ GoOffline
    PROVE  TypeInv'
<1>1. DataOK /\ CallsOK /\ WindowsInJournal
  BY TypeParts DEF TypeInv
<1>2. CASE Journalling
  <2>1. PICK rows \in Seq(Event) : journal' = journal \o rows
    BY <1>1, <1>2, JournallingAppends
  <2>2. /\ journal' \in Seq(Event) /\ DOMAIN journal \subseteq DOMAIN journal'
        /\ store' \in [AllMessages -> {"absent", "live", "deleted"}]
        /\ JournalOnly
    BY <1>1, <1>2, <2>1, JournallingAppends, JournalGrows
  <2>3. DataOK'
    BY <1>1, <2>2 DEF DataOK, JournalOnly, chain, world
  <2>4. CallsOK' /\ WindowsInJournal'
    BY <1>1, <2>2 DEF CallsOK, WindowsInJournal, JournalOnly
  <2>5. QED
    BY <2>3, <2>4, TypeParts, PTL DEF TypeInv
<1>3. CASE InstallSink \/ GoOnline \/ GoOffline
  <2>1. /\ UNCHANGED <<journal, store, cursor, dbLedger, dbTail, keys, ledger, tail,
                       sinkSegments, sinkManifests, minted>>
        /\ sinkReady' \in BOOLEAN /\ online' \in BOOLEAN
        /\ faults' = faults \/ faults' = faults + 1
    BY <1>1, <1>3 DEF InstallSink, GoOnline, GoOffline, DataOK, durable, chain, world
  <2>2. DataOK'
    <3>1. faults' \in Nat
      BY <1>1, <2>1 DEF DataOK
    <3>2. QED
      BY ONLY <1>1, <2>1, <3>1 DEF DataOK
  <2>3. CallsOK' /\ WindowsInJournal'
    BY <1>1, <1>3 DEF InstallSink, GoOnline, GoOffline, CallsOK, WindowsInJournal, durable
  <2>4. QED
    BY <2>2, <2>3, TypeParts, PTL DEF TypeInv
<1>4. CASE Crash
  <2>1. /\ UNCHANGED <<journal, store, cursor, dbLedger, dbTail, online,
                       sinkSegments, sinkManifests, minted>>
        /\ keys' \in BOOLEAN /\ sinkReady' \in BOOLEAN /\ faults' = faults + 1
        /\ IsLedger(ledger') /\ tail' = dbTail
    BY <1>4, EmptyLedger DEF Crash, durable, world
  <2>2. DataOK'
    <3>1. faults' \in Nat
      BY <1>1, <2>1 DEF DataOK
    <3>2. QED
      BY ONLY <1>1, <2>1, <3>1 DEF DataOK
  <2>3. CallsOK'
    BY <1>4, NoJobTyped DEF Crash, CallsOK, PCs
  <2>4. WindowsInJournal'
    BY <1>4 DEF Crash, WindowsInJournal, NoJob
  <2>5. QED
    BY <2>2, <2>3, <2>4, TypeParts, PTL DEF TypeInv
<1>5. QED
  BY <1>2, <1>3, <1>4

LEMMA TypeInvStutter == TypeInv /\ UNCHANGED vars => TypeInv'
BY DEF TypeInv, TypeOK, WindowsInJournal, vars, durable, chain, world

LEMMA TypesInvariant == Spec => []TypeInv
<1>1. Init => TypeInv
  BY TypeInvInit
<1>2. TypeInv /\ [Next]_vars => TypeInv'
  BY TypeInvIncremental, TypeInvCompaction, TypeInvUpload, TypeInvInstall, TypeInvDevice,
     TypeInvStutter DEF Next
<1>3. QED
  BY <1>1, <1>2, PTL DEF Spec

\* Type correctness: whatever the threads, the messages and the bounds, every
\* variable keeps a value of its kind.
THEOREM TypesCorrect == Spec => []TypeOK
<1>1. TypeInv => TypeOK
  BY DEF TypeInv
<1>2. QED
  BY <1>1, TypesInvariant, PTL

-----------------------------------------------------------------------------
(* How the steps move the calls: a call's step changes that thread's pc and *)
(* job only, and the device's steps change none.                            *)

LEMMA GotoFrame ==
    ASSUME CallsOK, NEW t \in Threads, NEW where, NEW j, Goto(t, where, j)
    PROVE  \A u \in Threads : /\ pc'[u] = IF u = t THEN where ELSE pc[u]
                              /\ job'[u] = IF u = t THEN j ELSE job[u]
BY DEF CallsOK, Goto

LEMMA ReturnFrame ==
    ASSUME CallsOK, NEW t \in Threads, NEW result, Return(t, result)
    PROVE  \A u \in Threads : /\ pc'[u] = IF u = t THEN "idle" ELSE pc[u]
                              /\ job'[u] = IF u = t THEN NoJob ELSE job[u]
BY DEF CallsOK, Return

-----------------------------------------------------------------------------
(* The persisted manifest tail.                                             *)

\* Between the cut and the commit a call's manifest lists what the call is
\* about to make durable: its own segment, or the whole compacted ledger.
CutAgrees(t) ==
    pc[t] \in {"cut", "persisted"} =>
        /\ job[t].kind = "incremental" => job[t].man.segs = job[t].out
        /\ job[t].kind = "compaction" => job[t].man.segs = BagToSet(job[t].rest)
CutsAgree == \A t \in Threads : CutAgrees(t)

TailInv == CutsAgree /\ PersistedTailResolves

\* Whatever thread moves on, the others' cuts stay as they are.
LEMMA CutsFrame ==
    ASSUME CutsAgree, NEW t \in Threads, CutAgrees(t)',
           \A u \in Threads \ {t} : pc'[u] = pc[u] /\ job'[u] = job[u]
    PROVE  CutsAgree'
<1>1. ASSUME NEW u \in Threads PROVE CutAgrees(u)'
  BY DEF CutsAgree, CutAgrees
<1>2. QED
  BY <1>1 DEF CutsAgree

LEMMA CutsAgreeStep ==
    ASSUME TypeInv, CutsAgree, [Next]_vars
    PROVE  CutsAgree'
<1>1. ASSUME NEW t \in Threads, NEW result, Return(t, result) PROVE CutsAgree'
  <2>1. CutAgrees(t)' /\ \A u \in Threads \ {t} : pc'[u] = pc[u] /\ job'[u] = job[u]
    BY <1>1, CallState, ReturnFrame DEF CutAgrees
  <2>2. QED
    BY <2>1, CutsFrame
<1>2. ASSUME NEW t \in Threads, NEW where, NEW j, Goto(t, where, j),
             where \in {"cut", "persisted"} =>
                /\ j.kind = "incremental" => j.man.segs = j.out
                /\ j.kind = "compaction" => j.man.segs = BagToSet(j.rest)
      PROVE  CutsAgree'
  <2>1. CutAgrees(t)' /\ \A u \in Threads \ {t} : pc'[u] = pc[u] /\ job'[u] = job[u]
    BY <1>2, CallState, GotoFrame DEF CutAgrees
  <2>2. QED
    BY <2>1, CutsFrame
<1>3. ASSUME NEW t \in Threads, CutIncremental(t) PROVE CutsAgree'
  <2> DEFINE seg == SealedSegment(job[t].seqs, minted + 1)
             man == NextManifest({seg}, minted + 1)
             j == [job[t] EXCEPT !.out = {seg}, !.man = man]
  <2>1. Goto(t, "cut", j) /\ job[t].kind = "incremental"
    BY <1>3 DEF CutIncremental
  <2>2. man.segs = {seg}
    BY DEF NextManifest
  <2>3. IsJob(job[t]) /\ j = [job[t] EXCEPT !.out = {seg}, !.man = man]
    BY CallState
  <2> HIDE DEF seg, man, j
  <2>4. j.kind = "incremental" /\ j.man = man /\ j.out = {seg}
    BY <2>1, <2>3 DEF IsJob
  <2>5. QED
    BY <1>2, <2>1, <2>2, <2>4
<1>4. ASSUME NEW t \in Threads, CutCompaction(t) PROVE CutsAgree'
  <2> DEFINE man == NextManifest(BagToSet(job[t].rest), minted + 1)
             j == [job[t] EXCEPT !.man = man]
  <2>1. Goto(t, "cut", j) /\ job[t].kind = "compaction"
    BY <1>4 DEF CutCompaction
  <2>2. man.segs = BagToSet(job[t].rest)
    BY DEF NextManifest
  <2>3. IsJob(job[t]) /\ j = [job[t] EXCEPT !.man = man]
    BY CallState
  <2> HIDE DEF man, j
  <2>4. j.kind = "compaction" /\ j.man = man /\ j.rest = job[t].rest
    BY <2>1, <2>3 DEF IsJob
  <2>5. QED
    BY <1>2, <2>1, <2>2, <2>4
<1>5. ASSUME NEW t \in Threads, PersistIncremental(t) \/ PersistCompaction(t)
      PROVE  CutsAgree'
  BY <1>2, <1>5 DEF PersistIncremental, PersistCompaction, CutsAgree, CutAgrees
<1>6. ASSUME NEW t \in Threads, Defer(t) \/ KeysMissing(t) \/ CursorRefused(t)
                                \/ DuplicateRow(t) \/ UploadManifest(t) \/ UploadFails(t)
                                \/ PersistFails(t) \/ InstallKeys(t)
      PROVE  CutsAgree'
  BY <1>1, <1>6 DEF Defer, KeysMissing, CursorRefused, DuplicateRow, UploadManifest,
                    UploadFails, PersistFails, InstallKeys
<1>7. ASSUME NEW t \in Threads, Read(t) \/ (\E now \in 0..MaxTime : Compact(t, now))
                                \/ UploadSegment(t) \/ Materialise(t)
      PROVE  CutsAgree'
  BY <1>2, <1>7 DEF Read, Compact, UploadSegment, Materialise
<1>8. ASSUME NEW t \in Threads, CommitIncremental(t) \/ CommitCompaction(t)
      PROVE  CutsAgree'
  BY <1>1, <1>2, <1>8 DEF CommitIncremental, CommitCompaction
<1>9. CASE Crash
  BY <1>9 DEF Crash, CutsAgree, CutAgrees
<1>10. CASE Journalling \/ InstallSink \/ GoOnline \/ GoOffline \/ UNCHANGED vars
  <2>1. UNCHANGED <<pc, job>>
    BY <1>10, JournallingAppends, CallState, TypeParts
       DEF InstallSink, GoOnline, GoOffline, vars, JournalOnly, TypeInv
  <2>2. QED
    BY <2>1 DEF CutsAgree, CutAgrees
<1>11. QED
  BY <1>3, <1>4, <1>5, <1>6, <1>7, <1>8, <1>9, <1>10
     DEF Next, Incremental, Compaction, Upload, Install

\* The tail and the ledger rows move together or not at all.
LEMMA TailResolvesStep ==
    ASSUME TypeInv, TailInv, [Next]_vars
    PROVE  PersistedTailResolves'
<1>1. ASSUME NEW t \in Threads, PersistIncremental(t) PROVE PersistedTailResolves'
  <2>1. job[t].man.segs = job[t].out
    BY <1>1 DEF PersistIncremental, TailInv, CutsAgree, CutAgrees
  <2>2. QED
    BY <1>1, <2>1 DEF PersistIncremental, PersistedTailResolves
<1>2. ASSUME NEW t \in Threads, PersistCompaction(t) PROVE PersistedTailResolves'
  <2>1. job[t].man.segs = BagToSet(job[t].rest)
    BY <1>2 DEF PersistCompaction, TailInv, CutsAgree, CutAgrees
  <2>2. QED
    BY <1>2, <2>1 DEF PersistCompaction, PersistedTailResolves
<1>3. CASE UNCHANGED <<dbLedger, dbTail>>
  BY <1>3 DEF PersistedTailResolves, TailInv
<1>4. Journalling => UNCHANGED <<dbLedger, dbTail>>
  BY JournallingAppends, TypeParts DEF JournalOnly, TypeInv
<1>5. QED
  BY <1>1, <1>2, <1>3, <1>4
     DEF Next, Incremental, Compaction, Upload, Install, Defer, Read, CutIncremental,
         KeysMissing, CursorRefused, CommitIncremental, Compact, CutCompaction, DuplicateRow,
         CommitCompaction, UploadSegment, UploadManifest, UploadFails, PersistFails,
         Materialise, InstallKeys, InstallSink, Crash, GoOnline, GoOffline, vars, durable

\* The manifest the device would chain from after a restart never refers to a
\* segment its ledger does not have, whatever calls interleave or fail.
THEOREM TailResolves == Spec => []PersistedTailResolves
<1>1. Init => TailInv
  BY DEF Init, TailInv, CutsAgree, CutAgrees, PersistedTailResolves, NoManifest
<1>2. TypeInv /\ TailInv /\ [Next]_vars => TailInv'
  BY CutsAgreeStep, TailResolvesStep DEF TailInv
<1>3. TailInv => PersistedTailResolves
  BY DEF TailInv
<1>4. QED
  BY <1>1, <1>2, <1>3, TypesInvariant, PTL DEF Spec

-----------------------------------------------------------------------------
(* A device that drains and uploads but never compacts: any number of      *)
(* threads may drain and install keys at once, calls fail, the process      *)
(* crashes.                                                                 *)

NoCompaction == \A t \in Threads : job[t].kind # "compaction"

LEMMA NoCompactionStep ==
    ASSUME Compactors = {}, TypeInv, NoCompaction, [Next]_vars
    PROVE  NoCompaction'
<1>1. ASSUME NEW t \in Threads, NEW result, Return(t, result) PROVE NoCompaction'
  <2>1. NoJob.kind # "compaction"
    BY DEF NoJob
  <2>2. QED
    BY <1>1, <2>1, CallState, ReturnFrame DEF NoCompaction
<1>2. ASSUME NEW t \in Threads, NEW where, NEW j, Goto(t, where, j), j.kind # "compaction"
      PROVE  NoCompaction'
  BY <1>2, CallState, GotoFrame DEF NoCompaction
<1>3. ASSUME NEW t \in Threads, Read(t) PROVE NoCompaction'
  <2>1. PICK last \in Drainable :
           Goto(t, "read", [NoJob EXCEPT !.kind = "incremental",
                                         !.seqs = Drainable, !.last = last])
    BY <1>3 DEF Read
  <2>2. [NoJob EXCEPT !.kind = "incremental", !.seqs = Drainable, !.last = last].kind
           = "incremental"
    BY DEF NoJob
  <2>3. QED
    BY <1>2, <2>1, <2>2
<1>4. ASSUME NEW t \in Threads, CutIncremental(t) PROVE NoCompaction'
  <2> DEFINE seg == SealedSegment(job[t].seqs, minted + 1)
             man == NextManifest({seg}, minted + 1)
             j == [job[t] EXCEPT !.out = {seg}, !.man = man]
  <2>1. Goto(t, "cut", j) /\ job[t].kind = "incremental"
    BY <1>4 DEF CutIncremental
  <2>2. IsJob(job[t]) /\ j = [job[t] EXCEPT !.out = {seg}, !.man = man]
    BY CallState
  <2> HIDE DEF seg, man, j
  <2>3. j.kind = "incremental"
    BY <2>1, <2>2 DEF IsJob
  <2>4. QED
    BY <1>2, <2>1, <2>3
<1>5. ASSUME NEW t \in Threads, UploadSegment(t) PROVE NoCompaction'
  <2>1. PICK s \in job[t].out : Goto(t, "uploading", [job[t] EXCEPT !.out = @ \ {s}])
    BY <1>5 DEF UploadSegment
  <2> DEFINE j == [job[t] EXCEPT !.out = @ \ {s}]
  <2>2. IsJob(job[t]) /\ j = [job[t] EXCEPT !.out = @ \ {s}] /\ Goto(t, "uploading", j)
    BY <2>1, CallState
  <2> HIDE DEF j
  <2>3. j.kind = job[t].kind
    BY <2>2 DEF IsJob
  <2>4. QED
    BY <1>2, <2>2, <2>3 DEF NoCompaction
<1>6. ASSUME NEW t \in Threads, Materialise(t) PROVE NoCompaction'
  <2>1. [NoJob EXCEPT !.kind = "install", !.rest = SetToBag(dbLedger)].kind = "install"
    BY DEF NoJob
  <2>2. QED
    BY <1>2, <1>6, <2>1 DEF Materialise
<1>7. ASSUME NEW t \in Threads, PersistIncremental(t) \/ CommitIncremental(t)
      PROVE  NoCompaction'
  BY <1>1, <1>2, <1>7 DEF PersistIncremental, CommitIncremental
<1>8. ASSUME NEW t \in Threads, Defer(t) \/ KeysMissing(t) \/ CursorRefused(t)
                                \/ UploadManifest(t) \/ UploadFails(t)
                                \/ PersistFails(t) \/ InstallKeys(t)
      PROVE  NoCompaction'
  BY <1>1, <1>8 DEF Defer, KeysMissing, CursorRefused, UploadManifest, UploadFails,
                    PersistFails, InstallKeys
<1>9. \A t \in Threads : ~Compaction(t)
  BY DEF Compaction, Compact, CutCompaction, PersistCompaction, DuplicateRow,
         CommitCompaction, NoCompaction
<1>10. CASE Crash
  BY <1>10 DEF Crash, NoCompaction, NoJob
<1>11. CASE Journalling \/ InstallSink \/ GoOnline \/ GoOffline \/ UNCHANGED vars
  <2>1. UNCHANGED job
    BY <1>11, JournallingAppends, TypeParts
       DEF InstallSink, GoOnline, GoOffline, vars, JournalOnly, TypeInv
  <2>2. QED
    BY <2>1 DEF NoCompaction
<1>12. QED
  BY <1>3, <1>4, <1>5, <1>6, <1>7, <1>8, <1>9, <1>10, <1>11
     DEF Next, Incremental, Upload, Install

\* What a call has read reaches no further than the journal, and every typed
\* row up to its last one is in the ledger already or in the call's hands.
WindowCovered(t) ==
    pc[t] \in {"read", "cut"} =>
        /\ job[t].last <= Len(journal)
        /\ \A i \in 1..job[t].last :
              journal[i].type \in Typed => i \in SealedIn(dbLedger) \cup job[t].seqs
        /\ pc[t] = "cut" => job[t].seqs \subseteq SealedIn(job[t].out)
WindowsCovered == \A t \in Threads : WindowCovered(t)

CursorInv == cursor <= Len(journal) /\ SegmentedEventsAreSealed /\ WindowsCovered

\* Rows keep their number and content, and sealed rows stay sealed.
Steady == /\ Len(journal) <= Len(journal')
          /\ \A i \in 1..Len(journal) : journal'[i] = journal[i]
          /\ SealedIn(dbLedger) \subseteq SealedIn(dbLedger)'

LEMMA JournalTyped ==
    ASSUME TypeInv
    PROVE  /\ Len(journal) \in Nat /\ DOMAIN journal = 1..Len(journal)
           /\ cursor \in Nat
           /\ \A t \in Threads : job[t].last \in Nat /\ job[t].seqs \subseteq Nat
<1>1. journal \in Seq(Event) /\ cursor \in Nat
  BY TypeParts DEF TypeInv, DataOK
<1>2. \A t \in Threads : IsJob(job[t])
  BY TypeParts DEF TypeInv, CallsOK
<1>3. QED
  BY <1>1, <1>2, JobFields, LenProperties

LEMMA WindowStays ==
    ASSUME TypeInv, TypeInv', Steady, NEW t \in Threads, WindowCovered(t),
           pc'[t] = pc[t], job'[t] = job[t]
    PROVE  WindowCovered(t)'
<1> SUFFICES ASSUME pc[t] \in {"read", "cut"} PROVE WindowCovered(t)'
  BY DEF WindowCovered
<1>1. job[t].last \in Nat /\ Len(journal) \in Nat /\ Len(journal') \in Nat
  <2>1. journal' \in Seq(Event)
    BY DEF TypeInv, TypeOK
  <2>2. Len(journal') \in Nat
    BY ONLY <2>1, LenProperties
  <2>3. QED
    BY <2>2, JournalTyped
<1>2. job'[t].last <= Len(journal')
  BY <1>1 DEF WindowCovered, Steady
<1>3. ASSUME NEW i \in 1..job'[t].last, journal'[i].type \in Typed
      PROVE  i \in SealedIn(dbLedger)' \cup job'[t].seqs
  <2>1. i \in 1..job[t].last /\ i \in 1..Len(journal)
    BY <1>1 DEF WindowCovered
  <2>2. journal[i].type \in Typed
    BY <1>3, <2>1 DEF Steady
  <2>3. QED
    BY <2>1, <2>2 DEF WindowCovered, Steady
<1>4. pc'[t] = "cut" => job'[t].seqs \subseteq SealedIn(job'[t].out)
  BY DEF WindowCovered
<1>5. QED
  BY <1>2, <1>3, <1>4 DEF WindowCovered

LEMMA WindowsStay ==
    ASSUME TypeInv, TypeInv', Steady, WindowsCovered, NEW t \in Threads, WindowCovered(t)',
           \A u \in Threads \ {t} : pc'[u] = pc[u] /\ job'[u] = job[u]
    PROVE  WindowsCovered'
<1>1. ASSUME NEW u \in Threads PROVE WindowCovered(u)'
  BY WindowStays DEF WindowsCovered
<1>2. QED
  BY <1>1 DEF WindowsCovered

\* A step that leaves the journal, the cursor and the ledger alone disturbs
\* nothing unless it brings in a window of its own.
LEMMA QuietReturn ==
    ASSUME TypeInv, TypeInv', CursorInv, UNCHANGED <<journal, cursor, dbLedger>>,
           NEW t \in Threads, NEW result, Return(t, result)
    PROVE  CursorInv'
<1>1. Steady
  BY JournalTyped DEF Steady
<1>2. WindowCovered(t)' /\ \A u \in Threads \ {t} : pc'[u] = pc[u] /\ job'[u] = job[u]
  BY CallState, ReturnFrame DEF WindowCovered
<1>3. WindowsCovered'
  BY <1>1, <1>2, WindowsStay DEF CursorInv
<1>4. QED
  BY <1>3 DEF CursorInv, SegmentedEventsAreSealed

LEMMA QuietGoto ==
    ASSUME TypeInv, TypeInv', CursorInv, UNCHANGED <<journal, cursor, dbLedger>>,
           NEW t \in Threads, NEW where, NEW j, Goto(t, where, j),
           where \in {"read", "cut"} =>
              /\ j.last <= Len(journal)
              /\ \A i \in 1..j.last :
                    journal[i].type \in Typed => i \in SealedIn(dbLedger) \cup j.seqs
              /\ where = "cut" => j.seqs \subseteq SealedIn(j.out)
    PROVE  CursorInv'
<1>1. Steady
  BY JournalTyped DEF Steady
<1>2. WindowCovered(t)' /\ \A u \in Threads \ {t} : pc'[u] = pc[u] /\ job'[u] = job[u]
  BY CallState, GotoFrame DEF WindowCovered
<1>3. WindowsCovered'
  BY <1>1, <1>2, WindowsStay DEF CursorInv
<1>4. QED
  BY <1>3 DEF CursorInv, SegmentedEventsAreSealed

\* The three steps that carry the argument.
LEMMA CursorRead ==
    ASSUME TypeInv, TypeInv', CursorInv, NEW t \in Threads, Read(t)
    PROVE  CursorInv'
<1>1. PICK last \in Drainable :
         Goto(t, "read", [NoJob EXCEPT !.kind = "incremental",
                                       !.seqs = Drainable, !.last = last])
  BY DEF Read
<1> DEFINE j == [NoJob EXCEPT !.kind = "incremental", !.seqs = Drainable, !.last = last]
<1>2. j.seqs = Drainable /\ j.last = last /\ Goto(t, "read", j)
  BY <1>1 DEF NoJob
<1> HIDE DEF j
<1>3. /\ Len(journal) \in Nat /\ cursor \in Nat /\ DOMAIN journal = 1..Len(journal)
      /\ SegmentLimit \in Nat
  BY JournalTyped, NumbersAssumption
<1>4. last \in 1..Len(journal) /\ last <= cursor + SegmentLimit
  BY <1>3 DEF Drainable, Window
<1>5. ASSUME NEW i \in 1..last, journal[i].type \in Typed
      PROVE  i \in SealedIn(dbLedger) \cup Drainable
  <2>1. CASE i <= cursor
    <3>1. i \in 1..cursor
      BY <1>3, <1>4, <2>1
    <3>2. QED
      BY <1>5, <3>1 DEF CursorInv, SegmentedEventsAreSealed
  <2>2. CASE cursor < i
    <3>1. i \in Window
      BY <1>3, <1>4, <2>2 DEF Window
    <3>2. QED
      BY <1>5, <3>1 DEF Drainable
  <2>3. QED
    BY <1>3, <1>4, <2>1, <2>2
<1>6. UNCHANGED <<journal, cursor, dbLedger>>
  BY DEF Read, durable
<1>7. QED
  BY <1>2, <1>3, <1>4, <1>5, <1>6, QuietGoto

LEMMA CursorCut ==
    ASSUME TypeInv, TypeInv', CursorInv, NEW t \in Threads, CutIncremental(t)
    PROVE  CursorInv'
<1> DEFINE seg == SealedSegment(job[t].seqs, minted + 1)
           man == NextManifest({seg}, minted + 1)
           j == [job[t] EXCEPT !.out = {seg}, !.man = man]
<1>1. Goto(t, "cut", j) /\ pc[t] = "read" /\ UNCHANGED <<journal, cursor, dbLedger>>
  BY DEF CutIncremental, durable
<1>2. seg.seqs = job[t].seqs
  BY DEF SealedSegment
<1>3. IsJob(job[t]) /\ j = [job[t] EXCEPT !.out = {seg}, !.man = man]
  BY CallState
<1> HIDE DEF seg, man, j
<1>4. j.last = job[t].last /\ j.seqs = job[t].seqs /\ j.out = {seg}
  BY <1>3 DEF IsJob
<1>5. j.seqs \subseteq SealedIn(j.out)
  BY <1>2, <1>4 DEF SealedIn
<1>6. WindowCovered(t)
  BY DEF CursorInv, WindowsCovered
<1>7. QED
  BY <1>1, <1>4, <1>5, <1>6, QuietGoto DEF WindowCovered

LEMMA CursorPersist ==
    ASSUME TypeInv, TypeInv', CursorInv, NEW t \in Threads, PersistIncremental(t)
    PROVE  CursorInv'
<1>1. /\ pc[t] = "cut" /\ cursor' = job[t].last /\ dbLedger' = dbLedger \cup job[t].out
      /\ Goto(t, "persisted", job[t]) /\ UNCHANGED journal
  BY DEF PersistIncremental
<1>2. SealedIn(dbLedger)' = SealedIn(dbLedger) \cup SealedIn(job[t].out)
  BY <1>1 DEF SealedIn
<1>3. Steady
  <2>1. /\ Len(journal) <= Len(journal')
        /\ \A i \in 1..Len(journal) : journal'[i] = journal[i]
    BY <1>1, JournalTyped
  <2>2. SealedIn(dbLedger) \subseteq SealedIn(dbLedger)'
    BY <1>2
  <2>3. QED
    BY <2>1, <2>2 DEF Steady
<1>4. WindowCovered(t)
  BY DEF CursorInv, WindowsCovered
<1>5. cursor' <= Len(journal')
  BY <1>1, <1>4 DEF WindowCovered
<1>6. SegmentedEventsAreSealed'
  BY <1>1, <1>2, <1>4 DEF WindowCovered, SegmentedEventsAreSealed
<1>7. WindowCovered(t)' /\ \A u \in Threads \ {t} : pc'[u] = pc[u] /\ job'[u] = job[u]
  BY <1>1, CallState, GotoFrame DEF WindowCovered
<1>8. WindowsCovered'
  BY <1>3, <1>7, WindowsStay DEF CursorInv
<1>9. QED
  BY <1>5, <1>6, <1>8 DEF CursorInv

LEMMA CursorJournalling ==
    ASSUME TypeInv, TypeInv', CursorInv, Journalling
    PROVE  CursorInv'
<1>1. DataOK
  BY TypeParts DEF TypeInv
<1>2. /\ Len(journal) <= Len(journal')
      /\ \A i \in DOMAIN journal : journal'[i] = journal[i]
      /\ UNCHANGED <<cursor, dbLedger, pc, job>>
  BY <1>1, JournallingAppends, JournalGrows DEF JournalOnly
<1>3. Steady
  <2>1. SealedIn(dbLedger)' = SealedIn(dbLedger)
    BY <1>2 DEF SealedIn
  <2>2. QED
    BY <1>2, <2>1, JournalTyped DEF Steady
<1>4. WindowsCovered'
  <2>1. ASSUME NEW t \in Threads PROVE WindowCovered(t)'
    BY <1>2, <1>3, WindowStays DEF CursorInv, WindowsCovered
  <2>2. QED
    BY <2>1 DEF WindowsCovered
<1>5. Len(journal') \in Nat
  <2>1. journal' \in Seq(Event)
    BY DEF TypeInv, TypeOK
  <2>2. QED
    BY ONLY <2>1, LenProperties
<1>6. cursor' <= Len(journal')
  BY <1>2, <1>5, JournalTyped DEF CursorInv
<1>7. \A i \in 1..cursor : i \in DOMAIN journal
  BY JournalTyped DEF CursorInv
<1>8. SegmentedEventsAreSealed'
  BY <1>2, <1>7 DEF CursorInv, SegmentedEventsAreSealed, SealedIn
<1>9. QED
  BY <1>4, <1>6, <1>8 DEF CursorInv

LEMMA CursorStep ==
    ASSUME TypeInv, TypeInv', NoCompaction, Compactors = {}, CursorInv, [Next]_vars
    PROVE  CursorInv'
<1>1. ASSUME NEW t \in Threads, CommitIncremental(t) \/ UploadSegment(t) \/ Materialise(t)
      PROVE  CursorInv'
  <2>1. UNCHANGED <<journal, cursor, dbLedger>>
    BY <1>1 DEF CommitIncremental, UploadSegment, Materialise, durable
  <2>2. QED
    BY <1>1, <2>1, QuietGoto, QuietReturn DEF CommitIncremental, UploadSegment, Materialise
<1>2. ASSUME NEW t \in Threads, Defer(t) \/ KeysMissing(t) \/ CursorRefused(t)
                                \/ UploadManifest(t) \/ UploadFails(t)
                                \/ PersistFails(t) \/ InstallKeys(t)
      PROVE  CursorInv'
  <2>1. UNCHANGED <<journal, cursor, dbLedger>>
    BY <1>2 DEF Defer, KeysMissing, CursorRefused, UploadManifest, UploadFails,
                PersistFails, InstallKeys, durable
  <2>2. QED
    BY <1>2, <2>1, QuietReturn DEF Defer, KeysMissing, CursorRefused, UploadManifest,
                                   UploadFails, PersistFails, InstallKeys
<1>3. \A t \in Threads : ~Compaction(t)
  BY DEF Compaction, Compact, CutCompaction, PersistCompaction, DuplicateRow,
         CommitCompaction, NoCompaction
<1>4. CASE Crash
  BY <1>4 DEF Crash, durable, CursorInv, SegmentedEventsAreSealed, WindowsCovered,
              WindowCovered
<1>5. CASE InstallSink \/ GoOnline \/ GoOffline \/ UNCHANGED vars
  <2>1. UNCHANGED <<journal, cursor, dbLedger, pc, job>>
    BY <1>5 DEF InstallSink, GoOnline, GoOffline, vars, durable
  <2>2. QED
    BY <2>1 DEF CursorInv, SegmentedEventsAreSealed, WindowsCovered, WindowCovered
<1>6. QED
  BY <1>1, <1>2, <1>3, <1>4, <1>5, CursorRead, CursorCut, CursorPersist, CursorJournalling
     DEF Next, Incremental, Upload, Install

\* No event is skipped: on a device that never compacts, whatever number of
\* threads drain at once and wherever calls fail or the process dies, every
\* event the persisted cursor has passed is in a persisted segment.
THEOREM NothingSkipped ==
    ASSUME Compactors = {}
    PROVE  Spec => []SegmentedEventsAreSealed
<1> DEFINE Inv == NoCompaction /\ CursorInv
<1>1. Init => Inv
  BY DEF Init, NoCompaction, NoJob, CursorInv, SegmentedEventsAreSealed, WindowsCovered,
         WindowCovered
<1>2. TypeInv /\ TypeInv' /\ Inv /\ [Next]_vars => Inv'
  BY NoCompactionStep, CursorStep
<1>3. Inv => SegmentedEventsAreSealed
  BY DEF CursorInv
<1> HIDE DEF Inv
<1>4. QED
  BY <1>1, <1>2, <1>3, TypesInvariant, PTL DEF Spec

\* While a call uploads, its manifest's segments are at the sink or among
\* those it still has to send.
UploadResolves(t) ==
    pc[t] = "uploading" => job[t].man.segs \subseteq sinkSegments \cup job[t].out
UploadInv == ManifestsAreRestorable /\ \A t \in Threads : UploadResolves(t)

LEMMA UploadStays ==
    ASSUME NEW t \in Threads, UploadInv, sinkSegments \subseteq sinkSegments',
           sinkManifests' = sinkManifests, UploadResolves(t)',
           \A u \in Threads \ {t} : pc'[u] = pc[u] /\ job'[u] = job[u]
    PROVE  UploadInv'
<1>1. ManifestsAreRestorable'
  BY DEF UploadInv, ManifestsAreRestorable
<1>2. ASSUME NEW u \in Threads PROVE UploadResolves(u)'
  BY DEF UploadInv, UploadResolves
<1>3. QED
  BY <1>1, <1>2 DEF UploadInv

LEMMA UploadStep ==
    ASSUME TypeInv, CutsAgree, NoCompaction, Compactors = {}, UploadInv, [Next]_vars
    PROVE  UploadInv'
<1>1. ASSUME NEW t \in Threads, NEW result, Return(t, result), UNCHANGED sinkManifests,
             sinkSegments \subseteq sinkSegments'
      PROVE  UploadInv'
  <2>1. UploadResolves(t)' /\ \A u \in Threads \ {t} : pc'[u] = pc[u] /\ job'[u] = job[u]
    BY <1>1, CallState, ReturnFrame DEF UploadResolves
  <2>2. QED
    BY <1>1, <2>1, UploadStays
<1>2. ASSUME NEW t \in Threads, NEW where, NEW j, Goto(t, where, j),
             UNCHANGED sinkManifests, sinkSegments \subseteq sinkSegments',
             where = "uploading" => j.man.segs \subseteq sinkSegments' \cup j.out
      PROVE  UploadInv'
  <2>1. UploadResolves(t)' /\ \A u \in Threads \ {t} : pc'[u] = pc[u] /\ job'[u] = job[u]
    BY <1>2, CallState, GotoFrame DEF UploadResolves
  <2>2. QED
    BY <1>2, <2>1, UploadStays
<1>3. ASSUME NEW t \in Threads, CommitIncremental(t) PROVE UploadInv'
  <2>1. job[t].man.segs = job[t].out
    BY <1>3 DEF CommitIncremental, CutsAgree, CutAgrees
  <2>2. UNCHANGED <<sinkSegments, sinkManifests>>
    BY <1>3 DEF CommitIncremental, world
  <2>3. Goto(t, "uploading", job[t]) \/ Return(t, "done")
    BY <1>3 DEF CommitIncremental
  <2>4. QED
    BY <1>1, <1>2, <2>1, <2>2, <2>3
<1>4. ASSUME NEW t \in Threads, UploadSegment(t) PROVE UploadInv'
  <2>1. PICK s \in job[t].out : /\ sinkSegments' = sinkSegments \cup {s}
                                /\ Goto(t, "uploading", [job[t] EXCEPT !.out = @ \ {s}])
    BY <1>4 DEF UploadSegment
  <2> DEFINE j == [job[t] EXCEPT !.out = @ \ {s}]
  <2>2. IsJob(job[t]) /\ j = [job[t] EXCEPT !.out = @ \ {s}] /\ Goto(t, "uploading", j)
    BY <2>1, CallState
  <2> HIDE DEF j
  <2>3. j.man = job[t].man /\ j.out = job[t].out \ {s}
    BY <2>2 DEF IsJob
  <2>4. job[t].man.segs \subseteq sinkSegments \cup job[t].out
    BY <1>4 DEF UploadSegment, Uploading, UploadInv, UploadResolves
  <2>5. UNCHANGED sinkManifests
    BY <1>4 DEF UploadSegment
  <2>6. QED
    BY <1>2, <2>1, <2>2, <2>3, <2>4, <2>5
<1>5. ASSUME NEW t \in Threads, NEW result, Return(t, result), pc[t] = "uploading",
             job[t].out = {}, sinkManifests' = sinkManifests \cup {job[t].man},
             UNCHANGED sinkSegments
      PROVE  UploadInv'
  <2>1. job[t].man.segs \subseteq sinkSegments
    BY <1>5 DEF UploadInv, UploadResolves
  <2>2. ManifestsAreRestorable'
    BY <1>5, <2>1 DEF UploadInv, ManifestsAreRestorable
  <2>3. ASSUME NEW u \in Threads PROVE UploadResolves(u)'
    BY <1>5, CallState, ReturnFrame DEF UploadInv, UploadResolves
  <2>4. QED
    BY <2>2, <2>3 DEF UploadInv
<1>6. ASSUME NEW t \in Threads, UploadManifest(t) PROVE UploadInv'
  BY <1>5, <1>6 DEF UploadManifest, Uploading
<1>7. ASSUME NEW t \in Threads, UploadFails(t) PROVE UploadInv'
  <2>1. pc[t] = "uploading" /\ Return(t, "failed")
    BY <1>7 DEF UploadFails, Uploading
  <2>2. CASE UNCHANGED world
    BY <1>1, <2>1, <2>2 DEF world
  <2>3. CASE \E s \in job[t].out : /\ sinkSegments' = sinkSegments \cup {s}
                                   /\ UNCHANGED <<online, sinkManifests>>
    BY <1>1, <2>1, <2>3
  <2>4. CASE /\ job[t].out = {}
             /\ sinkManifests' = sinkManifests \cup {job[t].man}
             /\ UNCHANGED <<online, sinkSegments>>
    BY <1>5, <2>1, <2>4
  <2>5. QED
    BY <1>7, <2>2, <2>3, <2>4 DEF UploadFails
<1>8. ASSUME NEW t \in Threads, Read(t) \/ CutIncremental(t) \/ PersistIncremental(t)
                                \/ Materialise(t)
      PROVE  UploadInv'
  <2>1. UNCHANGED <<sinkSegments, sinkManifests>>
    BY <1>8 DEF Read, CutIncremental, PersistIncremental, Materialise, world
  <2>2. QED
    BY <1>2, <1>8, <2>1 DEF Read, CutIncremental, PersistIncremental, Materialise
<1>9. ASSUME NEW t \in Threads, Defer(t) \/ KeysMissing(t) \/ CursorRefused(t)
                                \/ PersistFails(t) \/ InstallKeys(t)
      PROVE  UploadInv'
  <2>1. UNCHANGED <<sinkSegments, sinkManifests>>
    BY <1>9 DEF Defer, KeysMissing, CursorRefused, PersistFails, InstallKeys, world
  <2>2. QED
    BY <1>1, <1>9, <2>1 DEF Defer, KeysMissing, CursorRefused, PersistFails, InstallKeys
<1>10. \A t \in Threads : ~Compaction(t)
  BY DEF Compaction, Compact, CutCompaction, PersistCompaction, DuplicateRow,
         CommitCompaction, NoCompaction
<1>11. CASE Crash
  BY <1>11 DEF Crash, world, UploadInv, ManifestsAreRestorable, UploadResolves
<1>12. CASE Journalling \/ InstallSink \/ GoOnline \/ GoOffline \/ UNCHANGED vars
  <2>1. UNCHANGED <<pc, job, sinkSegments, sinkManifests>>
    BY <1>12, JournallingAppends, TypeParts
       DEF InstallSink, GoOnline, GoOffline, vars, JournalOnly, TypeInv, world
  <2>2. QED
    BY <2>1 DEF UploadInv, ManifestsAreRestorable, UploadResolves
<1>13. QED
  BY <1>3, <1>4, <1>6, <1>7, <1>8, <1>9, <1>10, <1>11, <1>12
     DEF Next, Incremental, Upload, Install

\* A half-failed backup leaves no dangling manifest: on a device that never
\* compacts, every manifest the sink holds refers to segments the sink holds,
\* however many drains run at once and wherever an upload fails.
THEOREM NothingDangles ==
    ASSUME Compactors = {}
    PROVE  Spec => []ManifestsAreRestorable
<1> DEFINE Inv == NoCompaction /\ CutsAgree /\ UploadInv
<1>1. Init => Inv
  BY DEF Init, NoCompaction, NoJob, CutsAgree, CutAgrees, UploadInv, UploadResolves,
         ManifestsAreRestorable
<1>2. TypeInv /\ Inv /\ [Next]_vars => Inv'
  BY NoCompactionStep, CutsAgreeStep, UploadStep
<1>3. Inv => ManifestsAreRestorable
  BY DEF UploadInv
<1> HIDE DEF Inv
<1>4. QED
  BY <1>1, <1>2, <1>3, TypesInvariant, PTL DEF Spec
-----------------------------------------------------------------------------
(* One call at a time, of whatever kind: drains, compactions and key         *)
(* installations follow each other on one thread, and fail and crash anywhere. *)

\* No event is in two of the segments.
Apart(S) == \A r, s \in S : r # s => r.seqs \cap s.seqs = {}

\* What reached the sink is the persisted tail or was it before.
SinkIsOlder == \A m \in sinkManifests : m.gen < dbTail.gen \/ m = dbTail

LedgerOnDisk ==
    /\ Apart(dbLedger)
    /\ SealedIn(dbLedger) \subseteq 1..cursor
    /\ \A s \in dbLedger : s.id <= minted

TailInStep(t) ==
    /\ pc[t] # "persisted" => tail = dbTail
    /\ pc[t] = "cut" => job[t].man.gen > dbTail.gen
    /\ pc[t] \in {"persisted", "uploading"} => job[t].man = dbTail

LedgerInStep(t) ==
    /\ keys /\ pc[t] # "persisted" => ledger = SetToBag(dbLedger)
    /\ pc[t] = "materialised" => job[t].rest = SetToBag(dbLedger)

DrainInStep(t) ==
    job[t].kind = "incremental" =>
        /\ pc[t] \in {"read", "cut"} => job[t].seqs \subseteq cursor + 1..job[t].last
        /\ pc[t] = "cut" =>
              /\ keys
              /\ \E s \in Segment : /\ job[t].out = {s} /\ s.seqs = job[t].seqs
                                    /\ s \notin dbLedger /\ s.id <= minted
        /\ pc[t] = "persisted" => ledger (+) SetToBag(job[t].out) = SetToBag(dbLedger)

CompactionInStep(t) ==
    job[t].kind = "compaction" =>
        /\ pc[t] \in {"read", "cut"} =>
              /\ job[t].rest = SetToBag(BagToSet(job[t].rest))
              /\ Apart(BagToSet(job[t].rest))
              /\ SealedIn(BagToSet(job[t].rest)) \subseteq SealedIn(dbLedger)
              /\ \A s \in BagToSet(job[t].rest) : s.id <= minted
        /\ pc[t] = "persisted" => job[t].rest = SetToBag(dbLedger)

DiskInv == SinkIsOlder /\ ChainIsLinear /\ LedgerOnDisk
InStep(t) == TailInStep(t) /\ LedgerInStep(t) /\ DrainInStep(t) /\ CompactionInStep(t)
SerialInv == DiskInv /\ \A t \in Threads : InStep(t)

\* Ledgers in which every segment has one row.
LEMMA BagOfUnion ==
    ASSUME NEW S, NEW T, S \cap T = {}
    PROVE  SetToBag(S) (+) SetToBag(T) = SetToBag(S \cup T)
<1> DEFINE b == SetToBag(S) (+) SetToBag(T)
<1>1. b = [e \in S \cup T |-> (IF e \in S THEN 1 ELSE 0) + (IF e \in T THEN 1 ELSE 0)]
  BY DEF (+), SetToBag
<1>2. \A e \in S \cup T : (IF e \in S THEN 1 ELSE 0) + (IF e \in T THEN 1 ELSE 0) = 1
  OBVIOUS
<1>3. QED
  BY <1>1, <1>2 DEF SetToBag

LEMMA BagOfRest ==
    ASSUME NEW S, NEW T
    PROVE  [e \in DOMAIN SetToBag(S) \ T |-> SetToBag(S)[e]] = SetToBag(S \ T)
BY DEF SetToBag

LEMMA BagOfSet ==
    ASSUME NEW S
    PROVE  BagToSet(SetToBag(S)) = S /\ DOMAIN SetToBag(S) = S
BY DEF SetToBag, BagToSet

LEMMA AloneGoto ==
    ASSUME NEW a, Threads = {a}, TypeInv, NEW where, NEW j, Goto(a, where, j)
    PROVE  pc'[a] = where /\ job'[a] = j
BY GotoFrame, CallState

LEMMA AloneReturn ==
    ASSUME NEW a, Threads = {a}, TypeInv, NEW result, Return(a, result)
    PROVE  pc'[a] = "idle" /\ job'[a] = NoJob /\ job'[a].kind = "none"
<1>1. pc'[a] = "idle" /\ job'[a] = NoJob
  BY ReturnFrame, CallState
<1>2. NoJob.kind = "none"
  BY DEF NoJob
<1>3. QED
  BY <1>1, <1>2

LEMMA DiskStays ==
    ASSUME TypeInv, DiskInv, UNCHANGED <<dbLedger, dbTail, cursor>>,
           minted' \in {minted, minted + 1},
           sinkManifests' \in {sinkManifests, sinkManifests \cup {dbTail}}
    PROVE  DiskInv'
<1>1. minted \in Nat /\ \A s \in dbLedger : s.id \in Nat
  BY TypeParts DEF TypeInv, DataOK, Segment
<1>2. \A s \in dbLedger : s.id <= minted => s.id <= minted'
  BY <1>1
<1>3. LedgerOnDisk'
  BY <1>2 DEF DiskInv, LedgerOnDisk, SealedIn, Apart
<1>4. SinkIsOlder' /\ ChainIsLinear'
  BY DEF DiskInv, SinkIsOlder, ChainIsLinear
<1>5. QED
  BY <1>3, <1>4 DEF DiskInv

\* A call that returns before its SAVEPOINT, or after its commit, leaves
\* memory and disk as they are.
LEMMA SerialReturn ==
    ASSUME NEW a, Threads = {a}, TypeInv, SerialInv, NEW result, Return(a, result),
           UNCHANGED <<dbLedger, dbTail, cursor, minted, keys, ledger, tail>>,
           sinkManifests' \in {sinkManifests, sinkManifests \cup {dbTail}},
           pc[a] # "persisted"
    PROVE  SerialInv'
<1>1. DiskInv'
  BY DiskStays DEF SerialInv
<1>2. pc'[a] = "idle" /\ job'[a] = NoJob /\ job'[a].kind = "none"
  BY AloneReturn
<1>3. InStep(a)
  BY DEF SerialInv
<1>4. TailInStep(a)' /\ LedgerInStep(a)'
  BY <1>2, <1>3 DEF InStep, TailInStep, LedgerInStep
<1>5. DrainInStep(a)' /\ CompactionInStep(a)'
  BY <1>2 DEF DrainInStep, CompactionInStep
<1>6. QED
  BY <1>1, <1>4, <1>5 DEF SerialInv, InStep

LEMMA SerialRead ==
    ASSUME NEW a, Threads = {a}, TypeInv, SerialInv, Read(a)
    PROVE  SerialInv'
<1>1. PICK last \in Drainable :
         /\ \A i \in Drainable : i <= last
         /\ Goto(a, "read", [NoJob EXCEPT !.kind = "incremental",
                                          !.seqs = Drainable, !.last = last])
  BY DEF Read
<1> DEFINE j == [NoJob EXCEPT !.kind = "incremental", !.seqs = Drainable, !.last = last]
<1>2. pc'[a] = "read" /\ job'[a] = j
  BY <1>1, AloneGoto
<1>3. j.kind = "incremental" /\ j.seqs = Drainable /\ j.last = last
  BY DEF NoJob
<1>4. /\ UNCHANGED <<dbLedger, dbTail, cursor, minted, keys, ledger, tail, sinkManifests>>
      /\ pc[a] = "idle"
  BY DEF Read, durable, chain, world
<1>5. Drainable \subseteq cursor + 1..last
  <2>1. cursor \in Nat /\ DOMAIN journal \subseteq Nat
    BY JournalTyped, CallState
  <2>2. QED
    BY <1>1, <2>1 DEF Drainable, Window
<1> HIDE DEF j
<1>6. DiskInv'
  BY <1>4, DiskStays DEF SerialInv
<1>7. InStep(a)
  BY DEF SerialInv
<1>8. TailInStep(a)' /\ LedgerInStep(a)'
  BY <1>2, <1>4, <1>7 DEF InStep, TailInStep, LedgerInStep
<1>9. DrainInStep(a)' /\ CompactionInStep(a)'
  BY <1>2, <1>3, <1>4, <1>5 DEF DrainInStep, CompactionInStep
<1>10. QED
  BY <1>6, <1>8, <1>9 DEF SerialInv, InStep

LEMMA SerialCutIncremental ==
    ASSUME NEW a, Threads = {a}, TypeInv, SerialInv, CutIncremental(a)
    PROVE  SerialInv'
<1> DEFINE s == SealedSegment(job[a].seqs, minted + 1)
           man == NextManifest({s}, minted + 1)
           j == [job[a] EXCEPT !.out = {s}, !.man = man]
<1>1. pc'[a] = "cut" /\ job'[a] = j
  BY AloneGoto DEF CutIncremental
<1>2. s \in Segment /\ s.seqs = job[a].seqs /\ s.id = minted + 1
  BY SealedSegmentTyped DEF SealedSegment
<1>3. man.gen = tail.gen + 1
  BY DEF NextManifest
<1> HIDE DEF s, man
<1>4. /\ j.kind = job[a].kind /\ j.out = {s} /\ j.man = man /\ j.seqs = job[a].seqs
      /\ j.last = job[a].last
  <2>1. IsJob(job[a])
    BY CallState
  <2>2. QED
    BY <2>1 DEF IsJob
<1>5. /\ UNCHANGED <<dbLedger, dbTail, cursor, keys, ledger, tail, sinkManifests>>
      /\ minted' = minted + 1
      /\ pc[a] = "read" /\ job[a].kind = "incremental" /\ keys
  BY DEF CutIncremental, durable, chain, world
<1> HIDE DEF j
<1>6. DiskInv'
  BY <1>5, DiskStays DEF SerialInv
<1>7. InStep(a) /\ minted \in Nat /\ tail \in Manifest /\ \A r \in dbLedger : r.id <= minted
  BY TypeParts DEF SerialInv, TypeInv, DataOK, DiskInv, LedgerOnDisk
<1>8. man.gen > tail.gen /\ tail = dbTail
  <2>1. tail.gen \in Int
    BY <1>7 DEF Manifest
  <2>2. QED
    BY <1>3, <1>5, <1>7, <2>1 DEF InStep, TailInStep
<1>9. TailInStep(a)' /\ LedgerInStep(a)'
  BY <1>1, <1>4, <1>5, <1>7, <1>8 DEF InStep, TailInStep, LedgerInStep
<1>10. s \notin dbLedger /\ s.id <= minted'
  BY <1>2, <1>5, <1>7
<1>11. DrainInStep(a)'
  BY <1>1, <1>2, <1>4, <1>5, <1>7, <1>10 DEF InStep, DrainInStep
<1>12. CompactionInStep(a)'
  BY <1>1, <1>4, <1>5 DEF CompactionInStep
<1>13. QED
  BY <1>6, <1>9, <1>11, <1>12 DEF SerialInv, InStep

\* A manifest under the tail replaces the tail: the chain stays linear.
LEMMA TailMoves ==
    ASSUME NEW a \in Threads, TypeInv, SinkIsOlder, ChainIsLinear, UNCHANGED sinkManifests,
           dbTail' = job[a].man, job[a].man.gen > dbTail.gen
    PROVE  SinkIsOlder' /\ ChainIsLinear'
<1>1. dbTail \in Manifest /\ job[a].man \in Manifest /\ sinkManifests \subseteq Manifest
  BY CallState, JobFields DEF DataOK
<1>2. dbTail.gen \in Int /\ dbTail'.gen \in Int /\ \A m \in sinkManifests : m.gen \in Int
  BY <1>1 DEF Manifest
<1>3. \A m \in sinkManifests : m.gen < dbTail'.gen
  BY <1>2 DEF SinkIsOlder
<1>4. \A m \in sinkManifests : m.gen # dbTail'.gen
  BY <1>2, <1>3
<1>5. SinkIsOlder'
  BY <1>3 DEF SinkIsOlder
<1>6. ChainIsLinear'
  BY <1>4 DEF ChainIsLinear
<1>7. QED
  BY <1>5, <1>6

\* The new row holds only rows behind the cursor's new place and before its
\* old one.
LEMMA SerialPersistIncremental ==
    ASSUME NEW a, Threads = {a}, TypeInv, SerialInv, PersistIncremental(a)
    PROVE  SerialInv'
<1>1. pc'[a] = "persisted" /\ job'[a] = job[a]
  BY AloneGoto DEF PersistIncremental
<1>2. /\ UNCHANGED <<keys, ledger, tail, minted, sinkManifests>>
      /\ pc[a] = "cut" /\ job[a].kind = "incremental" /\ job[a].last >= cursor
      /\ cursor' = job[a].last /\ dbLedger' = dbLedger \cup job[a].out /\ dbTail' = job[a].man
  BY DEF PersistIncremental, chain, world
<1>3. InStep(a) /\ DiskInv
  BY DEF SerialInv
<1>4. /\ cursor \in Nat /\ minted \in Nat /\ job[a].last \in Nat
      /\ dbTail \in Manifest /\ job[a].man \in Manifest /\ sinkManifests \subseteq Manifest
  BY CallState, JobFields DEF DataOK
<1>5. PICK s \in Segment : /\ job[a].out = {s} /\ s.seqs = job[a].seqs
                           /\ s \notin dbLedger /\ s.id <= minted
  BY <1>2, <1>3 DEF InStep, DrainInStep
<1>6. keys /\ job[a].seqs \subseteq cursor + 1..job[a].last
  BY <1>2, <1>3 DEF InStep, DrainInStep
<1>7. LedgerOnDisk'
  <2>1. Apart(dbLedger) /\ SealedIn(dbLedger) \subseteq 1..cursor /\ \A r \in dbLedger : r.id <= minted
    BY <1>3 DEF DiskInv, LedgerOnDisk
  <2>2. dbLedger' = dbLedger \cup {s}
    BY <1>2, <1>5
  <2>3. \A r \in dbLedger : r.seqs \subseteq 1..cursor
    BY <2>1 DEF SealedIn
  <2>4. \A r \in dbLedger : r.seqs \cap s.seqs = {}
    BY <1>4, <1>5, <1>6, <2>3
  <2>5. Apart(dbLedger)'
    BY <2>1, <2>2, <2>4 DEF Apart
  <2>6. \A r \in dbLedger' : r.seqs \subseteq 1..cursor'
    BY <1>2, <1>4, <1>5, <1>6, <2>2, <2>3
  <2>7. (SealedIn(dbLedger) \subseteq 1..cursor)'
    BY <2>6 DEF SealedIn
  <2>8. (\A r \in dbLedger : r.id <= minted)'
    BY <1>2, <1>5, <2>1, <2>2
  <2>9. QED
    BY <2>5, <2>7, <2>8 DEF LedgerOnDisk
<1>10. SinkIsOlder' /\ ChainIsLinear'
  BY <1>2, <1>3, TailMoves DEF InStep, TailInStep, DiskInv
<1>11. TailInStep(a)' /\ LedgerInStep(a)'
  BY <1>1, <1>2 DEF TailInStep, LedgerInStep
<1>12. DrainInStep(a)'
  <2>1. ledger = SetToBag(dbLedger)
    BY <1>2, <1>3, <1>6 DEF InStep, LedgerInStep
  <2>2. dbLedger \cap job[a].out = {}
    BY <1>5
  <2>3. ledger (+) SetToBag(job[a].out) = SetToBag(dbLedger')
    BY <1>2, <2>1, <2>2, BagOfUnion
  <2>4. QED
    BY <1>1, <1>2, <2>3 DEF DrainInStep
<1>13. CompactionInStep(a)'
  BY <1>1, <1>2 DEF CompactionInStep
<1>14. QED
  BY <1>7, <1>10, <1>11, <1>12, <1>13 DEF SerialInv, DiskInv, InStep

LEMMA SerialCommit ==
    ASSUME NEW a, Threads = {a}, TypeInv, SerialInv,
           CommitIncremental(a) \/ CommitCompaction(a)
    PROVE  SerialInv'
<1>1. /\ UNCHANGED <<dbLedger, dbTail, cursor, keys, minted, sinkManifests>>
      /\ pc[a] = "persisted" /\ tail' = job[a].man
      /\ Goto(a, "uploading", job[a]) \/ Return(a, "done")
  BY DEF CommitIncremental, CommitCompaction, durable, world
<1>2. \/ job[a].kind = "incremental" /\ ledger' = ledger (+) SetToBag(job[a].out)
      \/ job[a].kind = "compaction" /\ ledger' = job[a].rest
  BY DEF CommitIncremental, CommitCompaction
<1>3. InStep(a)
  BY DEF SerialInv
<1>4. ledger' = SetToBag(dbLedger)
  BY <1>1, <1>2, <1>3 DEF InStep, DrainInStep, CompactionInStep
<1>5. job[a].man = dbTail
  BY <1>1, <1>3 DEF InStep, TailInStep
<1>6. DiskInv'
  BY <1>1, DiskStays DEF SerialInv
<1>7. CASE Goto(a, "uploading", job[a])
  <2>1. pc'[a] = "uploading" /\ job'[a] = job[a]
    BY <1>7, AloneGoto
  <2>2. InStep(a)'
    BY <1>1, <1>4, <1>5, <2>1
       DEF InStep, TailInStep, LedgerInStep, DrainInStep, CompactionInStep
  <2>3. QED
    BY <1>6, <2>2 DEF SerialInv
<1>8. CASE Return(a, "done")
  <2>1. pc'[a] = "idle" /\ job'[a].kind = "none"
    BY <1>8, AloneReturn
  <2>2. InStep(a)'
    BY <1>1, <1>4, <1>5, <2>1
       DEF InStep, TailInStep, LedgerInStep, DrainInStep, CompactionInStep
  <2>3. QED
    BY <1>6, <2>2 DEF SerialInv
<1>9. QED
  BY <1>1, <1>7, <1>8

\* CompactionPolicy::plan puts a segment of the ledger in one group at most.
LEMMA GroupsInside ==
    ASSUME NEW b, NEW now, NEW g \in Plan(b, now)
    PROVE  g \subseteq DOMAIN b
BY DEF Plan

LEMMA GroupsApart ==
    ASSUME NEW b, NEW now, NEW g \in Plan(b, now), NEW h \in Plan(b, now), g # h
    PROVE  g \cap h = {}
<1> DEFINE old == {s \in DOMAIN b : Aged(s, now)}
<1>1. \A k \in Plan(b, now) : \E s \in old : k = {r \in old : Bucket(r) = Bucket(s)}
  BY DEF Plan
<1> HIDE DEF old
<1>2. QED
  BY <1>1

\* What a compaction seals is made of the rows of the segments it drops, so
\* the ledger it prepares seals nothing twice, and nothing that was not sealed.
LEMMA CompactedLedger ==
    ASSUME NEW L, L \subseteq Segment, Apart(L), NEW groups, \A g \in groups : g \subseteq L,
           \A g, h \in groups : g # h => g \cap h = {}, NEW id,
           NEW outputs, \A s \in outputs : \E g \in groups : s = GroupSegment(g, id)
    PROVE  /\ Apart((L \ UNION groups) \cup outputs)
           /\ SealedIn((L \ UNION groups) \cup outputs) \subseteq SealedIn(L)
<1>1. \A g : GroupSegment(g, id).seqs \subseteq SealedIn(g)
  BY DEF GroupSegment, Survivors, SealedIn
<1>2. \A g, h \in groups : g # h => SealedIn(g) \cap SealedIn(h) = {}
  <2>1. SUFFICES ASSUME NEW g \in groups, NEW h \in groups, g # h,
                        NEW q \in g, NEW r \in h
                 PROVE  q.seqs \cap r.seqs = {}
    BY DEF SealedIn
  <2>2. q # r /\ q \in L /\ r \in L
    BY <2>1
  <2>3. QED
    BY <2>2 DEF Apart
<1>3. ASSUME NEW r \in outputs, NEW s \in outputs, r # s PROVE r.seqs \cap s.seqs = {}
  <2>1. PICK g \in groups : r = GroupSegment(g, id)
    OBVIOUS
  <2>2. PICK h \in groups : s = GroupSegment(h, id)
    OBVIOUS
  <2>3. SealedIn(g) \cap SealedIn(h) = {}
    BY <1>2, <1>3, <2>1, <2>2
  <2>4. r.seqs \subseteq SealedIn(g) /\ s.seqs \subseteq SealedIn(h)
    BY <1>1, <2>1, <2>2
  <2>5. QED
    BY <2>3, <2>4
<1>4. ASSUME NEW r \in outputs, NEW s \in L \ UNION groups PROVE r.seqs \cap s.seqs = {}
  <2>1. PICK g \in groups : r = GroupSegment(g, id)
    OBVIOUS
  <2>2. \A q \in g : q \in L /\ q # s
    OBVIOUS
  <2>3. \A q \in g : q.seqs \cap s.seqs = {}
    BY <2>2 DEF Apart
  <2>4. r.seqs \subseteq SealedIn(g)
    BY <1>1, <2>1
  <2>5. QED
    BY <2>3, <2>4 DEF SealedIn
<1>5. Apart((L \ UNION groups) \cup outputs)
  BY <1>3, <1>4 DEF Apart
<1>6. ASSUME NEW s \in outputs PROVE s.seqs \subseteq SealedIn(L)
  <2>1. PICK g \in groups : s = GroupSegment(g, id)
    OBVIOUS
  <2>2. s.seqs \subseteq SealedIn(g) /\ g \subseteq L
    BY <1>1, <2>1
  <2>3. QED
    BY <2>2 DEF SealedIn
<1>7. QED
  BY <1>5, <1>6 DEF SealedIn

\* What compact_backup replaces, by what, and the ledger it prepares.
Outputs(groups) == {s \in {GroupSegment(g, minted + 1) : g \in groups} : s.seqs # {}}
Compacted(groups) == (dbLedger \ UNION groups) \cup Outputs(groups)

LEMMA OutputsAre ==
    ASSUME NEW groups
    PROVE  \A s \in Outputs(groups) :
              s.id = minted + 1 /\ \E g \in groups : s = GroupSegment(g, minted + 1)
<1>1. \A g \in groups : GroupSegment(g, minted + 1).id = minted + 1
  BY DEF GroupSegment
<1>2. \A s \in Outputs(groups) : \E g \in groups : s = GroupSegment(g, minted + 1)
  BY DEF Outputs
<1>3. QED
  BY <1>1, <1>2

\* Where the ledger mirrors the disk, that is what the call holds.
LEMMA CompactPrepares ==
    ASSUME NEW a, Threads = {a}, TypeInv, SerialInv, NEW now, Compact(a, now)
    PROVE  /\ \A g \in Plan(ledger, now) : g \subseteq dbLedger
           /\ \A g, h \in Plan(ledger, now) : g # h => g \cap h = {}
           /\ pc'[a] = "read" /\ job'[a].kind = "compaction"
           /\ job'[a].rest = SetToBag(Compacted(Plan(ledger, now)))
<1> DEFINE groups == Plan(ledger, now)
           kept == [s \in DOMAIN ledger \ UNION groups |-> ledger[s]]
           rest == kept (+) SetToBag(Outputs(groups))
           j == [NoJob EXCEPT !.kind = "compaction", !.out = Outputs(groups), !.rest = rest]
<1>1. Goto(a, "read", j) /\ keys /\ pc[a] = "idle"
  BY DEF Compact, Outputs
<1>2. j.kind = "compaction" /\ j.rest = rest
  BY DEF NoJob
<1>3. pc'[a] = "read" /\ job'[a] = j
  BY <1>1, AloneGoto
<1> HIDE DEF j
<1>4. ledger = SetToBag(dbLedger) /\ \A s \in dbLedger : s.id <= minted
  BY <1>1 DEF SerialInv, InStep, LedgerInStep, DiskInv, LedgerOnDisk
<1>5. DOMAIN ledger = dbLedger
  BY <1>4, BagOfSet
<1>6. kept = SetToBag(dbLedger \ UNION groups)
  <2> HIDE DEF groups
  <2>1. QED
    BY <1>4, BagOfRest
<1>7. minted \in Nat /\ \A s \in dbLedger : s.id \in Nat
  BY TypeParts DEF TypeInv, DataOK, Segment
<1>8. dbLedger \cap Outputs(groups) = {}
  <2> HIDE DEF groups
  <2>1. \A s \in dbLedger : s.id # minted + 1
    BY <1>4, <1>7
  <2>2. QED
    BY <2>1, OutputsAre
<1>9. rest = SetToBag(Compacted(groups))
  <2> HIDE DEF kept, groups
  <2>1. (dbLedger \ UNION groups) \cap Outputs(groups) = {}
    BY <1>8
  <2>2. QED
    BY <1>6, <2>1, BagOfUnion DEF Compacted
<1>10. \A g \in groups : g \subseteq dbLedger
  BY <1>5, GroupsInside
<1>11. \A g, h \in groups : g # h => g \cap h = {}
  BY GroupsApart
<1> HIDE DEF rest
<1>12. QED
  BY <1>2, <1>3, <1>9, <1>10, <1>11

LEMMA SerialCompact ==
    ASSUME NEW a, Threads = {a}, TypeInv, SerialInv, NEW now, Compact(a, now)
    PROVE  SerialInv'
<1> DEFINE groups == Plan(ledger, now)
           after == Compacted(groups)
<1>1. /\ UNCHANGED <<dbLedger, dbTail, cursor, keys, ledger, tail, sinkManifests>>
      /\ minted' = minted + 1 /\ pc[a] = "idle"
  BY DEF Compact, durable, chain, world
<1>2. /\ \A g \in groups : g \subseteq dbLedger
      /\ \A g, h \in groups : g # h => g \cap h = {}
      /\ pc'[a] = "read" /\ job'[a].kind = "compaction"
      /\ job'[a].rest = SetToBag(after)
  BY CompactPrepares
<1> HIDE DEF groups
<1>3. DiskInv'
  BY <1>1, DiskStays DEF SerialInv
<1>4. InStep(a) /\ Apart(dbLedger) /\ \A s \in dbLedger : s.id <= minted
  BY DEF SerialInv, DiskInv, LedgerOnDisk
<1>5. minted \in Nat /\ dbLedger \subseteq Segment /\ \A s \in dbLedger : s.id \in Nat
  BY TypeParts DEF TypeInv, DataOK, Segment
<1>6. Apart(after) /\ SealedIn(after) \subseteq SealedIn(dbLedger)
  <2>1. \A s \in Outputs(groups) : \E g \in groups : s = GroupSegment(g, minted + 1)
    BY OutputsAre
  <2> DEFINE outputs == Outputs(groups)
             both == (dbLedger \ UNION groups) \cup outputs
  <2>2. after = both
    BY DEF Compacted
  <2> HIDE DEF outputs, after
  <2>3. \A s \in outputs : \E g \in groups : s = GroupSegment(g, minted + 1)
    BY <2>1 DEF outputs
  <2>4. Apart(both) /\ SealedIn(both) \subseteq SealedIn(dbLedger)
    BY <1>2, <1>4, <1>5, <2>3, CompactedLedger
  <2>5. QED
    BY <2>2, <2>4
<1>7. \A s \in after : s.id <= minted'
  BY <1>1, <1>4, <1>5, OutputsAre DEF Compacted
<1>8. BagToSet(job'[a].rest) = after
  BY <1>2, BagOfSet
<1> HIDE DEF after
<1>9. CompactionInStep(a)'
  <2>1. SealedIn(after) \subseteq SealedIn(dbLedger')
    BY <1>1, <1>6
  <2>2. QED
    BY <1>2, <1>6, <1>7, <1>8, <2>1 DEF CompactionInStep, SealedIn
<1>10. TailInStep(a)' /\ LedgerInStep(a)' /\ DrainInStep(a)'
  BY <1>1, <1>2, <1>4 DEF InStep, TailInStep, LedgerInStep, DrainInStep
<1>11. QED
  BY <1>3, <1>9, <1>10 DEF SerialInv, InStep

LEMMA SerialCutCompaction ==
    ASSUME NEW a, Threads = {a}, TypeInv, SerialInv, CutCompaction(a)
    PROVE  SerialInv'
<1> DEFINE man == NextManifest(BagToSet(job[a].rest), minted + 1)
           j == [job[a] EXCEPT !.man = man]
<1>1. pc'[a] = "cut" /\ job'[a] = j
  BY AloneGoto DEF CutCompaction
<1>2. man.gen = tail.gen + 1
  BY DEF NextManifest
<1> HIDE DEF man
<1>3. j.kind = job[a].kind /\ j.rest = job[a].rest /\ j.man = man
  <2>1. IsJob(job[a])
    BY CallState
  <2>2. QED
    BY <2>1 DEF IsJob
<1>4. /\ UNCHANGED <<dbLedger, dbTail, cursor, keys, ledger, tail, sinkManifests>>
      /\ minted' = minted + 1 /\ pc[a] = "read" /\ job[a].kind = "compaction"
  BY DEF CutCompaction, durable, chain, world
<1> HIDE DEF j
<1>5. DiskInv'
  BY <1>4, DiskStays DEF SerialInv
<1>6. InStep(a) /\ minted \in Nat /\ tail.gen \in Int
  BY TypeParts DEF SerialInv, TypeInv, DataOK, Manifest
<1>7. man.gen > tail.gen /\ tail = dbTail
  BY <1>2, <1>4, <1>6 DEF InStep, TailInStep
<1>8. TailInStep(a)' /\ LedgerInStep(a)' /\ DrainInStep(a)'
  BY <1>1, <1>3, <1>4, <1>6, <1>7 DEF InStep, TailInStep, LedgerInStep, DrainInStep
<1>9. CompactionInStep(a)'
  <2> DEFINE S == BagToSet(job[a].rest)
  <2>1. /\ job[a].rest = SetToBag(S) /\ Apart(S) /\ SealedIn(S) \subseteq SealedIn(dbLedger)
        /\ \A s \in S : s.id <= minted
    BY <1>4, <1>6 DEF InStep, CompactionInStep
  <2>2. S \subseteq Segment
    BY CallState, JobFields, LedgerEntries
  <2>3. \A s \in S : s.id <= minted'
    BY <1>4, <1>6, <2>1, <2>2 DEF Segment
  <2>4. BagToSet(job'[a].rest) = S /\ job'[a].rest = SetToBag(S)
    BY <1>1, <1>3, <2>1
  <2> HIDE DEF S
  <2>5. QED
    BY <1>1, <1>4, <2>1, <2>3, <2>4 DEF CompactionInStep, SealedIn
<1>10. QED
  BY <1>5, <1>8, <1>9 DEF SerialInv, InStep

LEMMA SerialPersistCompaction ==
    ASSUME NEW a, Threads = {a}, TypeInv, SerialInv, PersistCompaction(a)
    PROVE  SerialInv'
<1> DEFINE S == BagToSet(job[a].rest)
<1>1. pc'[a] = "persisted" /\ job'[a] = job[a]
  BY AloneGoto DEF PersistCompaction
<1>2. /\ UNCHANGED <<cursor, keys, ledger, tail, minted, sinkManifests>>
      /\ pc[a] = "cut" /\ job[a].kind = "compaction"
      /\ dbLedger' = S /\ dbTail' = job[a].man
  BY DEF PersistCompaction, chain, world
<1>3. InStep(a) /\ DiskInv
  BY DEF SerialInv
<1>4. /\ job[a].rest = SetToBag(S) /\ Apart(S) /\ SealedIn(S) \subseteq SealedIn(dbLedger)
      /\ \A s \in S : s.id <= minted
  BY <1>2, <1>3 DEF InStep, CompactionInStep
<1> HIDE DEF S
<1>5. LedgerOnDisk'
  <2>1. SealedIn(S) \subseteq 1..cursor
    BY <1>3, <1>4 DEF DiskInv, LedgerOnDisk
  <2>2. QED
    BY <1>2, <1>4, <2>1 DEF LedgerOnDisk, Apart, SealedIn
<1>6. SinkIsOlder' /\ ChainIsLinear'
  BY <1>2, <1>3, TailMoves DEF InStep, TailInStep, DiskInv
<1>7. TailInStep(a)' /\ LedgerInStep(a)' /\ DrainInStep(a)' /\ CompactionInStep(a)'
  BY <1>1, <1>2, <1>4 DEF TailInStep, LedgerInStep, DrainInStep, CompactionInStep
<1>8. QED
  BY <1>5, <1>6, <1>7 DEF SerialInv, DiskInv, InStep

\* The upload changes neither memory nor disk; what it publishes is the
\* persisted tail.
LEMMA SerialUpload ==
    ASSUME NEW a, Threads = {a}, TypeInv, SerialInv,
           UploadSegment(a) \/ UploadManifest(a) \/ UploadFails(a)
    PROVE  SerialInv'
<1>1. /\ UNCHANGED <<dbLedger, dbTail, cursor, minted, keys, ledger, tail>>
      /\ pc[a] = "uploading"
  BY DEF UploadSegment, UploadManifest, UploadFails, Uploading, durable, chain
<1>2. InStep(a)
  BY DEF SerialInv
<1>3. job[a].man = dbTail
  BY <1>1, <1>2 DEF InStep, TailInStep
<1>4. CASE UploadSegment(a)
  <2>1. PICK s \in job[a].out : Goto(a, "uploading", [job[a] EXCEPT !.out = @ \ {s}])
    BY <1>4 DEF UploadSegment
  <2> DEFINE j == [job[a] EXCEPT !.out = @ \ {s}]
  <2>2. j.man = job[a].man
    <3>1. IsJob(job[a])
      BY CallState
    <3>2. QED
      BY <3>1 DEF IsJob
  <2>3. pc'[a] = "uploading" /\ job'[a] = j
    BY <2>1, AloneGoto
  <2> HIDE DEF j
  <2>4. DiskInv'
    BY <1>1, <1>4, DiskStays DEF SerialInv, UploadSegment
  <2>5. InStep(a)'
    BY <1>1, <1>2, <1>3, <2>2, <2>3
       DEF InStep, TailInStep, LedgerInStep, DrainInStep, CompactionInStep
  <2>6. QED
    BY <2>4, <2>5 DEF SerialInv
<1>5. CASE UploadManifest(a)
  BY <1>1, <1>3, <1>5, SerialReturn DEF UploadManifest
<1>6. CASE UploadFails(a)
  <2>1. Return(a, "failed") /\ sinkManifests' \in {sinkManifests, sinkManifests \cup {dbTail}}
    BY <1>3, <1>6 DEF UploadFails, world
  <2>2. QED
    BY <1>1, <2>1, SerialReturn
<1>7. QED
  BY <1>4, <1>5, <1>6

\* The ledger an installation hydrates is the one on disk: no other call can
\* change it in between.
LEMMA SerialInstall ==
    ASSUME NEW a, Threads = {a}, TypeInv, SerialInv, Materialise(a) \/ InstallKeys(a)
    PROVE  SerialInv'
<1>1. /\ UNCHANGED <<dbLedger, dbTail, cursor, minted, tail, sinkManifests>>
      /\ pc[a] \in {"idle", "materialised"}
  BY DEF Materialise, InstallKeys, durable, chain, world
<1>2. InStep(a)
  BY DEF SerialInv
<1>3. DiskInv'
  BY <1>1, DiskStays DEF SerialInv
<1>4. CASE Materialise(a)
  <2> DEFINE j == [NoJob EXCEPT !.kind = "install", !.rest = SetToBag(dbLedger)]
  <2>1. Goto(a, "materialised", j) /\ UNCHANGED <<keys, ledger>> /\ pc[a] = "idle"
    BY <1>4 DEF Materialise, chain
  <2>2. j.kind = "install" /\ j.rest = SetToBag(dbLedger)
    BY DEF NoJob
  <2> HIDE DEF j
  <2>3. pc'[a] = "materialised" /\ job'[a] = j
    BY <2>1, AloneGoto
  <2>4. InStep(a)'
    BY <1>1, <1>2, <2>1, <2>2, <2>3
       DEF InStep, TailInStep, LedgerInStep, DrainInStep, CompactionInStep
  <2>5. QED
    BY <1>3, <2>4 DEF SerialInv
<1>5. CASE InstallKeys(a)
  <2>1. Return(a, "done") /\ ledger' = job[a].rest /\ pc[a] = "materialised"
    BY <1>5 DEF InstallKeys
  <2>2. pc'[a] = "idle" /\ job'[a].kind = "none"
    BY <2>1, AloneReturn
  <2>3. InStep(a)'
    BY <1>1, <1>2, <2>1, <2>2
       DEF InStep, TailInStep, LedgerInStep, DrainInStep, CompactionInStep
  <2>4. QED
    BY <1>3, <2>3 DEF SerialInv
<1>6. QED
  BY <1>4, <1>5

LEMMA SerialQuietReturn ==
    ASSUME NEW a, Threads = {a}, TypeInv, SerialInv,
           Defer(a) \/ KeysMissing(a) \/ CursorRefused(a) \/ DuplicateRow(a) \/ PersistFails(a)
    PROVE  SerialInv'
<1>1. UNCHANGED <<dbLedger, dbTail, cursor, minted, keys, ledger, tail, sinkManifests>>
  BY DEF Defer, KeysMissing, CursorRefused, DuplicateRow, PersistFails, durable, chain, world
<1>2. pc[a] # "persisted"
  BY DEF Defer, KeysMissing, CursorRefused, DuplicateRow, PersistFails
<1>3. Return(a, "deferred") \/ Return(a, "failed")
  BY DEF Defer, KeysMissing, CursorRefused, DuplicateRow, PersistFails
<1>4. QED
  BY <1>1, <1>2, <1>3, SerialReturn

LEMMA SerialDevice ==
    ASSUME TypeInv, SerialInv,
           Journalling \/ InstallSink \/ Crash \/ GoOnline \/ GoOffline \/ UNCHANGED vars
    PROVE  SerialInv'
<1>1. UNCHANGED <<dbLedger, dbTail, cursor, minted, sinkManifests>>
  BY JournallingAppends, TypeParts
     DEF InstallSink, Crash, GoOnline, GoOffline, vars, durable, chain, world, JournalOnly,
         TypeInv
<1>2. DiskInv'
  BY <1>1, DiskStays DEF SerialInv
<1>3. CASE Crash
  <2>1. ~keys' /\ tail' = dbTail /\ \A t \in Threads : pc'[t] = "idle" /\ job'[t] = NoJob
    BY <1>3 DEF Crash
  <2>2. NoJob.kind = "none"
    BY DEF NoJob
  <2>3. \A t \in Threads : InStep(t)'
    BY <1>1, <2>1, <2>2 DEF InStep, TailInStep, LedgerInStep, DrainInStep, CompactionInStep
  <2>4. QED
    BY <1>2, <2>3 DEF SerialInv
<1>4. CASE Journalling \/ InstallSink \/ GoOnline \/ GoOffline \/ UNCHANGED vars
  <2>1. UNCHANGED <<keys, ledger, tail, pc, job>>
    BY <1>4, JournallingAppends, TypeParts
       DEF InstallSink, GoOnline, GoOffline, vars, durable, chain, world, JournalOnly, TypeInv
  <2>2. \A t \in Threads : InStep(t)'
    BY <1>1, <2>1
       DEF SerialInv, InStep, TailInStep, LedgerInStep, DrainInStep, CompactionInStep, Apart,
           SealedIn
  <2>3. QED
    BY <1>2, <2>2 DEF SerialInv
<1>5. QED
  BY <1>3, <1>4

LEMMA SerialStep ==
    ASSUME NEW a, Threads = {a}, TypeInv, SerialInv, [Next]_vars
    PROVE  SerialInv'
<1>1. ASSUME NEW t \in Threads, \/ Defer(t) \/ Incremental(t) \/ Compaction(t) \/ Upload(t)
                                \/ UploadFails(t) \/ PersistFails(t) \/ Install(t)
      PROVE  SerialInv'
  <2>1. t = a
    OBVIOUS
  <2>2. CASE \/ Read(a) \/ CutIncremental(a) \/ PersistIncremental(a) \/ CommitIncremental(a)
    BY <2>2, SerialRead, SerialCutIncremental, SerialPersistIncremental, SerialCommit
  <2>3. CASE \/ \E now \in 0..MaxTime : Compact(a, now)
             \/ CutCompaction(a) \/ PersistCompaction(a) \/ CommitCompaction(a)
    BY <2>3, SerialCompact, SerialCutCompaction, SerialPersistCompaction, SerialCommit
  <2>4. CASE Upload(a) \/ UploadFails(a) \/ Install(a)
    BY <2>4, SerialUpload, SerialInstall DEF Upload, Install
  <2>5. CASE Defer(a) \/ KeysMissing(a) \/ CursorRefused(a) \/ DuplicateRow(a) \/ PersistFails(a)
    BY <2>5, SerialQuietReturn
  <2>6. QED
    BY <1>1, <2>1, <2>2, <2>3, <2>4, <2>5 DEF Incremental, Compaction
<1>2. QED
  BY <1>1, SerialDevice DEF Next

LEMMA SerialInit == Init => SerialInv
<1> SUFFICES ASSUME Init PROVE SerialInv
  OBVIOUS
<1>1. DiskInv
  BY DEF Init, DiskInv, SinkIsOlder, ChainIsLinear, LedgerOnDisk, Apart, SealedIn
<1>2. \A t \in Threads : InStep(t)
  BY DEF Init, NoJob, InStep, TailInStep, LedgerInStep, DrainInStep, CompactionInStep
<1>3. QED
  BY <1>1, <1>2 DEF SerialInv

LEMMA SerialInvariant ==
    ASSUME NEW CONSTANT a, Threads = {a}
    PROVE  Spec => []SerialInv
<1>1. Init => SerialInv
  BY SerialInit
<1>2. TypeInv /\ SerialInv /\ [Next]_vars => SerialInv'
  BY SerialStep
<1>3. QED
  BY <1>1, <1>2, TypesInvariant, PTL DEF Spec

\* Memory and disk agree: where calls do not overlap, whatever fails and
\* whenever the process dies, the coordinator's ledger and tail are those of
\* the database except between a call's SAVEPOINT and its commit.
THEOREM MemoryAgrees ==
    ASSUME NEW CONSTANT a, Threads = {a}
    PROVE  Spec => []MemoryMirrorsDisk
<1>1. SerialInv => MemoryMirrorsDisk
  BY DEF SerialInv, InStep, TailInStep, LedgerInStep, MemoryMirrorsDisk
<1>2. QED
  BY <1>1, SerialInvariant, PTL

\* The chain is linear: where calls do not overlap, no two manifests that left
\* the device share a generation, even when a manifest that reached the sink
\* was reported as lost, and across restarts.
THEOREM ChainStaysLinear ==
    ASSUME NEW CONSTANT a, Threads = {a}
    PROVE  Spec => []ChainIsLinear
<1>1. SerialInv => ChainIsLinear
  BY DEF SerialInv, DiskInv
<1>2. QED
  BY <1>1, SerialInvariant, PTL

\* Nothing is sealed twice: where calls do not overlap, drains and compactions
\* in any order leave every journal event in at most one row of the ledger.
THEOREM NothingSealedTwice ==
    ASSUME NEW CONSTANT a, Threads = {a}
    PROVE  Spec => []NoEventSealedTwice
<1>1. SerialInv => NoEventSealedTwice
  BY DEF SerialInv, DiskInv, LedgerOnDisk, Apart, NoEventSealedTwice
<1>2. QED
  BY <1>1, SerialInvariant, PTL

-----------------------------------------------------------------------------
(* What compaction may drop.                                                *)

IsDelete(row, m) == row.type = "deleted" /\ row.msg = m

\* Every row up to the n-th that announces a message is sealed, or a row up
\* to the n-th deletes that message.
Accounted(n, rows, S) ==
    \A i \in 1..n : rows[i].type = "received" =>
        i \in SealedIn(S) \/ \E j \in 1..n : IsDelete(rows[j], rows[i].msg)

\* A message is deleted after it is received, and not received again.
DeletesFollow ==
    \A i, j \in DOMAIN journal :
        journal[i].type = "received" /\ IsDelete(journal[j], journal[i].msg) => i < j
AbsentIsClean ==
    \A m \in AllMessages : store[m] = "absent" =>
        \A j \in DOMAIN journal : ~IsDelete(journal[j], m)
JournalOrder == cursor <= Len(journal) /\ DeletesFollow /\ AbsentIsClean

AliveInStep(t) ==
    pc[t] \in {"read", "cut"} =>
        /\ job[t].kind = "incremental" =>
              /\ job[t].last <= Len(journal)
              /\ \A i \in cursor + 1..job[t].last :
                    journal[i].type = "received" => i \in job[t].seqs
        /\ job[t].kind = "compaction" => Accounted(cursor, journal, BagToSet(job[t].rest))

AliveInv ==
    /\ JournalOrder
    /\ Accounted(cursor, journal, dbLedger)
    /\ \A t \in Threads : AliveInStep(t)

LEMMA AppendedRow ==
    ASSUME NEW J \in Seq(Event), NEW row, row \in Event, NEW K, K = Append(J, row)
    PROVE  /\ Len(K) = Len(J) + 1 /\ DOMAIN K = 1..Len(J) + 1
           /\ K[Len(J) + 1] = row /\ \A i \in 1..Len(J) : K[i] = J[i]
BY AppendProperties, LenProperties

\* What one journalling operation adds: rows that announce an absent message,
\* or rows that delete one and leave it recorded as deleted, never both.
LEMMA JournallingRows ==
    ASSUME TypeInv, Journalling, ~DropsConversations
    PROVE  /\ Len(journal) <= Len(journal') /\ DOMAIN journal' = 1..Len(journal')
           /\ Len(journal') \in Nat
           /\ \A i \in 1..Len(journal) : journal'[i] = journal[i]
           /\ \A i, j \in Len(journal) + 1..Len(journal') :
                 journal'[i].type = "received" =>
                    journal'[j].type # "deleted" /\ store[journal'[i].msg] = "absent"
           /\ \A j \in Len(journal) + 1..Len(journal'), m \in AllMessages :
                 IsDelete(journal'[j], m) => store'[m] # "absent"
           /\ \A m \in AllMessages : store'[m] = "absent" => store[m] = "absent"
<1>1. /\ journal \in Seq(Event) /\ Len(journal) \in Nat
      /\ store \in [AllMessages -> {"absent", "live", "deleted"}]
  BY TypeParts, LenProperties DEF TypeInv, DataOK
<1>2. ASSUME NEW type \in {"received", "edited", "outbox"}, NEW m \in AllMessages,
             Append1(type, m), type = "received" => store[m] = "absent",
             \A n \in AllMessages : store'[n] = "absent" => store[n] = "absent"
      PROVE  /\ Len(journal) <= Len(journal') /\ DOMAIN journal' = 1..Len(journal')
             /\ Len(journal') \in Nat
             /\ \A i \in 1..Len(journal) : journal'[i] = journal[i]
             /\ \A i, j \in Len(journal) + 1..Len(journal') :
                   journal'[i].type = "received" =>
                      journal'[j].type # "deleted" /\ store[journal'[i].msg] = "absent"
             /\ \A j \in Len(journal) + 1..Len(journal'), n \in AllMessages :
                   IsDelete(journal'[j], n) => store'[n] # "absent"
             /\ \A n \in AllMessages : store'[n] = "absent" => store[n] = "absent"
  <2>1. PICK at \in 0..MaxTime :
           journal' = Append(journal, [type |-> type, msg |-> m, at |-> at])
    BY <1>2 DEF Append1
  <2> DEFINE row == [type |-> type, msg |-> m, at |-> at]
  <2>2. row \in Event /\ row.type = type /\ row.msg = m
    BY <2>1, NumbersAssumption DEF Event, Typed
  <2>3. journal' = Append(journal, row)
    BY <2>1
  <2> HIDE DEF row
  <2>4. /\ Len(journal') = Len(journal) + 1 /\ DOMAIN journal' = 1..Len(journal) + 1
        /\ journal'[Len(journal) + 1] = row
        /\ \A i \in 1..Len(journal) : journal'[i] = journal[i]
    BY <1>1, <2>2, <2>3, AppendedRow
  <2>5. \A i \in Len(journal) + 1..Len(journal') : journal'[i] = row
    BY <1>1, <2>4
  <2>6. row.type # "deleted"
    BY <2>2
  <2>7. QED
    BY <1>1, <1>2, <2>2, <2>4, <2>5, <2>6 DEF IsDelete
<1>3. ASSUME NEW m \in AllMessages, Ingest(m)
      PROVE  Append1("received", m) /\ store[m] = "absent"
             /\ \A n \in AllMessages : store'[n] = "absent" => store[n] = "absent"
  BY <1>1, <1>3 DEF Ingest
<1>4. ASSUME NEW m \in AllMessages, Edit(m)
      PROVE  Append1("edited", m)
             /\ \A n \in AllMessages : store'[n] = "absent" => store[n] = "absent"
  BY <1>1, <1>4 DEF Edit
<1>5. ASSUME NEW m \in AllMessages, Send(m) \/ MarkSent(m)
      PROVE  Append1("outbox", m)
             /\ \A n \in AllMessages : store'[n] = "absent" => store[n] = "absent"
  BY <1>1, <1>5 DEF Send, MarkSent
<1>6. ASSUME NEW m \in AllMessages, Delete(m)
      PROVE  /\ Len(journal) <= Len(journal') /\ DOMAIN journal' = 1..Len(journal')
             /\ Len(journal') \in Nat
             /\ \A i \in 1..Len(journal) : journal'[i] = journal[i]
             /\ \A i \in Len(journal) + 1..Len(journal') :
                   journal'[i].type # "received" /\ journal'[i].msg = m
             /\ store'[m] # "absent"
             /\ \A n \in AllMessages : store'[n] = "absent" => store[n] = "absent"
  <2> DEFINE types == IF m \in MediaMessages THEN <<"deleted", "media_deleted">>
                                             ELSE <<"deleted">>
  <2>1. PICK at \in 0..MaxTime : journal' = journal \o
           [i \in DOMAIN types |-> [type |-> types[i], msg |-> m, at |-> at]]
    BY <1>6 DEF Delete
  <2> DEFINE rows == [i \in DOMAIN types |-> [type |-> types[i], msg |-> m, at |-> at]]
  <2>2. /\ types \in Seq(Typed) /\ \A i \in DOMAIN types : types[i] # "received"
    <3>1. "deleted" \in Typed /\ "media_deleted" \in Typed
      BY DEF Typed
    <3>2. <<"deleted">> \in Seq(Typed) /\ <<"deleted", "media_deleted">> \in Seq(Typed)
      BY <3>1
    <3>3. QED
      BY <3>2
  <2> HIDE DEF types
  <2>3. rows \in Seq(Event) /\ DOMAIN rows = DOMAIN types
    <3>1. /\ DOMAIN types = 1..Len(types) /\ Len(types) \in Nat
          /\ \A i \in DOMAIN types : types[i] \in Typed
      BY <2>2, LenProperties
    <3>2. at \in Nat
      BY NumbersAssumption
    <3>3. rows \in [1..Len(types) -> Event]
      BY <3>1, <3>2 DEF Event
    <3>4. QED
      BY <3>1, <3>3, SeqDef
  <2>4. \A i \in DOMAIN rows : rows[i].type # "received" /\ rows[i].msg = m
    BY <2>2, <2>3
  <2>5. journal' = journal \o rows
    BY <2>1
  <2> HIDE DEF rows
  <2>6. /\ journal' \in Seq(Event) /\ Len(journal') = Len(journal) + Len(rows)
        /\ \A i \in 1..Len(journal) + Len(rows) : journal'[i] =
              IF i <= Len(journal) THEN journal[i] ELSE rows[i - Len(journal)]
    BY <1>1, <2>3, <2>5, ConcatProperties
  <2>7. /\ Len(rows) \in Nat /\ DOMAIN rows = 1..Len(rows)
        /\ DOMAIN journal' = 1..Len(journal')
    BY <2>3, <2>6, LenProperties
  <2>8. ASSUME NEW i \in Len(journal) + 1..Len(journal')
        PROVE  journal'[i] = rows[i - Len(journal)] /\ i - Len(journal) \in DOMAIN rows
    BY <1>1, <2>6, <2>7
  <2>9. store'[m] # "absent" /\ \A n \in AllMessages : store'[n] = "absent" => store[n] = "absent"
    BY <1>1, <1>6 DEF Delete
  <2>10. \A i \in 1..Len(journal) : journal'[i] = journal[i]
    BY <1>1, <2>6, <2>7
  <2>11. QED
    BY <1>1, <2>4, <2>6, <2>7, <2>8, <2>9, <2>10
<1>7. ~DeleteConversation
  BY DEF DeleteConversation
<1>8. CASE \E m \in AllMessages : Delete(m)
  BY <1>6, <1>8 DEF IsDelete
<1>9. CASE \E m \in AllMessages : Ingest(m) \/ Edit(m) \/ Send(m) \/ MarkSent(m)
  BY <1>2, <1>3, <1>4, <1>5, <1>9
<1>10. QED
  BY <1>7, <1>8, <1>9 DEF Journalling

LEMMA AccountedKept ==
    ASSUME NEW n \in Nat, NEW J, NEW K, \A i \in 1..n : K[i] = J[i], NEW S, Accounted(n, J, S)
    PROVE  Accounted(n, K, S)
BY DEF Accounted

LEMMA AliveJournalling ==
    ASSUME TypeInv, AliveInv, ~DropsConversations, Journalling
    PROVE  AliveInv'
<1>1. /\ Len(journal) <= Len(journal') /\ DOMAIN journal' = 1..Len(journal')
      /\ Len(journal') \in Nat
      /\ \A i \in 1..Len(journal) : journal'[i] = journal[i]
  BY JournallingRows
<1>2. /\ \A i, j \in Len(journal) + 1..Len(journal') :
            journal'[i].type = "received" =>
               journal'[j].type # "deleted" /\ store[journal'[i].msg] = "absent"
      /\ \A j \in Len(journal) + 1..Len(journal'), m \in AllMessages :
            IsDelete(journal'[j], m) => store'[m] # "absent"
      /\ \A m \in AllMessages : store'[m] = "absent" => store[m] = "absent"
  BY JournallingRows
<1>3. /\ Len(journal) \in Nat /\ DOMAIN journal = 1..Len(journal) /\ cursor \in Nat
      /\ \A t \in Threads : job[t].last \in Nat
  BY JournalTyped
<1>4. UNCHANGED <<cursor, dbLedger, pc, job>>
  BY JournallingAppends, TypeParts DEF JournalOnly, TypeInv
<1>5. cursor <= Len(journal)
  BY DEF AliveInv, JournalOrder
<1>6. \A i \in DOMAIN journal : journal[i].msg \in AllMessages
  <2>1. journal \in Seq(Event)
    BY TypeParts DEF TypeInv, DataOK
  <2>2. \A i \in DOMAIN journal : journal[i] \in Event
    BY <1>3, <2>1, ElementOfSeq
  <2>3. QED
    BY <2>2 DEF Event
<1>7. ASSUME NEW i \in DOMAIN journal', NEW j \in DOMAIN journal',
             journal'[i].type = "received", IsDelete(journal'[j], journal'[i].msg)
      PROVE  i < j
  <2>1. CASE i <= Len(journal) /\ j <= Len(journal)
    <3>1. i \in DOMAIN journal /\ j \in DOMAIN journal
      BY <1>1, <1>3, <2>1
    <3>2. QED
      BY <1>1, <1>3, <1>7, <3>1 DEF AliveInv, JournalOrder, DeletesFollow
  <2>2. CASE i <= Len(journal) /\ ~(j <= Len(journal))
    BY <1>1, <1>3, <2>2
  <2>3. CASE ~(i <= Len(journal)) /\ j <= Len(journal)
    <3>1. i \in Len(journal) + 1..Len(journal') /\ j \in DOMAIN journal
      BY <1>1, <1>3, <2>3
    <3>2. store[journal'[i].msg] = "absent"
      BY <1>2, <1>7, <3>1
    <3>3. IsDelete(journal[j], journal'[i].msg)
      BY <1>1, <1>3, <1>7, <3>1
    <3>4. journal'[i].msg \in AllMessages
      BY <1>6, <3>1, <3>3 DEF IsDelete
    <3>5. QED
      BY <3>1, <3>2, <3>3, <3>4 DEF AliveInv, JournalOrder, AbsentIsClean
  <2>4. CASE ~(i <= Len(journal)) /\ ~(j <= Len(journal))
    <3>1. i \in Len(journal) + 1..Len(journal') /\ j \in Len(journal) + 1..Len(journal')
      BY <1>1, <1>3, <2>4
    <3>2. QED
      BY <1>2, <1>7, <3>1 DEF IsDelete
  <2>5. QED
    BY <2>1, <2>2, <2>3, <2>4
<1>8. DeletesFollow'
  BY <1>7 DEF DeletesFollow
<1>9. ASSUME NEW m \in AllMessages, store'[m] = "absent", NEW j \in DOMAIN journal'
      PROVE  ~IsDelete(journal'[j], m)
  <2>1. store[m] = "absent"
    BY <1>2, <1>9
  <2>2. CASE j <= Len(journal)
    <3>1. j \in DOMAIN journal /\ journal'[j] = journal[j]
      BY <1>1, <1>3, <2>2
    <3>2. QED
      BY <2>1, <3>1 DEF AliveInv, JournalOrder, AbsentIsClean
  <2>3. CASE ~(j <= Len(journal))
    <3>1. j \in Len(journal) + 1..Len(journal')
      BY <1>1, <1>3, <2>3
    <3>2. QED
      BY <1>2, <1>9, <3>1
  <2>4. QED
    BY <2>2, <2>3
<1>10. AbsentIsClean'
  BY <1>9 DEF AbsentIsClean
<1>11. JournalOrder'
  <2>1. cursor' <= Len(journal')
    BY <1>1, <1>3, <1>4, <1>5
  <2>2. QED
    BY <1>8, <1>10, <2>1 DEF JournalOrder
<1>12. \A i \in 1..cursor : journal'[i] = journal[i]
  BY <1>1, <1>3, <1>5
<1>13. Accounted(cursor, journal, dbLedger)'
  <2>1. Accounted(cursor, journal', dbLedger)
    BY <1>3, <1>12, AccountedKept DEF AliveInv
  <2>2. QED
    BY <1>4, <2>1
<1>14. ASSUME NEW t \in Threads, pc[t] \in {"read", "cut"} PROVE AliveInStep(t)'
  <2>1. AliveInStep(t)
    BY DEF AliveInv
  <2>2. CASE job[t].kind = "incremental"
    <3>1. /\ job[t].last <= Len(journal)
          /\ \A i \in cursor + 1..job[t].last : journal[i].type = "received" => i \in job[t].seqs
      BY <1>14, <2>1, <2>2 DEF AliveInStep
    <3>2. job[t].last <= Len(journal')
      BY <1>1, <1>3, <3>1
    <3>3. \A i \in cursor + 1..job[t].last : journal'[i] = journal[i]
      BY <1>1, <1>3, <3>1
    <3>4. QED
      BY <1>4, <2>2, <3>1, <3>2, <3>3 DEF AliveInStep
  <2>3. CASE job[t].kind = "compaction"
    <3>1. Accounted(cursor, journal', BagToSet(job[t].rest))
      BY <1>3, <1>12, <1>14, <2>1, <2>3, AccountedKept DEF AliveInStep
    <3>2. QED
      BY <1>4, <2>3, <3>1 DEF AliveInStep
  <2>4. CASE job[t].kind \notin {"incremental", "compaction"}
    BY <1>4, <2>4 DEF AliveInStep
  <2>5. QED
    BY <2>2, <2>3, <2>4
<1>15. \A t \in Threads : AliveInStep(t)'
  BY <1>4, <1>14 DEF AliveInStep
<1>16. QED
  BY <1>11, <1>13, <1>15 DEF AliveInv

\* Any other step leaves the journal and the store alone.
LEMMA AliveStays ==
    ASSUME NEW a, Threads = {a}, AliveInv, AliveInStep(a)',
           UNCHANGED <<journal, store, cursor, dbLedger>>
    PROVE  AliveInv'
<1>1. JournalOrder'
  BY DEF AliveInv, JournalOrder, DeletesFollow, AbsentIsClean
<1>2. QED
  BY <1>1 DEF AliveInv, Accounted, SealedIn

LEMMA AliveRead ==
    ASSUME NEW a, Threads = {a}, TypeInv, AliveInv, Read(a)
    PROVE  AliveInv'
<1>1. PICK last \in Drainable :
         Goto(a, "read", [NoJob EXCEPT !.kind = "incremental",
                                       !.seqs = Drainable, !.last = last])
  BY DEF Read
<1> DEFINE j == [NoJob EXCEPT !.kind = "incremental", !.seqs = Drainable, !.last = last]
<1>2. pc'[a] = "read" /\ job'[a] = j
  BY <1>1, AloneGoto
<1>3. j.kind = "incremental" /\ j.seqs = Drainable /\ j.last = last
  BY DEF NoJob
<1> HIDE DEF j
<1>4. UNCHANGED <<journal, store, cursor, dbLedger>>
  BY DEF Read, durable
<1>5. Len(journal) \in Nat /\ cursor \in Nat /\ DOMAIN journal = 1..Len(journal) /\ SegmentLimit \in Nat
  BY JournalTyped, NumbersAssumption
<1>6. last \in 1..Len(journal) /\ last <= cursor + SegmentLimit
  BY <1>5 DEF Drainable, Window
<1>7. ASSUME NEW i \in cursor + 1..last, journal[i].type = "received" PROVE i \in Drainable
  BY <1>5, <1>6, <1>7 DEF Drainable, Window, Typed
<1>8. AliveInStep(a)'
  BY <1>2, <1>3, <1>4, <1>5, <1>6, <1>7 DEF AliveInStep
<1>9. QED
  BY <1>4, <1>8, AliveStays

LEMMA AliveCut ==
    ASSUME NEW a, Threads = {a}, TypeInv, AliveInv, CutIncremental(a) \/ CutCompaction(a)
    PROVE  AliveInv'
<1>1. UNCHANGED <<journal, store, cursor, dbLedger>> /\ pc[a] = "read" /\ AliveInStep(a)
  BY DEF CutIncremental, CutCompaction, durable, AliveInv
<1>2. PICK out, man : Goto(a, "cut", [job[a] EXCEPT !.out = out, !.man = man])
                      \/ Goto(a, "cut", [job[a] EXCEPT !.man = man])
  BY DEF CutIncremental, CutCompaction
<1>3. pc'[a] = "cut" /\ job'[a].kind = job[a].kind /\ job'[a].last = job[a].last
      /\ job'[a].seqs = job[a].seqs /\ job'[a].rest = job[a].rest
  <2>1. pc'[a] = "cut" /\ \/ job'[a] = [job[a] EXCEPT !.out = out, !.man = man]
                          \/ job'[a] = [job[a] EXCEPT !.man = man]
    BY <1>2, AloneGoto
  <2>2. IsJob(job[a])
    BY CallState
  <2>3. QED
    BY <2>1, <2>2 DEF IsJob
<1>4. AliveInStep(a)'
  BY <1>1, <1>3 DEF AliveInStep
<1>5. QED
  BY <1>1, <1>4, AliveStays

LEMMA AlivePersistIncremental ==
    ASSUME NEW a, Threads = {a}, TypeInv, SerialInv, AliveInv, PersistIncremental(a)
    PROVE  AliveInv'
<1>1. pc'[a] = "persisted"
  BY AloneGoto DEF PersistIncremental
<1>2. /\ UNCHANGED <<journal, store>> /\ pc[a] = "cut" /\ job[a].kind = "incremental"
      /\ job[a].last >= cursor /\ cursor' = job[a].last /\ dbLedger' = dbLedger \cup job[a].out
  BY DEF PersistIncremental
<1>3. cursor \in Nat /\ job[a].last \in Nat
  BY CallState, JobFields DEF DataOK
<1>4. /\ job[a].last <= Len(journal)
      /\ \A i \in cursor + 1..job[a].last : journal[i].type = "received" => i \in job[a].seqs
  BY <1>2 DEF AliveInv, AliveInStep
<1>5. job[a].seqs \subseteq SealedIn(dbLedger')
  BY <1>2 DEF SerialInv, InStep, DrainInStep, SealedIn
<1>6. SealedIn(dbLedger) \subseteq SealedIn(dbLedger')
  BY <1>2 DEF SealedIn
<1>7. JournalOrder'
  BY <1>2, <1>4 DEF AliveInv, JournalOrder, DeletesFollow, AbsentIsClean
<1>8. ASSUME NEW i \in 1..job[a].last, journal[i].type = "received"
      PROVE  \/ i \in SealedIn(dbLedger')
             \/ \E j \in 1..job[a].last : IsDelete(journal[j], journal[i].msg)
  <2>1. CASE i <= cursor
    <3>1. i \in 1..cursor
      BY <1>3, <2>1
    <3>2. i \in SealedIn(dbLedger) \/ \E j \in 1..cursor : IsDelete(journal[j], journal[i].msg)
      BY <1>8, <3>1 DEF AliveInv, Accounted
    <3>3. \A j \in 1..cursor : j \in 1..job[a].last
      BY <1>2, <1>3
    <3>4. QED
      BY <1>6, <3>2, <3>3
  <2>2. CASE ~(i <= cursor)
    <3>1. i \in cursor + 1..job[a].last
      BY <1>3, <2>2
    <3>2. QED
      BY <1>4, <1>5, <1>8, <3>1
  <2>3. QED
    BY <2>1, <2>2
<1>9. Accounted(cursor, journal, dbLedger)'
  BY <1>2, <1>8 DEF Accounted
<1>10. AliveInStep(a)'
  BY <1>1 DEF AliveInStep
<1>11. QED
  BY <1>7, <1>9, <1>10 DEF AliveInv

\* What a compaction drops of a message's rows, it drops because a row of the
\* same group deletes the message.
LEMMA AliveCompact ==
    ASSUME NEW a, Threads = {a}, TypeInv, SerialInv, AliveInv, NEW now, Compact(a, now)
    PROVE  AliveInv'
<1> DEFINE groups == Plan(ledger, now)
           after == Compacted(groups)
<1>1. UNCHANGED <<journal, store, cursor, dbLedger>>
  BY DEF Compact, durable
<1>2. /\ \A g \in groups : g \subseteq dbLedger
      /\ pc'[a] = "read" /\ job'[a].kind = "compaction"
      /\ job'[a].rest = SetToBag(after)
  BY CompactPrepares
<1> HIDE DEF groups
<1>3. SealedIn(dbLedger) \subseteq 1..cursor
  BY DEF SerialInv, DiskInv, LedgerOnDisk
<1>4. ASSUME NEW i \in 1..cursor, journal[i].type = "received",
             ~\E j \in 1..cursor : IsDelete(journal[j], journal[i].msg)
      PROVE  i \in SealedIn(after)
  <2>1. PICK s \in dbLedger : i \in s.seqs
    BY <1>4 DEF AliveInv, Accounted, SealedIn
  <2>2. CASE s \notin UNION groups
    BY <2>1, <2>2 DEF Compacted, SealedIn
  <2>3. CASE s \in UNION groups
    <3>1. PICK g \in groups : s \in g
      BY <2>3
    <3> DEFINE seqs == UNION {r.seqs : r \in g}
               out == GroupSegment(g, minted + 1)
    <3>2. i \in seqs /\ seqs \subseteq 1..cursor
      BY <1>2, <1>3, <2>1, <3>1 DEF SealedIn
    <3> HIDE DEF seqs
    <3>3. journal[i].msg \notin Tombstoned(seqs)
      BY <1>4, <3>2 DEF Tombstoned, IsDelete
    <3>4. i \in Survivors(seqs)
      BY <1>4, <3>2, <3>3 DEF Survivors
    <3>5. out.seqs = Survivors(seqs)
      BY DEF GroupSegment, seqs
    <3> HIDE DEF out
    <3>6. out \in Outputs(groups)
      BY <3>1, <3>4, <3>5 DEF Outputs, out
    <3>7. QED
      BY <3>4, <3>5, <3>6 DEF Compacted, SealedIn
  <2>4. QED
    BY <2>2, <2>3
<1>5. Accounted(cursor, journal, after)
  BY <1>4 DEF Accounted
<1>6. BagToSet(job'[a].rest) = after
  BY <1>2, BagOfSet
<1> HIDE DEF after
<1>7. AliveInStep(a)'
  BY <1>1, <1>2, <1>5, <1>6 DEF AliveInStep
<1>8. QED
  BY <1>1, <1>7, AliveStays

LEMMA AlivePersistCompaction ==
    ASSUME NEW a, Threads = {a}, TypeInv, AliveInv, PersistCompaction(a)
    PROVE  AliveInv'
<1>1. pc'[a] = "persisted"
  BY AloneGoto DEF PersistCompaction
<1>2. /\ UNCHANGED <<journal, store, cursor>> /\ pc[a] = "cut" /\ job[a].kind = "compaction"
      /\ dbLedger' = BagToSet(job[a].rest)
  BY DEF PersistCompaction
<1>3. Accounted(cursor, journal, BagToSet(job[a].rest))
  BY <1>2 DEF AliveInv, AliveInStep
<1>4. Accounted(cursor, journal, dbLedger)'
  BY <1>2, <1>3
<1>5. JournalOrder'
  BY <1>2 DEF AliveInv, JournalOrder, DeletesFollow, AbsentIsClean
<1>6. AliveInStep(a)'
  BY <1>1 DEF AliveInStep
<1>7. QED
  BY <1>4, <1>5, <1>6 DEF AliveInv

\* The steps that leave a call outside the two phases that matter here.
LEMMA AliveElsewhere ==
    ASSUME NEW a, Threads = {a}, TypeInv, AliveInv,
           NEW where, NEW j, NEW result, Goto(a, where, j) \/ Return(a, result),
           where \notin {"read", "cut"}, UNCHANGED <<journal, store, cursor, dbLedger>>
    PROVE  AliveInv'
<1>1. pc'[a] \notin {"read", "cut"}
  BY AloneGoto, AloneReturn
<1>2. AliveInStep(a)'
  BY <1>1 DEF AliveInStep
<1>3. QED
  BY <1>2, AliveStays

LEMMA AliveStep ==
    ASSUME NEW a, Threads = {a}, ~DropsConversations, TypeInv, SerialInv, AliveInv, [Next]_vars
    PROVE  AliveInv'
<1>1. ASSUME Defer(a) \/ KeysMissing(a) \/ CursorRefused(a) \/ DuplicateRow(a)
             \/ PersistFails(a) \/ CommitIncremental(a) \/ CommitCompaction(a)
             \/ UploadSegment(a) \/ UploadManifest(a) \/ UploadFails(a)
             \/ Materialise(a) \/ InstallKeys(a)
      PROVE  AliveInv'
  <2>1. UNCHANGED <<journal, store, cursor, dbLedger>>
    BY <1>1 DEF Defer, KeysMissing, CursorRefused, DuplicateRow, PersistFails,
                CommitIncremental, CommitCompaction, UploadSegment, UploadManifest,
                UploadFails, Materialise, InstallKeys, durable
  <2>2. \E where, j, result : /\ Goto(a, where, j) \/ Return(a, result)
                              /\ where \notin {"read", "cut"}
    <3>1. CASE \E result : Return(a, result)
      <4>1. "idle" \notin {"read", "cut"}
        OBVIOUS
      <4>2. QED
        BY <3>1, <4>1
    <3>2. CASE \E j : Goto(a, "uploading", j) \/ Goto(a, "materialised", j)
      <4>1. "uploading" \notin {"read", "cut"} /\ "materialised" \notin {"read", "cut"}
        OBVIOUS
      <4>2. QED
        BY <3>2, <4>1
    <3>3. QED
      BY <1>1, <3>1, <3>2
         DEF Defer, KeysMissing, CursorRefused, DuplicateRow, PersistFails,
             CommitIncremental, CommitCompaction, UploadSegment, UploadManifest,
             UploadFails, Materialise, InstallKeys
  <2>3. QED
    BY <2>1, <2>2, AliveElsewhere
<1>2. ASSUME NEW t \in Threads, \/ Defer(t) \/ Incremental(t) \/ Compaction(t) \/ Upload(t)
                                \/ UploadFails(t) \/ PersistFails(t) \/ Install(t)
      PROVE  AliveInv'
  <2>1. t = a
    OBVIOUS
  <2>2. CASE \/ Read(a) \/ CutIncremental(a) \/ CutCompaction(a) \/ PersistIncremental(a)
             \/ PersistCompaction(a) \/ \E now \in 0..MaxTime : Compact(a, now)
    BY <2>2, AliveRead, AliveCut, AlivePersistIncremental, AlivePersistCompaction, AliveCompact
  <2>3. QED
    BY <1>1, <1>2, <2>1, <2>2 DEF Incremental, Compaction, Upload, Install
<1>3. CASE Crash
  <2>1. UNCHANGED <<journal, store, cursor, dbLedger>> /\ AliveInStep(a)'
    BY <1>3 DEF Crash, durable, AliveInStep
  <2>2. QED
    BY <2>1, AliveStays
<1>4. CASE InstallSink \/ GoOnline \/ GoOffline \/ UNCHANGED vars
  <2>1. UNCHANGED <<journal, store, cursor, dbLedger, pc, job>>
    BY <1>4 DEF InstallSink, GoOnline, GoOffline, vars, durable
  <2>2. AliveInStep(a)'
    BY <2>1 DEF AliveInv, AliveInStep, Accounted
  <2>3. QED
    BY <2>1, <2>2, AliveStays
<1>5. QED
  BY <1>2, <1>3, <1>4, AliveJournalling DEF Next

\* Compaction never drops data: where calls do not overlap and no conversation
\* is dropped and received again, whatever the compaction policy groups and
\* whatever it leaves out, each message alive in the segmented journal is
\* alive in a replay of the ledger.
THEOREM NoLiveMessageIsLost ==
    ASSUME NEW CONSTANT a, Threads = {a}, ~DropsConversations
    PROVE  Spec => []NoLiveMessageLost
<1>1. Init => AliveInv
  BY DEF Init, NoJob, AliveInv, JournalOrder, DeletesFollow, AbsentIsClean, Accounted,
         AliveInStep
<1>2. TypeInv /\ SerialInv /\ AliveInv /\ [Next]_vars => AliveInv'
  BY AliveStep
<1>3. TypeInv /\ SerialInv /\ AliveInv => NoLiveMessageLost
  <2> SUFFICES ASSUME TypeInv, SerialInv, AliveInv, NEW m \in Replay(1..cursor)
               PROVE  m \in Replay(SealedIn(dbLedger))
    BY DEF NoLiveMessageLost
  <2>1. PICK i \in 1..cursor :
           /\ journal[i].msg = m /\ journal[i].type = "received"
           /\ \A j \in 1..cursor : j > i => journal[j].type # "deleted" \/ journal[j].msg # m
    BY DEF Replay
  <2>2. SealedIn(dbLedger) \subseteq 1..cursor
    BY DEF SerialInv, DiskInv, LedgerOnDisk
  <2>3. 1..cursor \subseteq DOMAIN journal
    BY JournalTyped DEF AliveInv, JournalOrder
  <2>4. ~\E j \in 1..cursor : IsDelete(journal[j], m)
    <3> SUFFICES ASSUME NEW j \in 1..cursor, IsDelete(journal[j], m) PROVE FALSE
      OBVIOUS
    <3>1. i < j
      BY <2>1, <2>3 DEF AliveInv, JournalOrder, DeletesFollow
    <3>2. QED
      BY <2>1, <3>1 DEF IsDelete
  <2>5. i \in SealedIn(dbLedger)
    BY <2>1, <2>4 DEF AliveInv, Accounted
  <2>6. QED
    BY <2>1, <2>2, <2>5 DEF Replay
<1>4. QED
  BY <1>1, <1>2, <1>3, TypesInvariant, SerialInvariant, PTL DEF Spec
====
