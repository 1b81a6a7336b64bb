------------------------------- MODULE Backup -------------------------------
(***************************************************************************)
(* The incremental backup engine of the core library: the append-only      *)
(* event journal and its cursor, the segment ledger and the manifest chain *)
(* tail that exist both in SQLite and in the coordinator's memory, the     *)
(* threads that call run_incremental_backup, compact_backup and            *)
(* install_backup_keys, and the remote sink that receives the segments and *)
(* the manifests.  Every lock acquisition of the code is one action, so    *)
(* two calls interleave exactly where the code releases a lock.            *)
(*                                                                         *)
(* A segment's encrypted event list is the set of journal sequence numbers *)
(* it seals, and its [min_event_ms, max_event_ms] the set of the two       *)
(* extremes; ids stand for UUIDs (never reused; the groups of one          *)
(* compaction share one and differ in content); a manifest's hash link is  *)
(* the id of its predecessor; the ledger Vec, whose order nothing depends  *)
(* on, is a bag.                                                           *)
(***************************************************************************)
EXTENDS Integers, Sequences, FiniteSets, FiniteSetsExt, Bags

CONSTANTS
    Messages,         \* messages that arrive from others
    OwnMessages,      \* messages this device sends
    MediaMessages,    \* the messages that carry a media asset
    Threads,          \* threads of the process that call into the core
    Drainers,         \* the threads that call run_incremental_backup
    Compactors,       \* the threads that call compact_backup
    Installers,       \* the threads that call install_backup_keys
    SegmentLimit,     \* MAX_EVENTS_PER_BACKUP_SEGMENT
    MinGroupSize, DailyToWeekly, WeeklyToMonthly, WeekLength, MonthLength,
                      \* CompactionPolicy and the bucket widths, in time units
    DropsConversations, \* whether the user may delete the conversation
    MaxJournal, MaxMinted, MaxTime, MaxFaults
                      \* bounds: journal rows, ids, clock, injected faults

ASSUME ThreadsAssumption ==
    Drainers \subseteq Threads /\ Compactors \subseteq Threads /\ Installers \subseteq Threads

ASSUME NumbersAssumption ==
    /\ SegmentLimit \in Nat \ {0} /\ MinGroupSize \in Nat \ {0}
    /\ DailyToWeekly \in Nat /\ WeeklyToMonthly \in Nat
    /\ WeekLength \in Nat \ {0} /\ MonthLength \in Nat \ {0}
    /\ MaxJournal \in Nat /\ MaxMinted \in Nat /\ MaxTime \in Nat /\ MaxFaults \in Nat

ASSUME MessagesAssumption ==
    /\ MediaMessages \subseteq Messages \cup OwnMessages
    /\ DropsConversations \in BOOLEAN

VARIABLES
    \* SQLite: survives a crash
    journal,      \* backup_event_journal, event_seq = index
    store,        \* what message_skeleton says of each message
    cursor,       \* backup_event_cursor.cursor_seq
    dbLedger,     \* backup_segment_ledger
    dbTail,       \* backup_manifest_chain
    \* the process: lost in a crash
    keys,         \* backup keys installed
    ledger,       \* Coordinator.chain_state.tracked_segments
    tail,         \* Coordinator.chain_state.previous_manifest
    sinkReady,    \* a BackupSink is installed
    pc, job,      \* where each thread is in its call, and the call's locals
    outcome,      \* what the thread's last call returned
    \* the rest of the world
    online, sinkSegments, sinkManifests,
    minted,       \* ids drawn so far
    faults        \* faults injected so far

durable == <<journal, store, cursor, dbLedger, dbTail>>
world == <<online, sinkSegments, sinkManifests>>
chain == <<ledger, tail>>
vars == <<durable, keys, chain, sinkReady, pc, job, outcome, world, minted, faults>>

-----------------------------------------------------------------------------
(* Types.                                                                   *)

AllMessages == Messages \cup OwnMessages

Typed == {"received", "edited", "deleted", "media_deleted"}
Event == [type : Typed \cup {"outbox"}, msg : AllMessages, at : Nat]

Tiers == {"daily", "weekly", "monthly"}
Segment == [id : Nat, seqs : SUBSET Nat, tier : Tiers, span : SUBSET Nat]
Extremes(T) == {x \in T : (\A y \in T : x <= y) \/ (\A y \in T : y <= x)}

IsLedger(b) == IsABag(b) /\ DOMAIN b \subseteq Segment
Copies(b, S) == Cardinality(UNION {{s} \X (1..b[s]) : s \in S})

\* previous = None chains at generation 0 under the all-zero hash.
NoManifest == [id |-> 0, gen |-> -1, prev |-> 0, segs |-> {}]
Manifest == [id : Nat, gen : Int, prev : Nat, segs : SUBSET Segment]

PCs == {"idle", "read", "cut", "persisted", "uploading", "materialised"}
Kinds == {"none", "incremental", "compaction", "install"}
IsJob(j) ==
    /\ IsLedger(j.rest)
    /\ j \in [kind : Kinds, seqs : SUBSET Nat, last : Nat, out : SUBSET Segment,
              rest : {j.rest}, man : Manifest]
NoJob == [kind |-> "none", seqs |-> {}, last |-> 0, out |-> {}, rest |-> EmptyBag,
          man |-> NoManifest]

-----------------------------------------------------------------------------
(* Journalling: each operation is one SAVEPOINT under the db_writer lock.   *)
(* Rows are stamped with the wall clock, which may be set back.             *)

Append1(type, m) ==
    /\ Len(journal) < MaxJournal
    /\ \E at \in 0..MaxTime :
          journal' = Append(journal, [type |-> type, msg |-> m, at |-> at])

JournalOnly == UNCHANGED <<cursor, dbLedger, dbTail, keys, chain, sinkReady, pc, job,
                           outcome, world, minted, faults>>

Ingest(m) ==
    /\ m \in Messages /\ store[m] = "absent"
    /\ Append1("received", m)
    /\ store' = [store EXCEPT ![m] = "live"]
    /\ JournalOnly

Edit(m) ==
    /\ store[m] = "live"
    /\ Append1("edited", m)
    /\ UNCHANGED store
    /\ JournalOnly

\* Mutant: the skeleton lands in a state outside the taxonomy.
DeleteTombstones(m) ==
    /\ store[m] = "live"
    /\ Append1("deleted", m)
    /\ store' = [store EXCEPT ![m] = "tombstone"]
    /\ JournalOnly

\* delete_inner_tx: message_deleted, then one media_deleted per asset.
Delete(m) ==
    LET rows == IF m \in MediaMessages THEN <<"deleted", "media_deleted">> ELSE <<"deleted">>
    IN  /\ store[m] = "live"
        /\ Len(journal) + Len(rows) <= MaxJournal
        /\ \E at \in 0..MaxTime :
              journal' = journal \o
                  [i \in DOMAIN rows |-> [type |-> rows[i], msg |-> m, at |-> at]]
        /\ store' = [store EXCEPT ![m] = "deleted"]
        /\ JournalOnly

\* send_text and send_media write an "outbox_pending" row, mark_sent an
\* "outbox_sent" row; neither tag parses as a BackupEventType.
Send(m) ==
    /\ m \in OwnMessages /\ \A i \in DOMAIN journal : journal[i].msg # m
    /\ Append1("outbox", m)
    /\ store' = [store EXCEPT ![m] = "live"]
    /\ JournalOnly

MarkSent(m) ==
    /\ m \in OwnMessages /\ store[m] # "absent"
    /\ Append1("outbox", m)
    /\ UNCHANGED store
    /\ JournalOnly

\* delete_conversation removes every row of the conversation and writes no
\* journal event; the messages may later be delivered again.
DeleteConversation ==
    /\ DropsConversations
    /\ \E m \in AllMessages : store[m] # "absent"
    /\ store' = [m \in AllMessages |-> "absent"]
    /\ UNCHANGED journal
    /\ JournalOnly

Journalling ==
    \/ \E m \in AllMessages : Ingest(m) \/ Edit(m) \/ Delete(m) \/ Send(m) \/ MarkSent(m)
    \/ DeleteConversation

-----------------------------------------------------------------------------
(* run_incremental_backup.                                                  *)

Goto(t, where, j) == pc' = [pc EXCEPT ![t] = where] /\ job' = [job EXCEPT ![t] = j]
Return(t, result) ==
    /\ pc' = [pc EXCEPT ![t] = "idle"]
    /\ job' = [job EXCEPT ![t] = NoJob]
    /\ outcome' = [outcome EXCEPT ![t] = result]

\* The offline short circuit: nothing is read, sealed or uploaded.
Defer(t) ==
    /\ t \in Drainers /\ pc[t] = "idle" /\ ~online
    /\ Return(t, "deferred")
    /\ UNCHANGED <<durable, keys, chain, sinkReady, world, minted, faults>>

\* Mutant: the reader starts one row too far.
WindowSkipsARow ==
    {i \in DOMAIN journal : cursor + 1 < i /\ i <= cursor + 1 + SegmentLimit}

\* The rows the SQL LIMIT returns; those whose tag does not parse are then
\* skipped, so a full window of them reads as "nothing to do".
Window == {i \in DOMAIN journal : cursor < i /\ i <= cursor + SegmentLimit}

\* Mutant: the reader's match has no arm for the tag of a deletion.
DrainableNoDeletions == {i \in Window : journal[i].type \in Typed \ {"deleted"}}

Drainable == {i \in Window : journal[i].type \in Typed}

Read(t) ==
    /\ t \in Drainers /\ pc[t] = "idle" /\ online
    /\ \E last \in Drainable :
          /\ \A i \in Drainable : i <= last
          /\ Goto(t, "read", [NoJob EXCEPT !.kind = "incremental",
                                           !.seqs = Drainable, !.last = last])
    /\ outcome' = [outcome EXCEPT ![t] = "none"]
    /\ UNCHANGED <<durable, keys, chain, sinkReady, world, minted, faults>>

SealedSegment(seqs, id) ==
    [id |-> id, seqs |-> seqs, tier |-> "daily",
     span |-> Extremes({journal[i].at : i \in seqs})]

\* build_backup_manifest under the chain tail read at this moment.
NextManifest(segments, id) ==
    [id |-> id, gen |-> tail.gen + 1, prev |-> tail.id, segs |-> segments]

CutIncremental(t) ==
    LET seg == SealedSegment(job[t].seqs, minted + 1)
    IN  /\ pc[t] = "read" /\ job[t].kind = "incremental" /\ keys
        /\ minted < MaxMinted
        /\ Goto(t, "cut", [job[t] EXCEPT !.out = {seg},
                                         !.man = NextManifest({seg}, minted + 1)])
        /\ minted' = minted + 1
        /\ UNCHANGED <<durable, keys, chain, sinkReady, outcome, world, faults>>

\* require_keys fails: the keystore has not unlocked the root yet.
KeysMissing(t) ==
    /\ pc[t] = "read" /\ job[t].kind = "incremental" /\ ~keys
    /\ Return(t, "failed")
    /\ UNCHANGED <<durable, keys, chain, sinkReady, world, minted, faults>>

\* atomic_append_segment_and_manifest: cursor, ledger row and tail in one
\* SAVEPOINT, refused when the cursor would move backwards.
PersistIncremental(t) ==
    /\ pc[t] = "cut" /\ job[t].kind = "incremental"
    /\ job[t].last >= cursor
    /\ cursor' = job[t].last
    /\ dbLedger' = dbLedger \cup job[t].out
    /\ dbTail' = job[t].man
    /\ Goto(t, "persisted", job[t])
    /\ UNCHANGED <<journal, store, keys, chain, sinkReady, outcome, world, minted, faults>>

CursorRefused(t) ==
    /\ pc[t] = "cut" /\ job[t].kind = "incremental" /\ job[t].last < cursor
    /\ Return(t, "failed")
    /\ UNCHANGED <<durable, keys, chain, sinkReady, world, minted, faults>>

\* commit_incremental, then the upload if a sink is installed.
CommitIncremental(t) ==
    /\ pc[t] = "persisted" /\ job[t].kind = "incremental"
    /\ tail' = job[t].man
    /\ ledger' = ledger (+) SetToBag(job[t].out)
    /\ IF sinkReady THEN Goto(t, "uploading", job[t]) /\ UNCHANGED outcome
                    ELSE Return(t, "done")
    /\ UNCHANGED <<durable, keys, sinkReady, world, minted, faults>>

-----------------------------------------------------------------------------
(* compact_backup.                                                          *)

Aged(s, now) ==
    \/ s.tier = "daily" /\ \A at \in s.span : now - at >= DailyToWeekly
    \/ s.tier = "weekly" /\ \A at \in s.span : now - at >= WeeklyToMonthly

Bucket(s) ==
    <<s.tier, Min(s.span) \div (IF s.tier = "daily" THEN WeekLength ELSE MonthLength)>>

\* CompactionPolicy::plan: the aged segments by tier and bucket, groups that
\* are too small left out.
Plan(b, now) ==
    LET old == {s \in DOMAIN b : Aged(s, now)}
    IN  {g \in {{r \in old : Bucket(r) = Bucket(s)} : s \in old} : Copies(b, g) >= MinGroupSize}

NextTier(tier) == IF tier = "daily" THEN "weekly" ELSE "monthly"

\* apply_tombstones on the events of one group.
Tombstoned(seqs) == {journal[i].msg : i \in {j \in seqs : journal[j].type = "deleted"}}
Survivors(seqs) ==
    {i \in seqs : journal[i].type \in {"received", "edited"}
                  /\ journal[i].msg \notin Tombstoned(seqs)}

GroupSegment(g, id) ==
    [id |-> id, seqs |-> Survivors(UNION {s.seqs : s \in g}),
     tier |-> NextTier((CHOOSE s \in g : TRUE).tier),
     span |-> Extremes(UNION {s.span : s \in g})]

\* Snapshot the in-memory ledger, plan, and re-seal every group with a
\* surviving event.
Compact(t, now) ==
    LET groups == Plan(ledger, now)
        outputs == {s \in {GroupSegment(g, minted + 1) : g \in groups} : s.seqs # {}}
        kept == [s \in DOMAIN ledger \ UNION groups |-> ledger[s]]
    IN  /\ t \in Compactors /\ pc[t] = "idle" /\ keys
        /\ groups # {} /\ minted < MaxMinted
        /\ Goto(t, "read", [NoJob EXCEPT !.kind = "compaction", !.out = outputs,
                                         !.rest = kept (+) SetToBag(outputs)])
        /\ outcome' = [outcome EXCEPT ![t] = "none"]
        /\ minted' = minted + 1
        /\ UNCHANGED <<durable, keys, chain, sinkReady, world, faults>>

CutCompaction(t) ==
    /\ pc[t] = "read" /\ job[t].kind = "compaction"
    /\ minted < MaxMinted
    /\ Goto(t, "cut", [job[t] EXCEPT !.man = NextManifest(BagToSet(job[t].rest), minted + 1)])
    /\ minted' = minted + 1
    /\ UNCHANGED <<durable, keys, chain, sinkReady, outcome, world, faults>>

\* segment_id is the primary key of backup_segment_ledger.
IdsDistinct(b) == \A s \in DOMAIN b : b[s] = 1

\* Mutants: the kept rows are not written back; the old rows are not deleted;
\* the manifest tail is left behind.
PersistOnlyOutputs(t) ==
    /\ pc[t] = "cut" /\ job[t].kind = "compaction" /\ IdsDistinct(job[t].rest)
    /\ dbLedger' = job[t].out
    /\ dbTail' = job[t].man
    /\ Goto(t, "persisted", job[t])
    /\ UNCHANGED <<journal, store, cursor, keys, chain, sinkReady, outcome, world,
                   minted, faults>>
PersistKeepsOldRows(t) ==
    /\ pc[t] = "cut" /\ job[t].kind = "compaction" /\ IdsDistinct(job[t].rest)
    /\ dbLedger' = dbLedger \cup BagToSet(job[t].rest)
    /\ dbTail' = job[t].man
    /\ Goto(t, "persisted", job[t])
    /\ UNCHANGED <<journal, store, cursor, keys, chain, sinkReady, outcome, world,
                   minted, faults>>
PersistKeepsOldTail(t) ==
    /\ pc[t] = "cut" /\ job[t].kind = "compaction" /\ IdsDistinct(job[t].rest)
    /\ dbLedger' = BagToSet(job[t].rest)
    /\ Goto(t, "persisted", job[t])
    /\ UNCHANGED <<journal, store, cursor, dbTail, keys, chain, sinkReady, outcome, world,
                   minted, faults>>

\* atomic_replace_ledger_and_manifest: the cursor is left alone.
PersistCompaction(t) ==
    /\ pc[t] = "cut" /\ job[t].kind = "compaction" /\ IdsDistinct(job[t].rest)
    /\ dbLedger' = BagToSet(job[t].rest)
    /\ dbTail' = job[t].man
    /\ Goto(t, "persisted", job[t])
    /\ UNCHANGED <<journal, store, cursor, keys, chain, sinkReady, outcome, world,
                   minted, faults>>

DuplicateRow(t) ==
    /\ pc[t] = "cut" /\ job[t].kind = "compaction" /\ ~IdsDistinct(job[t].rest)
    /\ Return(t, "failed")
    /\ UNCHANGED <<durable, keys, chain, sinkReady, world, minted, faults>>

CommitCompaction(t) ==
    /\ pc[t] = "persisted" /\ job[t].kind = "compaction"
    /\ tail' = job[t].man
    /\ ledger' = job[t].rest
    /\ IF sinkReady THEN Goto(t, "uploading", job[t]) /\ UNCHANGED outcome
                    ELSE Return(t, "done")
    /\ UNCHANGED <<durable, keys, sinkReady, world, minted, faults>>

-----------------------------------------------------------------------------
(* The upload both operations end with: the new segments, then the          *)
(* manifest.  Each call to the sink may fail, before or after the sink has  *)
(* stored the bytes.                                                        *)

\* Mutant: the bytes go out before the ledger row is durable.
UploadingEarly(t) == pc[t] \in {"cut", "uploading"}

Uploading(t) == pc[t] = "uploading"

UploadSegment(t) ==
    /\ Uploading(t)
    /\ \E s \in job[t].out :
          /\ sinkSegments' = sinkSegments \cup {s}
          /\ Goto(t, "uploading", [job[t] EXCEPT !.out = @ \ {s}])
    /\ UNCHANGED <<durable, keys, chain, sinkReady, outcome, online, sinkManifests,
                   minted, faults>>

\* Mutant: the manifest may overtake the segments.
UploadManifestEarly(t) ==
    /\ Uploading(t)
    /\ sinkManifests' = sinkManifests \cup {job[t].man}
    /\ Return(t, "done")
    /\ UNCHANGED <<durable, keys, chain, sinkReady, online, sinkSegments, minted, faults>>

UploadManifest(t) ==
    /\ Uploading(t) /\ job[t].out = {}
    /\ sinkManifests' = sinkManifests \cup {job[t].man}
    /\ Return(t, "done")
    /\ UNCHANGED <<durable, keys, chain, sinkReady, online, sinkSegments, minted, faults>>

UploadFails(t) ==
    /\ Uploading(t) /\ faults < MaxFaults
    /\ \/ UNCHANGED world
       \/ \E s \in job[t].out :
             /\ sinkSegments' = sinkSegments \cup {s}
             /\ UNCHANGED <<online, sinkManifests>>
       \/ /\ job[t].out = {}
          /\ sinkManifests' = sinkManifests \cup {job[t].man}
          /\ UNCHANGED <<online, sinkSegments>>
    /\ Return(t, "failed")
    /\ faults' = faults + 1
    /\ UNCHANGED <<durable, keys, chain, sinkReady, minted>>

\* A failing SAVEPOINT rolls back and the call returns the error.
PersistFails(t) ==
    /\ pc[t] = "cut" /\ faults < MaxFaults
    /\ Return(t, "failed")
    /\ faults' = faults + 1
    /\ UNCHANGED <<durable, keys, chain, sinkReady, world, minted>>

-----------------------------------------------------------------------------
(* install_backup_keys, and the process's life.                             *)

\* materialise_backup_segments_from_db, under the db_writer lock.
Materialise(t) ==
    /\ t \in Installers /\ pc[t] = "idle"
    /\ Goto(t, "materialised", [NoJob EXCEPT !.kind = "install", !.rest = SetToBag(dbLedger)])
    /\ outcome' = [outcome EXCEPT ![t] = "none"]
    /\ UNCHANGED <<durable, keys, chain, sinkReady, world, minted, faults>>

\* Mutant: the hydrated ledger is dropped.
InstallKeysOnly(t) ==
    /\ pc[t] = "materialised"
    /\ keys' = TRUE
    /\ Return(t, "done")
    /\ UNCHANGED <<durable, chain, sinkReady, world, minted, faults>>

\* Coordinator::install_keys, under both coordinator locks.
InstallKeys(t) ==
    /\ pc[t] = "materialised"
    /\ keys' = TRUE
    /\ ledger' = job[t].rest
    /\ Return(t, "done")
    /\ UNCHANGED <<durable, tail, sinkReady, world, minted, faults>>

InstallSink ==
    /\ ~sinkReady /\ sinkReady' = TRUE
    /\ UNCHANGED <<durable, keys, chain, pc, job, outcome, world, minted, faults>>

\* Mutant: the chain tail is not hydrated at start.
CrashForgetsTail ==
    /\ faults < MaxFaults
    /\ faults' = faults + 1
    /\ keys' = FALSE /\ ledger' = EmptyBag /\ tail' = NoManifest /\ sinkReady' = FALSE
    /\ pc' = [t \in Threads |-> "idle"]
    /\ job' = [t \in Threads |-> NoJob]
    /\ outcome' = [t \in Threads |-> "none"]
    /\ UNCHANGED <<durable, world, minted>>

\* The process dies and starts again: CoreImpl::new hydrates the chain tail,
\* the ledger waits for install_backup_keys.
Crash ==
    /\ faults < MaxFaults
    /\ faults' = faults + 1
    /\ keys' = FALSE /\ ledger' = EmptyBag /\ tail' = dbTail /\ sinkReady' = FALSE
    /\ pc' = [t \in Threads |-> "idle"]
    /\ job' = [t \in Threads |-> NoJob]
    /\ outcome' = [t \in Threads |-> "none"]
    /\ UNCHANGED <<durable, world, minted>>

GoOnline ==
    /\ ~online /\ online' = TRUE
    /\ UNCHANGED <<durable, keys, chain, sinkReady, pc, job, outcome, sinkSegments,
                   sinkManifests, minted, faults>>

GoOffline ==
    /\ online /\ faults < MaxFaults
    /\ online' = FALSE /\ faults' = faults + 1
    /\ UNCHANGED <<durable, keys, chain, sinkReady, pc, job, outcome, sinkSegments,
                   sinkManifests, minted>>

-----------------------------------------------------------------------------
Init ==
    /\ journal = <<>> /\ store = [m \in AllMessages |-> "absent"]
    /\ cursor = 0 /\ dbLedger = {} /\ dbTail = NoManifest
    /\ keys = FALSE /\ ledger = EmptyBag /\ tail = NoManifest /\ sinkReady = FALSE
    /\ pc = [t \in Threads |-> "idle"] /\ job = [t \in Threads |-> NoJob]
    /\ outcome = [t \in Threads |-> "none"]
    /\ online = TRUE /\ sinkSegments = {} /\ sinkManifests = {}
    /\ minted = 0 /\ faults = 0

Incremental(t) ==
    \/ Read(t) \/ CutIncremental(t) \/ KeysMissing(t)
    \/ PersistIncremental(t) \/ CursorRefused(t) \/ CommitIncremental(t)
Compaction(t) ==
    \/ \E now \in 0..MaxTime : Compact(t, now)
    \/ CutCompaction(t) \/ PersistCompaction(t) \/ DuplicateRow(t) \/ CommitCompaction(t)
Upload(t) == UploadSegment(t) \/ UploadManifest(t)
Install(t) == Materialise(t) \/ InstallKeys(t)

Next ==
    \/ Journalling
    \/ \E t \in Threads :
          Defer(t) \/ Incremental(t) \/ Compaction(t) \/ Upload(t)
          \/ UploadFails(t) \/ PersistFails(t) \/ Install(t)
    \/ InstallSink \/ Crash \/ GoOnline \/ GoOffline

Spec == Init /\ [][Next]_vars

-----------------------------------------------------------------------------
(* Properties.                                                              *)

\* Every variable holds a value of the kind the code's types allow.
TypeOK ==
    /\ journal \in Seq(Event)
    /\ store \in [AllMessages -> {"absent", "live", "deleted"}]
    /\ cursor \in Nat /\ minted \in Nat /\ faults \in Nat
    /\ dbLedger \subseteq Segment /\ IsLedger(ledger)
    /\ dbTail \in Manifest /\ tail \in Manifest
    /\ keys \in BOOLEAN /\ sinkReady \in BOOLEAN /\ online \in BOOLEAN
    /\ pc \in [Threads -> PCs] /\ job = [t \in Threads |-> job[t]]
    /\ \A t \in Threads : IsJob(job[t])
    /\ outcome \in [Threads -> {"none", "deferred", "done", "failed"}]
    /\ sinkSegments \subseteq Segment /\ sinkManifests \subseteq Manifest

SealedIn(segments) == UNION {s.seqs : s \in segments}

\* No event the cursor has passed is missing from the durable ledger: the
\* cursor moves in the same SAVEPOINT as the ledger row, so neither a crash
\* nor a second drainer opens a window in which events are skipped for good.
SegmentedEventsAreSealed ==
    \A i \in 1..cursor : journal[i].type \in Typed => i \in SealedIn(dbLedger)

\* A manifest the sink holds never refers to a segment the sink lacks: the
\* manifest is uploaded last (docs/DESIGN.md 6.3).
ManifestsAreRestorable == \A m \in sinkManifests : m.segs \subseteq sinkSegments

\* What a reader who replays the events in seqs, in journal order, would show.
Replay(seqs) ==
    {m \in AllMessages : \E i \in seqs :
        /\ journal[i].msg = m /\ journal[i].type = "received"
        /\ \A j \in seqs : j > i => journal[j].type # "deleted" \/ journal[j].msg # m}

\* Compaction never drops data: every message alive in the segmented part of
\* the journal is alive in a replay of the ledger (docs/DESIGN.md 6.6).
NoLiveMessageLost == Replay(1..cursor) \subseteq Replay(SealedIn(dbLedger))

\* No event is sealed into two segments of the ledger: a backup run never
\* re-publishes what an earlier one segmented (local_store/db.rs).
NoEventSealedTwice ==
    \A r, s \in dbLedger : r # s => r.seqs \cap s.seqs = {}

\* The coordinator's memory and the database tell the same story whenever no
\* call stands between its SAVEPOINT and its in-memory commit.
MemoryMirrorsDisk ==
    (keys /\ \A t \in Threads : pc[t] \notin {"persisted", "materialised"})
       => ledger = SetToBag(dbLedger) /\ tail = dbTail

\* The manifest chain is linear: of the manifests that left the device and
\* the persisted tail, no two share a generation, even across restarts.
ChainIsLinear ==
    \A m, n \in sinkManifests \cup {dbTail} : m.gen = n.gen => m = n

\* The manifest tail and the ledger on disk change in one SAVEPOINT, so
\* whatever calls interleave, the persisted tail resolves in the ledger.
PersistedTailResolves == dbTail.segs \subseteq dbLedger

-----------------------------------------------------------------------------
(* What the incremental backup amounts to when no thread compacts.          *)

Log == INSTANCE SealedLog WITH
    log <- journal, upto <- cursor, sealed <- SealedIn(dbLedger),
    stored <- SealedIn(sinkSegments),
    published <- UNION {SealedIn(m.segs) : m \in sinkManifests}

\* The calls, retries, crashes and lost uploads of the engine add up to this:
\* rows are sealed in journal order and without a gap, only a sealed row is
\* uploaded, and a manifest lists only what the sink already holds.
BackupIsASealedLog == Log!Spec

-----------------------------------------------------------------------------
(* Liveness.  The background scheduler calls run_incremental_backup again   *)
(* and again, the host unlocks the keystore after every start, and the      *)
(* device comes back online; faults are finite (MaxFaults).                 *)

Fairness ==
    /\ WF_vars(GoOnline)
    /\ \A t \in Threads : WF_vars(Incremental(t)) /\ WF_vars(Upload(t)) /\ WF_vars(Install(t))

FairSpec == Spec /\ Fairness

\* The window is full of rows that the reader cannot parse: they are skipped
\* after the SQL LIMIT, so the drain takes it for an empty one, for good.
DrainIsFrozen ==
    Cardinality(Window) = SegmentLimit /\ \A i \in Window : journal[i].type \notin Typed

\* Whatever fails on the way, a typed journal event is eventually sealed, unless
\* the drain comes to a full window of rows that read_events_since cannot parse:
\* nothing else stops it.
EventsAreEventuallySealed ==
    \A i \in 1..MaxJournal :
        (i \in DOMAIN journal /\ journal[i].type \in Typed)
            ~> (cursor >= i \/ DrainIsFrozen)

\* A message this device sends is eventually in the ledger: its journal row is
\* there so that the backup drainer sees it (the comment in send_media).
SentMessagesAreBackedUp ==
    \A m \in OwnMessages :
        store[m] = "live" ~> \E i \in SealedIn(dbLedger) : journal[i].msg = m
====
