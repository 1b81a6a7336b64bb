# Verification of the chat storage and search core

TLA+ models of `crates/core`, the storage, archive, backup and search library of
the chat client, TLC configurations that check them on small instances, and TLAPS
proofs of their main properties. Paths below are relative to `src/crates/core/src`
unless they start with `docs/` or `crates/`. `PROJECT.json` holds the exact
correspondence between definitions and lines, the hazards, and the run list.

| module | models | extended by |
| --- | --- | --- |
| `Backup` | the incremental backup engine: journal, cursor, ledger, manifest chain, drain, compaction, key installation, upload, crash | `MCBackup` (TLC), `BackupProofs` (TLAPS) |
| `SealedLog` | what the backup promises, without threads, memory or a chain | `BackupRefinement` (TLAPS): `Backup` implements it |
| `Restore` | a second device restoring from the sink that `Backup` writes; extends `Backup` | `MCRestore` (TLC), `RestoreProofs` (TLAPS) |
| `Timeline` | the messages of a conversation: timeline rows, search indexes, cold search and hydration, scroll-back, archive journal, segments, archive compaction | `MCTimeline` (TLC), `TimelineProofs` (TLAPS) |
| `ColdSearch` | searches over remote index shards, the shard cache, its warming, the sweep that replaces shards | `MCColdSearch` (TLC), `ColdSearchProofs` (TLAPS) |
| `Media` | media assets: upload, eviction by the storage budget, rehydration, migration between sinks, deletion | `MCMedia` (TLC), `MediaProofs` (TLAPS) |
| `Scheduler` | the in-process scheduler: recurring workers, cancellation, one-off tasks | `MCScheduler` (TLC), `SchedulerProofs` (TLAPS) |
| `Downloads` | the resumable download of a model file | `MCDownloads` (TLC), `DownloadProofs` (TLAPS) |

Some definitions of the models are followed by no use: their comment begins with "Mutant".
Each is a plausible bug in place of the definition after it, and `PROJECT.json` names the
property that the bug breaks; they document that no property holds vacuously.

To check: `tlc -config BackupRace.cfg MCBackup` (and so on, one module and one
configuration per run of `PROJECT.json`); to prove: `tlapm BackupProofs.tla`, and likewise
`BackupRefinement`, `RestoreProofs`, `TimelineProofs`, `ColdSearchProofs`, `MediaProofs`,
`SchedulerProofs`, `DownloadProofs`. Every safety and action property that a passing run checks is
also stated by a theorem, under the hypotheses named with it; liveness is for TLC alone.

## 1. The system

`CoreImpl` (`core_impl.rs`) is a facade over one SQLCipher database and a set of
coordinators. Host threads and the background scheduler call it concurrently. Its
state is behind mutexes: `db_writer` (the database connection), the backup
coordinator, the archive coordinator, the transport, the sinks. A call takes and
releases `db_writer` as often as it likes, and does its network and crypto work in
between: **the unit of atomicity is one hold of a lock**, inside which a SAVEPOINT
makes several statements one. That is the granularity of the models; `Downloads`, whose
state is the file system, goes down to single reads, writes and renames.

### 1.1 Components

**Message processor** (`message/processor.rs`). State: the `message_skeleton`,
`message_body`, `search_fts`, `search_fuzzy`, `search_vector` rows of a message, and
one row in each of the two journals. Operations: `persist_ingested_message`,
`persist_outbox_entry`, `mark_sent`, `edit_message`, `delete_for_me`,
`delete_for_everyone`. Each is one SAVEPOINT which rewrites the body and three
indexes by hand. Correct when the indexes say what the timeline shows, the body
state follows its state machine, and every event reaches both journals.

**Local store** (`local_store/`). State: the schema of `schema.rs` and the five state
machines of `state_machines.rs`. Operations: row-level helpers, the SAVEPOINTs that
the backup engine persists with, `delete_conversation`, `rehydrate_message_body`,
`upsert_skeleton_from_archive`. Correct when a cascade leaves no orphan and each
SAVEPOINT moves ledger, cursor and chain tail together.

**Incremental backup** (`backup/`, `core_impl.rs` 4081–4856, 5907–5931). State: the
journal, cursor, ledger and chain tail in SQLite; the ledger and the tail again in the
coordinator's memory; segments and manifests in a sink. Operations:
`run_incremental_backup`, `compact_backup`, `install_backup_keys`, the restart.
Correct when the cursor passes nothing that is not sealed, compaction loses nothing
alive and revives nothing deleted, memory and disk agree, the chain is linear, and a
manifest in the sink finds its segments.

**Archive** (`archive/`, `core_impl.rs` 876–, 4889–5083). State:
`archive_event_journal`, its cursor, `archive_segment_map`, remote segments, epoch
keys. Operations: journal reader and cursor, segment builder and upload, prefetch of a
bucket, compaction of a bucket, epoch rotation. The loop that drives journal, builder,
upload and cursor is the host's (`crates/core/tests/archive_pipeline.rs` shows it).
Correct when no live text behind the cursor goes out of service.

**Search** (`search/`). State: the three local indexes; encrypted index shards per
`(conversation, month)`; the shard cache; the prefetch queue. Operations: local
search, cold search over shards, shard building, shard cache and prefetch, replay of
cold shards. Correct when search finds what the timeline shows, marks as cold exactly
what has to be hydrated, says so when it could not look everywhere, and the cache
charges what it holds.

**Cold hydration and scroll-back** (`core_impl.rs` 2285–2584). Reads the segments of a
bucket and writes the timeline. Correct when it neither hides nor revives anything.

**Restore** (`restore/`, `core_impl.rs` 6151–6435). State: the `restore_state` row, the
manifest chain walked so far. Operations: the staged pipeline, its resumption, key
recovery, manifest verification. Correct when stages advance in order and resume
where they stopped, and the result is the state that was backed up.

**Media** (`media/`) and **offload** (`offload/`). State: `media_asset` rows with
`media_state`, local bytes, remote blobs in three sinks, a hydration queue. Operations:
upload, download, eviction, rehydration, migration between sinks. Correct when no original
is lost, states follow their diagram, and a budget pass evicts what it must and no more.

**Scheduler** (`scheduler/in_process.rs`). State: a handler and a worker thread per task,
each with a shutdown flag and a condition variable; the queue of one-off tasks; a device probe.
Operations: registering, scheduling, periodic runs, cancellation, queueing and draining one-offs.
Correct when no live thread is lost, cancellation ends, and a one-off is run at most once.

**Models** (`models/`). State: downloaded model files with digests, a registry, the
resource gate. Correct when a file is whole and its digest is the file's.
**Transport** (`transport/`): HTTP client, offline detector. **Crypto, formats**
(`crypto/`, `formats/`, `cbor.rs`): pure functions. **Bindings** (`crates/android-bridge`,
`crates/ios-bridge`, `desktop_index.rs`): type conversion.

### 1.2 How they interact, and what is hard

* The processor writes both journals; the backup drain and the archive driver are
  independent readers, each with a cursor of its own.
* The drain, backup compaction and key installation share the coordinator's memory and
  the database and release the lock between reading, sealing, persisting, committing
  and uploading: **interleavings**, **stale snapshots**, **crashes between two steps**,
  **uploads that fail or are never retried**.
* Cold search returns results to the host, which hands them back to hydration whenever
  it likes; hydration fetches under the lock and applies event by event after its
  release; scroll-back inserts what it fetched earlier: **results used after the state
  they were computed from has changed**.
* Archive compaction commits its output and marks its inputs superseded under different
  holds of the lock, with another compactor, the verifier and the driver in between.
* A search, a rehydration, a migration and an upload do their network work with no lock held:
  shards are replaced, assets evicted, messages deleted **while bytes are on the way**.
* A model download is resumed by later attempts, later calls and later processes from
  **whatever the last one left on disk**.
* `delete_conversation` erases rows the journals, the segments and the calls in flight
  still refer to, and the conversation may come back.

`PROJECT.json` lists each of these at its line under `hazards`.

## 2. `Backup`

### 2.1 Correspondence

| state | code |
| --- | --- |
| `journal`, `cursor`, `dbLedger`, `dbTail` | the four `backup_*` tables |
| `store` | what the skeletons say of each message: absent, live, deleted |
| `ledger`, `tail`, `keys` | `Coordinator.chain_state` and the installed keys, lost in a crash |
| `sinkReady`, `online`, `sinkSegments`, `sinkManifests` | the sink and the network |
| `pc[t]`, `job[t]`, `outcome[t]` | where thread `t` is in its call, its locals, its result |

| actions | code |
| --- | --- |
| `Ingest`, `Edit`, `Delete`, `Send`, `MarkSent`, `DeleteConversation` | the processor's SAVEPOINTs, as far as the journal sees them |
| `Defer` / `Read` / `CutIncremental` / `KeysMissing` / `PersistIncremental` / `CursorRefused` / `CommitIncremental` | `run_incremental_backup_inner`, one action per hold of a lock |
| `Compact` / `CutCompaction` / `PersistCompaction` / `DuplicateRow` / `CommitCompaction` | `compact_backup` |
| `UploadSegment` / `UploadManifest` / `UploadFails` / `PersistFails` | the sink, and the ways a call ends early |
| `Materialise` / `InstallKeys` / `InstallSink` / `Crash` | keys, sink, process death with `CoreImpl::new` |
| `GoOnline` / `GoOffline` | the offline detector |

Abstractions: a segment's encrypted events are the set of sequence numbers it seals; a
manifest's hash link is the identity of its predecessor; a UUID is a fresh number, and
the groups of one compaction, whose ids the code derives, are told apart by content;
the in-memory ledger, whose order nothing reads, is a bag (a reinstallation can make it
hold a row twice). Rows are stamped by a wall clock that may be set back, so `at` is any
value. The window is a SQL `LIMIT` applied before rows with unknown tags are skipped.

### 2.2 Runs

| run | instance | shows |
| --- | --- | --- |
| `BackupRace` | two threads drain and install keys, one of them compacts; a message sent and one received, whose conversation is dropped and which is redelivered; window of one row | `TypeOK`, `PersistedTailResolves` |
| `BackupSerial` | a message with media and one without; one thread drains, compacts to weekly and monthly, reinstalls keys; one fault | `NoLiveMessageLost`, `NoEventSealedTwice`, `MemoryMirrorsDisk`, `ChainIsLinear` |
| `BackupCompactRace` | a drainer and a compactor | violates `NoLiveMessageLost` |
| `BackupOutbox` | one sent message, no fault | violates `SentMessagesAreBackedUp` |
| `RestoreRun` | see 3 | `SegmentedEventsAreSealed`, `ManifestsAreRestorable`, `BackupIsASealedLog`, `EventsAreEventuallySealed` among others |

Bounds. Two journal rows and a window of one (`BackupRace`) let two threads seal
different windows, or the same one, and compact what they sealed; four rows
(`BackupSerial`) let two segments be compacted while two more are sealed,
with weekly groups merged again into a monthly one (`WeekLength` 1, `MonthLength` 4,
`WeeklyToMonthly` 1). `MaxMinted` is large enough for every id those calls draw,
including those of a call that is repeated after a fault. `MaxFaults` covers crashes, failed
SAVEPOINTs, failed uploads and disconnections together: one is enough to split any
call at any step, two (`RestoreRun`) let recovery itself be interrupted. Threads have
different roles, so no symmetry is used. `DropsConversations` is true in `BackupRace` and
`RestoreRun`; `BackupSerial` leaves it out, since a message that is received, deleted, dropped
with its conversation and received again is lost by `apply_tombstones` (see 9). Deadlock is
not checked: with the bounds used up, the system stops.

`BackupSerial` has one thread: a concurrent drain or compaction breaks the properties
(`BackupCompactRace` shows it for the first; two drains of one window, which the cursor
check admits, seal its events twice), so what it shows is that crashes and failures alone do
not.

`EventsAreEventuallySealed` says that nothing stops the drain but one thing: a full window of rows whose tags
the reader cannot parse (`DrainIsFrozen`). The `LIMIT` counts them, so the drain takes the window for an empty one
and never moves again (see 9). `RestoreRun` has a window of one row, so a single row of a sent message freezes the drain,
whether it comes before, between or after the rows of received ones; the rows in front of it, and all rows where
there is none, must still be sealed through faults. That shorter runs of such rows are skipped within a longer window is in
the model (`Drainable`) (`BackupOutbox` has a window of three) and part of the
theorem `NothingSkipped` for any window.

Fairness. `WF(GoOnline)`: the device does not stay offline forever. `WF(Incremental(t))`:
the scheduler's periodic task calls `run_incremental_backup` again and again, and a call
that has begun goes on. `WF(Upload(t))`: the sink answers, with success or failure.
`WF(Install(t))`: the host installs keys after each start. Faults are finite
(`MaxFaults`), which is what "eventually" needs. Nothing is assumed of compaction.

### 2.3 Proofs (`BackupProofs`)

* `TypesCorrect`: `Spec => []TypeOK`, from `TypeInv`, which adds that windows and
  cursors lie in the journal.
* `TailResolves`: `Spec => []PersistedTailResolves`, for any threads, compactors
  included. `TailInv` adds `CutsAgree`: between cut and commit, a call's manifest lists exactly
  what the call is about to make durable (its own segment, or the whole compacted ledger).
* `NothingSkipped`: `Spec => []SegmentedEventsAreSealed` when `Compactors = {}`. The
  inductive invariant `CursorInv` adds `WindowsCovered`: whatever a drainer has read, every
  typed row up to its last one is either in the ledger already or in the drainer's own hands.
  It survives the other drainers because without compaction the ledger only grows. With a
  compactor that, and the theorem, is false: the ledger is rewritten from an old snapshot.
* `NothingDangles`: `Spec => []ManifestsAreRestorable` when `Compactors = {}`: while a call
  uploads, each segment its manifest lists is at the sink or still in the call's hands
  (`UploadInv`). With a compactor it is false (see 9).

Four theorems assume `Threads = {a}`, that is, that backup calls do not overlap; they hold for any
compaction policy, keys, messages, bounds and faults. The hypothesis is needed: a compaction
beside a drain rewrites the ledger from an old snapshot (`BackupCompactRace`), and two drains that
start at one cursor seal its window twice and fork the chain.

* `MemoryAgrees` (`MemoryMirrorsDisk`), `ChainStaysLinear` (`ChainIsLinear`), `NothingSealedTwice`
  (`NoEventSealedTwice`), from `SerialInv`. None of the three is inductive alone. A drain
  appends to the in-memory ledger what it made durable one step earlier, so `LedgerInStep`,
  `DrainInStep` and `CompactionInStep` say, for each point of a call, what memory, the call's locals and the
  database hold of each other, with the ledger as a bag: equality after the commit rests on the new segment being in
  no row, which rests on ids (`LedgerOnDisk`: no row carries an id that has not been minted) and on
  windows starting behind the cursor. The chain rests on `SinkIsOlder` (nothing at the sink is newer than
  the persisted tail, though an upload may have been reported as lost) and `TailInStep` (a
  call extends the tail that is on disk).
* `NoLiveMessageIsLost` (`NoLiveMessageLost`), with `~DropsConversations` as well, from `AliveInv`: every
  reception behind the cursor is sealed or is followed, behind the cursor too, by the deletion of its
  message (`Accounted`), in the ledger and in what a compaction is about to put in its place. That is
  why what `apply_tombstones` leaves out is not missed. It needs `JournalOrder`: a deletion comes
  after the reception, and a deleted message is not received again. The second is what a dropped
  conversation breaks (see 9).

`EventsAreEventuallySealed` is liveness and model-checked only.

### 2.4 The abstract log (`SealedLog`, `BackupRefinement`)

`SealedLog` has a log that only grows, a mark, the rows sealed, stored and published, and
four steps. It says what a reader of the backup may rely on: everything typed up to the mark
is sealed, **in journal order and without a gap**; only sealed rows are uploaded; a manifest
reaches only rows that the sink holds. The refinement mapping takes the log from the journal,
the mark from the cursor, the sealed rows from the ledger, the stored and published ones from
the sink's segments and manifests. Threads, memory, ids, retries and faults disappear.

`ImplementsSealedLog`: `Compactors = {}` implies `Spec => BackupIsASealedLog`, for any threads
and bounds. That nothing is skipped is `NothingSkipped` (2.3); the other direction is the
invariant `SealInv`: the ledger seals nothing but typed rows behind the cursor, a call seals
only rows of the window it read, though other drains may have sealed some of them meanwhile, and
it sends only segments whose ledger row is durable. Together they give equality, which the
step `Seal` asks for. Compaction rewrites rows and tombstones them, so with
compactors the backup is no such log.

`NothingLostUncompacted`: the same equality gives `Spec => []NoLiveMessageLost` when `Compactors = {}`, for any
number of overlapping drains and with conversations dropped and received again: a reader of the ledger meets the
same receptions and deletions as the journal has. Beside `NoLiveMessageIsLost` it shows that overlap
alone loses nothing, nor does dropping: compaction has to take part.

## 3. `Restore`

A device without state calls `restore_from_backup` against the sink that the device of
`Backup` keeps writing, failing at and crashing beside. `stage` is the `restore_state` row of
`restore/state_machine.rs`, `done` how many transitions the running call has written; `asked`,
`target` and `got` are the call's manifest id, verified manifest and decrypted segments. The
actions are the call's steps: `Begin` (validation, reset), `Advance`, `FetchManifest`,
`FetchSegment`, `RestoreSkeletons`, `Finish`, and `Fails` / `Interrupted`, which leave the row
where it is. The call holds `db_writer` throughout, so there is one at a time, but each transition
commits by itself. Abstraction: decryption and hash checks succeed on what the backup wrote;
what the pipeline counts and does not store is left out.

`RestoreRun` (two rows, a window of one, two threads of different roles, two faults, conversations dropped):

* `StageIsEarned`: whatever interrupted attempts came before, a stage in the row stands for
  what the *last* call did: the manifest asked for was read, every segment it lists was opened;
* `OnlySegmentedIsRestored`: what a restore decrypts is behind the other device's durable
  cursor, so no crash there can make it seal those rows differently;
* `RestoresComplete`: once faults are used up, a restore of a published manifest completes;
* and, of the same composed behaviours, the safety and liveness of the backup (2.2) and the
  refinement (2.4).

Fairness beyond that of `Backup`: a running restore takes its next step unless the process
dies. Nobody has to start one.

`RestoreProofs` proves, for any threads, messages, bounds and faults of the other device:

* `RestoreTypesCorrect`, from the type invariant of `Backup`: the sink holds only segments and
  manifests, and an interruption touches nothing of the other device but the fault budget;
* `RowIsEarned` (`StageIsEarned`). The property alone is not inductive: it does not say that
  the row stands where the running call does. `EarnInv` does, and that the row is the *k*-th
  stage for some *k* whose evidence is there; the reset at `Begin` is what establishes it, and the
  sink only growing (`SinkGrows`, one step per action of the other device) is what keeps it;
* `OnlyTheSegmentedIsShown` (`OnlySegmentedIsRestored`) where `Compactors = {}`: what was
  fetched is in the sink, what is in the sink is in the durable ledger, and what the ledger
  seals is behind the cursor. The last two are `SealInv` of 2.4, so the invariant of the
  refinement carries the theorem.

`RestoresComplete` is liveness and model-checked only.

## 4. `Timeline`

### 4.1 Correspondence

| state | code |
| --- | --- |
| `conversation` | whether the conversation row, the target of the skeletons' foreign key, exists |
| `bodyState[m]`, `born[m]`, `body[m]` | `message_skeleton.body_state`, the bucket of its `created_at_ms`, `message_body.text_content` |
| `fts[m]`, `fuzzy[m]`, `vector[m]` | the texts the three indexes hold for the message |
| `journal`, `cursor`, `segments` | `archive_event_journal`, `archive_event_cursor`, `archive_segment_map` with the contents of each remote segment |
| `month` | the clock, in archive buckets |
| `pc[t]`, `job[t]` | where a call that releases the lock is, and what it holds in memory |

| actions | code |
| --- | --- |
| `CreateConversation`, `DeleteConversation` | `create_conversation`, `delete_conversation` |
| `Ingest`, `SendText`, `Edit`, `Delete` | `ingest_messages` (with its best-effort embedding), `send_text`, `edit_message`, `delete_for_me` / `delete_for_everyone` |
| `SearchCold` → `HydrateFetch` → `HydrateApply`… | `search` with `IncludeCold`, then `hydrate_cold_search_results`: fetch under the lock, one `rehydrate_message_body_locally` per archived text |
| `ScrollFetch` → `ScrollApply`… | `rehydrate_timeline_skeletons_with_router`: fetch, then one hold per segment |
| `ArchiveRead` → `ArchiveSegment`… → `ArchiveAdvance` | the host's archive driver over `read_events_since`, `upload_archive_segment` + `persist_segment_map_row`, `advance_cursor` |
| `VerifySegment` | the Merkle cross-check (external) that makes a segment eligible for compaction |
| `CompactRead` → `CompactCommit` → `CompactFlip` | `compact_archive_inner`: phases A, B–D, E |
| `Return` | a call that fails or dies at any point, or that the host drops |

Abstractions: every text ever written enters the archive journal as one event, so a text
*is* the sequence number of that event; that makes "the index holds the text the timeline
shows" and "a stale text came back" expressible without strings. Message kinds other than
text are left out. Media, drafts and reactions do not touch these rows. Creation times
matter only through the month they fall into; the sender's clock may put a message in an
earlier month, the local clock stamps edits and deletions. A segment's remote contents are
part of its row, because a segment is uploaded before its row is written and is never
overwritten. A cold hit is any `(message, month)` the merge in `query_engine.rs` can mark
cold: an archived text the local lane does not hold under that wording, or a stub.

### 4.2 Properties

* `IndexMirrorsBody`: both lexical indexes hold exactly the text of a resident message,
  and nothing (embeddings included) for any other.
* `StubsAreArchived`: the month of an archive-only stub has a segment that mentions the
  message, so following the stub finds something.
* `RowsNeverBecomeStubs`: an action property. Scroll-back with an old fetch never turns
  a row into a stub ("existing local rows always win").
* `ArchiveKeepsLiveTexts`: a text behind the archive cursor whose message was never
  deleted is in a segment that is not superseded.
* `DeletedForEveryoneIsTerminal`: what `state_machines.rs` says of the terminal states.
  The code violates it.

### 4.3 Runs

| run | instance | shows |
| --- | --- | --- |
| `TimelineRun` | one message, a reader, an archive driver, two compactors, two months, the conversation dropped and recreated | all but the last |
| `TimelineTombstone` | one message, a reader, a driver | violates `DeletedForEveryoneIsTerminal` |

Bounds. Two events are a message received and then edited or deleted, or lost with its
conversation and received again with another text; two months let an edit or a deletion land
in another bucket than its message; three segments let two be merged in one bucket
while a second compactor still holds them. The properties speak of one
message at a time and no guard or effect on a message reads another's rows, so one message
suffices; a merge in which one message survives and another is dropped is what the theorem
`NoLiveTextIsLost` covers beyond the run. Deadlock is not checked: with the bounds used up, the
system stops.

### 4.4 Proofs (`TimelineProofs`)

All for any messages, readers, archivers, compactors and bounds; from
`TimelineAssumption`, which gives the constants their types.

* `TimelineTypesCorrect`: `Spec => []TypeInv`. Every sequence number a row, a segment or a
  call holds names an event of the journal. The lemmas share `Grew`, the fact every step
  satisfies: journal and segment map only grow, and a segment keeps bucket and contents.
* `SearchMirrorsTimeline`: `Spec => []IndexMirrorsBody`. `IndexMirrorsBody` is inductive
  next to `TypeInv`, message by message (`Mirrored`): hydration refreshes body, state and both
  indexes in one SAVEPOINT, so that even a stale one leaves them equal.
* `ExistingRowsWin`: `Spec => RowsNeverBecomeStubs`, from `IndexMirrorsBody` (an absent row
  has no body).
* `StubsCanBeFollowed`: `Spec => []StubsAreArchived`, from `Grew`: segments do not change
  bucket or contents when they are superseded.
* `NoLiveTextIsLost`: `Spec => []ArchiveKeepsLiveTexts`. The property alone is not
  inductive. `ArchiveInv` adds what the calls in flight have achieved:
  `DriverSealed` (what a driver has taken out of its window is archived, so the cursor may
  move) and `CompactorSealed` (whatever a compactor is about to supersede is held by a
  segment that is in service and **newer** than all of its sources). "Newer" carries
  the argument: two compactors may supersede each other's outputs, so "held by some other
  segment" is not preserved; but a flip only ever removes segments in favour of newer
  ones, so the newest holder of a live text survives every flip (`FlipKeeps`). A deletion
  anywhere only shrinks the set of live texts (`LiveShrinks`).

Nothing of `Timeline` is a liveness property: no code retries a hydration or a
compaction; the host decides.

## 5. `ColdSearch`

### 5.1 Correspondence

| state | code |
| --- | --- |
| `resident` | the messages the local indexes hold |
| `shards[b]`, `sweep` | a bucket's text and fuzzy shard at the archive; an upload of new ones in progress |
| `cache` | `ShardCache`: entries in order of use, bytes charged |
| `search[s]` | the locals of a search and, with `at = "done"`, its result; a stream's events |
| `steady`, `sweeps` | history: the rows that were in both shards of a bucket from the start; a count |

The three ways of searching differ where the code differs: `StartBucket` (one bucket at a time or
`Concurrency` at once), `LoadFails` (error, skip with notice, silent drop), `Merge` (as they come, or when
all are there) and `Emit` (the stream's callback). A shard is fetched in two steps around the network
(`Miss`, `Load`, `Keep`; or `Hit`), each a hold of the cache's lock or none. `Warm` is
`warm_shard_cache` for one bucket: what is cached is touched, what is not is fetched and kept, and an error leaves
what came before it; `StartSweep` and `UploadHalf` are `upload_search_shards`, one shard after the
other. Abstractions: one query; a row stands for its message and charges one unit; a list
that is ranked and cut at the `limit` is any choice of that many rows (`Top`), for the local pass as for the
result; scopes and the bloom probe (nothing uploads a bloom shard) are left out. So are structured filters:
a lane asks for four times the limit, and when a filter discards most of that, the local pass may return
fewer rows than the limit though more exist.

### 5.2 The run

`ColdRun`: two buckets, one message in both and one that only an earlier device archived, a cache of
two rows, limits of one and of two rows, one searcher beside warming and one sweep. A budget of two rows against four shards makes
entries be replaced, evicted and fetched again while a search holds stale ones. A limit of one
is exceeded by what the buckets add, one of two is not always reached.

* `CacheIsAccounted`: the count kept by hand equals what is held, and stays within the budget;
* `SilenceMeansComplete`: a sequential or streaming search that reports neither an error nor a
  skipped bucket, and returns fewer rows than its limit, has missed no match that was in its buckets
  all along. A parallel search is excepted: it drops a failed bucket without a word;
* `StreamAddsUp`: local results first, one delta per bucket without repetition, and a final event
  that is the result: all that was sent or, where that is more than the limit, as many rows of it as
  the limit admits. The deltas themselves are not cut.

One searcher: searches share nothing but the cache, and `Warm` and the sweep already change cache and
shards under a search at any step; the theorems are for any number of them. There is no liveness
property: nothing retries.

### 5.3 Proofs (`ColdSearchProofs`)

For any searchers, budget, concurrency and sweeps, and any finite sets of messages and buckets:

* `ColdTypes` and `CacheAccounts` (`CacheIsAccounted`), from `AccountsInv`, their conjunction. A charge is
  the number of rows held under distinct keys, and that keys are distinct is part of the type: a
  replacement that left the old entry would charge it for ever. Eviction takes entries in order
  of use until the rest fits, and a shard larger than the whole budget is dropped as well.
* `SilenceComplete` (`SilenceMeansComplete`), from `SilenceInv`: shards, cache entries and whatever a search
  has fetched of a bucket *cover* it, that is, hold each match that was there all along; a bucket a search
  has merged and not skipped is found. A result shorter than the limit was not cut. History shrinks (`steady` loses what a sweep
  replaces), so stale entries stay good for what they still must answer. A parallel
  search whose other shard failed still puts this one into the cache, where sequential searches read
  it: hence a loaded shard covers its bucket even when the search counts the bucket as broken.
* `StreamsAddUp` (`StreamAddsUp`), from `StreamInv`: a running stream has sent one event for its local results
  and one for each merged bucket, pairwise disjoint, and together they are its hits, which `Finish` cuts. Counting
  events against merged buckets is what makes the final event come last and once.

## 6. `Media` and `Downloads`

### 6.1 `Media`: correspondence

| state | code |
| --- | --- |
| `message[a]`, `state[a]`, `home[a]`, `local` | the message; `media_state`, `storage_sink` with `blob_id`, and whether `bytes_local` is not 0, of its `media_asset` row |
| `cold`, `other` | what else eviction looks at: archived, old, unpinned; usage apart from media |
| `objects` | the blobs that exist, by sink and asset: an asset is uploaded to a sink under one id |
| `origin[a]` | the sink that the descriptor of the received message names, also when it is delivered again |
| `dropped` | history: the assets whose conversation was deleted |
| `found` | rows of the search lanes that the models wrote, under the message id or a page id |
| `viewing[v]`, `moving[m]` | a `rehydrate_media_for_message` and a `migrate_media_sink` in progress |

| actions | code |
| --- | --- |
| `Send`, `Receive`, `Redeliver`, `Delete`, `DeleteConversation` | `send_media`, ingest, ingest of a message whose skeleton `delete_conversation` removed (the duplicate check passes), the deletions |
| `Upload`, `Settle` | `route_media_upload` and `transition_media_state`: the library offers them, the host calls them |
| `EnforceBudget` | `enforce_storage_budget`: usage, pressure, candidates, tiered plan and execution in one hold |
| `EnforceBudgetFails` | the same pass when one of its two `execute_eviction` calls fails: the rows updated before stay evicted |
| `Open` → `Download` → `Land` → `Index` | the four phases of a rehydration, two of them without the lock |
| `PlanMigration`, `Start` → `Probe` → `Fetch` → `Copy` → `ReadBack` → `Update` → `DropSource` | a plan, which can be executed again and late, and `migrate_one` per item |
| `DownloadFails`, `ItemFails`, `Crash` | failures; process death |

Abstractions: one asset per message, one message per conversation; which candidates score highest is
left open, so `Plans` are all plans a score could give. Migrations run between `Clouds` only: the backend is
not a `MediaBlobSink`, and `media/migration.rs:33-39` puts it out of scope. Google Drive is left out, because its file ids are
never persisted (see 9).

### 6.2 `Media`: runs and proofs

| run | instance | shows |
| --- | --- | --- |
| `MediaRun` | an asset sent, of two bytes and a `text/` type, and one received, of three; the backend and two clouds; one viewer, one migrator; marks at 2, 3 and 4 bytes | `MediaTypeOK`, `RowsResolve`, `StatesFollowTheDiagram`, `EvictionIsFrugal` |
| `MediaDeleted` | two readable assets, one viewer | violates `DeletedMediaIsNotFound` |

The sizes and marks let a pass meet its target with either asset, with both, or with none, at all
three pressures. Two clouds let an asset be moved, moved back and moved by a plan that has become stale; a third of
them, or more assets and viewers, are covered by the theorems. The two clouds are a symmetry set: nothing
tells them apart, and no liveness is checked.

* `RowsResolve`: an asset that has left `thumbnail_only` names a sink, and the sink holds its blob. One case
  is exempt, in which the code has no defence (see 9): a row that was delivered again after its
  conversation was deleted, as long as it names the sink of its descriptor. Once a migration has moved
  such a row it is covered again. Checked with one migration at a time: two of opposite
  directions break it (see 9).
* `StatesFollowTheDiagram`: `execute_eviction` writes `media_state` with a raw `UPDATE`; the diagram of
  `MediaState::try_transition` holds all the same.
* `EvictionIsFrugal`: a pass reaches its mark or runs out unless the storage fails it, and, failed or not,
  stops once it is there and takes backend originals only after every cloud candidate.

Proved (`MediaProofs`), for any assets, sinks, viewers, migrators, marks: `MediaTypesCorrect`,
`DiagramHolds`, and `OriginalsResolve` for at most one migrator. `RowsResolve` alone is not inductive: a stale
plan deletes a blob long after it was made. `RowsInv` adds that an asset without a row names no blob
(`NoRowNoBlob`); `PlansInv` that a planned row has named a blob ever since, or has gone with its conversation
(`PlanOwns`: so nothing uploads it a first time behind the migrator's back), and, item by item, what
the migrator has achieved (`Achieved`): the copy is at the target until the row is written, and before
`DropSource` the row has left the source. It cannot come back to it but by a redelivered descriptor, which is
the exempt case, because only a migrator moves rows (`Moves` lists what any other step may do to a row). That last step is
where a second migrator breaks the argument.

`BudgetIsFrugal` (`EvictionIsFrugal`) is an action property and needs the type invariant only; its argument is
about `Plans`. `Bytes(S)` counts a pair (asset, number) for each byte, so that sizes of disjoint sets
add up by cardinality (`BytesAddUp`). Pressure implies a positive number of bytes to free
(`PressureAsksForBytes`); if the candidates of the clouds meet it nothing is asked of the backend, else all of
them are taken (`TieredPlansAreFrugal`); and no other action evicts (`OnlyTheBudgetEvicts`).

### 6.3 `Downloads`

`models/http_downloader.rs`, down to the file system: `partial` and `dest` are the two names, `content` and
`synced` the files behind them, `call[t]` the locals of `download_model` and `run_attempt`, `artifact[t]` the
digest the last call returned. A model is a sequence of chunks marked with the build they come from;
`Release` replaces the build at the URL, which the server then serves with 206, 200 or 416. One action per
request, file operation or read of the body; `RequestFails` and `BodyBreaks` fail them; `Crash` loses the
call and cuts every file that was not synced to any beginning of it (renames are taken to be durable in
order: the code syncs the file, not the directory).

`DownloadRun`: builds of two and three chunks, three attempts, three faults, two files.

* `DestIsWhole`: the file at `dest` has all its chunks, each in its place, after any breaks, resumes,
  releases and power cuts ("a concurrent reader never sees a truncated file");
* `ArtifactMatchesFile`: the digest returned is the digest of the file;
* `ModelArrives`: no leftover can wedge the download: unless the host stops calling for good, a model
  arrives. Fairness: a call's next step happens (a request is answered or times out). Nobody has to call;
  faults are finite.

Proved (`DownloadProofs`): `DownloadTypesCorrect` for any number of calls; `FileIsWhole` and
`DigestIsTheFiles` for one call at a time, for any builds, lengths, attempts and faults. The invariant says
what the hasher has seen: between priming and opening it is the partial's content, while the
body arrives it is the content of the open file, which still bears the partial's name
(`HasherInv`); what has been received ends at the build's length with a chunk of that build
(`FromThisBuild`). With two calls it is false, and so are the properties (see 9). `ModelArrives` is checked by TLC only.

## 7. `Scheduler`

### 7.1 Correspondence

| state | code |
| --- | --- |
| `handlers`, `workers`, `queue`, `offHandler` | the four mutexes of `InProcessScheduler` |
| `thread[w]` | worker `w`: its task, whether it captured a handler, its shutdown flag, where it is in its loop |
| `pc[c]`, `held[c]` | where host thread `c` is in its call, and what it took out of the shared state |
| `enqueued`, `runs`, `dropped` | history: one-offs accepted, run, and lost with a panic |

| actions | code |
| --- | --- |
| `SetHandler`, `Lookup`, `Spawn` | `set_handler`; `spawn_worker`, once under each lock |
| `Check`, `Timeout`, `HandlerEnds` | a worker's loop: it looks at the flag and waits in one step, since the wait releases the lock; its handler returns or panics |
| `CancelDrain`, `CancelFlag`, `CancelNotify`, `CancelJoin` | `cancel_all`, one worker after the other in any order (`Drop` calls it too) |
| `SetOneOffHandler`, `Enqueue`, `ReadOneOffHandler`, `Partition`, `RunOneOff`, `PushBack` | the one-off queue and `run_pending_one_off_tasks` |

Time is not kept: an interval may elapse at any moment or never. Which one-offs a device
can run depends on the probe, so any part of the queue may be ready. A schedule with
interval 0 is refused before anything happens and is left out, as are tick counts. Mutexes are
not poisoned: no handler runs under one (the probe runs under the queue's, and a probe that
panics would close the queue for good). A handler that calls the scheduler is not modelled:
`cancel_all` from a worker's own handler would join the thread that calls it.

### 7.2 The run

`SchedulerRun`: two callers, two tasks, two worker threads, two one-offs. Two tasks let one
`cancel_all` hold two workers while the other caller schedules again; two workers let a task be
scheduled, cancelled and scheduled again; two one-offs let one be queued while another is
put back, or be lost to the other's panic. Deadlock is checked. It shows `TypeOK` and

* `WorkersAreReachable`: a live worker is in the map under its task, or a `cancel_all` in
  progress will join it. The comment at `in_process.rs:331-339` argues for the duplicate check
  under the workers lock with this very orphan, and the mutant without a check there
  produces it;
* `OneOffsRunOnce`: an accepted one-off is in exactly one place: the queue, one call's
  hands, run once, or gone with the panic of another one's handler;
* `CancelReturns`: `cancel_all` returns even if no interval ever elapses. Fairness: a caller
  inside `cancel_all` and a worker that can go on do (the operating system runs
  them), and a handler ends. `Timeout` and new calls get none, so only the wake-up of
  `cancel_all` can end a wait.

### 7.3 Proofs (`SchedulerProofs`)

For every set of tasks, callers, workers and one-offs, from the one assumption that `None` is
neither a worker nor a task: `SchedulerTyped`, `NoWorkerIsOrphaned`,
`OneOffsAreNeverLostNorRepeated`. `TypeOK` carries the strengthening: outside `cancel_all` a
caller holds no worker, outside `run_pending_one_off_tasks` no one-off, so a call that begins
overwrites nothing (`CallersTyped`). With it the two others are inductive. `ReachFrame` and
`OneOffsFrame` dispose of the steps that move no worker or one-off; what remains is the insert in `Spawn`,
the hand-over in `CancelDrain`, the end of a joined worker in `CancelJoin`, and the four
steps of the queue. `CancelReturns` is checked by TLC only.

## 8. Findings shown by runs

| run | the code | what is said |
| --- | --- | --- |
| `BackupCompactRace` | a drain that persists between a compaction's snapshot and its ledger rewrite loses its segment behind the cursor (`core_impl.rs:4781`) | `docs/DESIGN.md:749`: compaction never drops data |
| `BackupOutbox` | the journal rows of sent messages carry tags no reader parses (`core_impl.rs:5697`) | `core_impl.rs:5687`: the row is there so that the backup sees the message |
| `TimelineTombstone` | hydration writes `LocalPlainAvailable` over any state (`core_impl.rs:2497`) | `local_store/state_machines.rs:47-49`: terminal states have no outgoing transitions |
| `MediaDeleted` | what the models read in a rehydrated original is indexed although its message was deleted meanwhile (`core_impl.rs:3711`) | `message/processor.rs:828-831`: a deleted message no longer surfaces, symmetrically across the three lanes |

## 9. Other disagreements met while modelling

No run is spent on these; the models follow the code in each case.

Backup:
* the SAVEPOINT admits an equal cursor (`local_store/db.rs:1633`), so two drains of one
  window may both persist it;
* an offline run seals nothing (`core_impl.rs:5922`) where its doc says events are still
  sealed (5916–5920);
* the cursor moves before the upload, against `schema.rs:158-161`;
* an incremental manifest lists only its own segment (`core_impl.rs:4508`; against 4798–4802);
* the `LIMIT` counts rows that are then skipped (`backup/event_journal.rs:159`), so a full
  window of unknown rows reads as "nothing to do" and the drain stops for good (against 184–189: skipped
  so that the drain does not freeze); `EventsAreEventuallySealed` exempts exactly this window;
* `apply_tombstones` drops events after the deletion too (`backup/compaction.rs:256`): a message
  deleted, dropped with its conversation and received again is lost (`NoLiveMessageLost` fails by this
  sequence with `DropsConversations`);
* it drops a tombstone in the compaction of its own group, though its target may live in another
  (`backup/compaction.rs:238`; against 6-9: only still-live events are carried forward);
* `compact_backup` uploads a manifest over the whole ledger, also over segments whose upload failed
  earlier or happened before a sink was installed (`core_impl.rs:4834`; against `docs/DESIGN.md:711`).

Timeline and archive:
* hydrating a row that is resident is not a no-op: it puts back the archived text over a
  later edit (`core_impl.rs:2403-2407` says idempotent);
* an edit is journalled under the month it is made in; hydration looks in the month of the
  message and misses it (`message/processor.rs:723-729` expects it to land);
* prefetch reads superseded segments as well as current ones (`archive/prefetch.rs:155`);
* scroll-back makes a live stub of any message a segment mentions, also one mentioned only
  by its deletion;
* archive compaction drops tombstones whose texts lie in other buckets
  (`archive/compaction.rs:51`);
* editing a media-only message indexes its text, but updates no body row
  (`local_store/db.rs:1041`);
* no later ingest re-embeds an edited message, since it is a duplicate then;
* replaying cold shards (`restore/pipeline.rs:218-296`) inserts rows next to existing ones,
  and for deleted or absent messages; a fuzzy row that exists aborts the whole replay;
* the search-shard wrapper of the drain (`core_impl.rs:1231-1368`) replaces a bucket's shard by
  one that holds only the newly sealed rows, and buckets by journal time.

Restore:
* only the segments of the named manifest are restored (`core_impl.rs:6307`), and an incremental
  manifest lists one: restoring from the tip misses the messages of earlier generations, while
  `lib.rs:738-740` says the caller only needs to know the tip. TLC finds it in `Restore` with two manifests;
* the pipeline never inserts skeletons and bodies; `restore_from_backup_inner` replays only received
  messages, without edits or tombstones (`restore/pipeline.rs:160-163` expects these to be applied); the
  restored chain starts at generation 0 again.

Cold search:
* `core_impl.rs:1013` says a stream's final value is that of `search_with_cold_source`, and the parallel search
  claims an identical contract, but on a failed fetch one returns an error, one skips the bucket, one
  drops it silently (`search/query_engine.rs:905-939`, 1084-1121, 1288-1321);
* `GracefulCold` (`search/cold_shard_source.rs:259-320`) turns a failure into an empty shard, which is then
  cached: the next search is silently incomplete. It is not in the model; the mutant `LoadAnyhow` is that behaviour;
* cached shards are not invalidated when they are replaced; deleted messages stay in them;
* `require_bloom_shards` would drop every bucket: no code uploads a bloom shard;
* the cap on buckets takes an arbitrary prefix of them.

Media and offload:
* two migrations of opposite directions that delete their sources: the late deletion of one removes
  the blob the other has just put back, and `RowsResolve` fails (`media/migration.rs:462-468`);
* a migrated source is deleted although a received blob may have other recipients;
* a message of a dropped conversation that is delivered again is ingested (its skeleton is gone), and its descriptor
  names the blob its sender uploaded (`message/processor.rs:383-401`). If a migration has moved that blob and deleted the
  source, or is between updating the old row and the deletion (an update of no row counts as success,
  `media/migration.rs:452-468`), the new row names a blob that does not exist. One migration is enough;
  `RowsResolve` exempts the case;
* `enforce_storage_budget` calls `execute_eviction` twice without a transaction, where the doc comment of
  `execute_eviction` expects its caller to wrap it in one (`offload/eviction.rs:237-238`, `core_impl.rs:6025-6026`): a pass
  that fails half-way leaves what it evicted so far evicted, and answers with an error;
* `offload/eviction.rs:100-102` calls originals in a cloud still reachable, but `execute_rehydration_download`
  answers `NotImplemented` for clouds (`media/download.rs:376`);
* a Google Drive file id is only in `sink_metadata`, which is never persisted
  (`media/sinks/google_drive.rs:151-209`, `media/migration.rs:391`);
* page rows (`#page<n>`) survive the deletion of their message; the bytes of a sent asset in
  `thumbnail_only` count, but cannot be evicted; the hydration queue's capacity is not enforced on enqueue, and
  only tests drain it.

Downloads:
* two calls for one destination share one partial: the rename of one takes the file that the other
  still truncates and writes, and `dest` is truncated, though `models/http_downloader.rs:26-29` says no
  reader sees that. TLC shows it in `Downloads` with two threads and no fault;
* a resume carries no `If-Range`: after a release in between the file mixes two builds. The digest
  returned is that file's, so `verify_integrity` accepts it, although lines 36-42 expect the mismatch to be caught
  there.

Scheduler:
* `cancel_all` empties the map before it joins (`scheduler/in_process.rs:445`), so a task scheduled during
  the join gets a second worker while the first still runs its handler (against lines 19-26:
  one worker thread per task, rescheduling while it is alive is a no-op);
* for the same reason a second `cancel_all` returns at once while the first still joins
  (against 27-28);
* a handler that panics ends its worker, but `is_task_pending` stays true and
  scheduling the task again does nothing until `cancel_all`;
* a one-off that fails is not retried, whatever its `max_retry_count`
  (`scheduler/in_process.rs:280-284`; against `scheduler/mod.rs:297-303`).

## 10. Not modelled, and the plan

What a next version would add, in this order:

1. the model manager's registry and `verify_integrity` over `Downloads`, with two calls for one destination;
2. `transport/offline.rs` and `models/resource_gate.rs`, which `Backup` and `Media` leave open (online or
   not, models run or not, at any moment), and the handlers that the workers of `Scheduler` run;
3. the HTTP client's retries, where an answer that was lost makes an upload happen twice;
4. the replay of search shards and key recovery in `Restore`;
5. proofs: abstract specifications of the archive and of the download, refined as the backup is by
   `SealedLog`.

The modules stand for a small share of the lines of `crates/core`: most of its code is encoding, SQL
text, numeric inference, ranking, and what the hosts see of it.

Out of scope: byte-level formats, encryption and hashing (the models take keys and digests as
given), ranking, tokenising and inference (numeric and string work without shared
state), HTTP and the platform sinks (I/O behind a trait whose failures are modelled), epoch keys and
archive manifests (no timeline or backup state depends on them), bindings and configuration. Liveness and `ENABLED` are
checked by TLC only; what a recursive definition computes for every input is not proved.
