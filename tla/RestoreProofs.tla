----------------------------- MODULE RestoreProofs -----------------------------
(* What a restore claims and shows, for any number of threads, messages and *)
(* faults on the device that writes the backup.                             *)
EXTENDS Restore, BackupRefinement

-----------------------------------------------------------------------------
(* The order of the stages.                                                 *)

LEMMA StagesAreDistinct ==
    ASSUME NEW m \in 1..9, NEW n \in 1..9, Stages[m] = Stages[n]
    PROVE  m = n
BY DEF Stages

LEMMA RankOfStage ==
    ASSUME NEW n \in 1..9
    PROVE  Rank(Stages[n]) = n
<1>1. DOMAIN Stages = 1..9
  BY DEF Stages
<1>2. Rank(Stages[n]) \in 1..9 /\ Stages[Rank(Stages[n])] = Stages[n]
  BY <1>1 DEF Rank
<1>3. QED
  BY <1>2, StagesAreDistinct

LEMMA RankOfVerified == Rank("manifest_verified") = 4
<1>1. Stages[4] = "manifest_verified"
  BY DEF Stages
<1>2. QED
  BY <1>1, RankOfStage

LEMMA RankOfSkeleton == Rank("skeleton_restored") = 5
<1>1. Stages[5] = "skeleton_restored"
  BY DEF Stages
<1>2. QED
  BY <1>1, RankOfStage

-----------------------------------------------------------------------------
(* StageIsEarned alone is not inductive: it does not say that the row stands *)
(* where the running call does, because the call itself wrote every stage    *)
(* since its reset.  EarnInv adds that.                                      *)

\* The row is the k-th stage.
RowIs(k) == stage = Stages[k]

EarnedAt(k) ==
    /\ k >= 4 => target.id = asked /\ target \in sinkManifests
    /\ k >= 5 => got = target.segs

EarnInv ==
    /\ done \in 0..8
    /\ restoring => done \in 0..7 /\ RowIs(done + 1)
    /\ \E k \in 1..9 : RowIs(k) /\ EarnedAt(k)

LEMMA EarnInvImplies == EarnInv => StageIsEarned
BY RankOfStage, RankOfVerified, RankOfSkeleton DEF EarnInv, RowIs, EarnedAt, StageIsEarned

\* A call that is not reset is where it says it is.
LEMMA EarnedHere ==
    ASSUME EarnInv, restoring
    PROVE  done \in 0..7 /\ stage = Stages[done + 1] /\ EarnedAt(done + 1)
BY StagesAreDistinct DEF EarnInv, RowIs

\* A step of the other device: nothing is taken from the sink.
LEMMA SinkGrows ==
    ASSUME [Next]_vars
    PROVE  sinkManifests \subseteq sinkManifests' /\ sinkSegments \subseteq sinkSegments'
<1>1. Journalling => UNCHANGED world
  BY DEF Journalling, Ingest, Edit, Delete, Send, MarkSent, DeleteConversation, JournalOnly
<1>2. ASSUME NEW t \in Threads, Defer(t) \/ Incremental(t) PROVE UNCHANGED world
  BY <1>2 DEF Defer, Incremental, Read, CutIncremental, KeysMissing, PersistIncremental,
              CursorRefused, CommitIncremental
<1>3. ASSUME NEW t \in Threads, Compaction(t) \/ Install(t) \/ PersistFails(t)
      PROVE  UNCHANGED world
  BY <1>3 DEF Compaction, Compact, CutCompaction, PersistCompaction, DuplicateRow,
              CommitCompaction, Install, Materialise, InstallKeys, PersistFails
<1>4. ASSUME NEW t \in Threads, Upload(t) \/ UploadFails(t)
      PROVE  sinkManifests \subseteq sinkManifests' /\ sinkSegments \subseteq sinkSegments'
  BY <1>4 DEF Upload, UploadSegment, UploadManifest, UploadFails, world
<1>5. InstallSink \/ Crash \/ GoOnline \/ GoOffline => UNCHANGED <<sinkSegments, sinkManifests>>
  BY DEF InstallSink, Crash, GoOnline, GoOffline, world
<1>6. QED
  BY <1>1, <1>2, <1>3, <1>4, <1>5 DEF Next, vars, world

-----------------------------------------------------------------------------
(* The row.                                                                 *)

LEMMA EarnedBegin ==
    ASSUME NEW id, Begin(id), UNCHANGED sinkManifests
    PROVE  EarnInv'
<1>1. Stages[1] = "none"
  BY DEF Stages
<1>2. done' = 0 /\ stage' = Stages[1]
  BY <1>1 DEF Begin
<1>3. (RowIs(1) /\ EarnedAt(1))'
  BY <1>2 DEF RowIs, EarnedAt
<1>4. QED
  BY <1>2, <1>3 DEF EarnInv, RowIs

\* The stage after the one the call has written last.
LEMMA EarnedReach ==
    ASSUME EarnInv, NEW to, Reach(to), NEW k \in 2..9, to = Stages[k],
           EarnedAt(k)', k = 9 => ~restoring'
    PROVE  EarnInv'
<1>1. done \in 0..7 /\ restoring
  BY DEF EarnInv, Reach
<1>2. done' = done + 1 /\ stage' = Stages[k] /\ Stages[k] = Stages[done + 2]
  BY DEF Reach, Transition, Upcoming
<1>3. k = done + 2
  BY <1>1, <1>2, StagesAreDistinct
<1>4. RowIs(k)' /\ done' \in 0..8 /\ (restoring' => done' \in 0..7)
  BY <1>1, <1>2, <1>3 DEF RowIs
<1>5. (restoring => RowIs(done + 1))'
  BY <1>2, <1>3, <1>1 DEF RowIs
<1>6. QED
  BY <1>4, <1>5 DEF EarnInv

LEMMA EarnedAdvance ==
    ASSUME EarnInv, Advance, UNCHANGED sinkManifests
    PROVE  EarnInv'
<1>1. PICK to \in {"identity_restored", "root_keys_unwrapped", "search_restored",
                   "recent_messages_restored", "media_lazy_restore_enabled"} : Reach(to)
  BY DEF Advance
<1>2. /\ done \in 0..7 /\ EarnedAt(done + 1) /\ restoring /\ restoring' = restoring
      /\ to = Stages[done + 2]
  BY <1>1, EarnedHere DEF Reach, Upcoming, Advance
<1>3. done + 2 \in 2..9 /\ done + 2 \notin {4, 5, 9}
  BY <1>2 DEF Stages
<1>4. PICK k \in 2..9 : k = done + 2
  BY <1>3
<1>5. EarnedAt(k)'
  BY <1>2, <1>3, <1>4 DEF EarnedAt, Advance
<1>6. QED
  BY <1>1, <1>2, <1>3, <1>4, <1>5, EarnedReach

\* The call stands before the k-th stage.
LEMMA Standing ==
    ASSUME EarnInv, restoring, NEW k \in 2..9, Upcoming = Stages[k]
    PROVE  RowIs(k - 1) /\ EarnedAt(k - 1) /\ done = k - 2
<1>1. done \in 0..7 /\ stage = Stages[done + 1] /\ EarnedAt(done + 1)
  BY EarnedHere
<1>2. done + 2 = k
  BY <1>1, StagesAreDistinct DEF Upcoming
<1>3. QED
  BY <1>1, <1>2 DEF RowIs

LEMMA EarnedManifest ==
    ASSUME EarnInv, FetchManifest, UNCHANGED sinkManifests
    PROVE  EarnInv'
<1>1. Reach("manifest_verified") /\ Stages[4] = "manifest_verified"
  BY DEF FetchManifest, Stages
<1>2. EarnedAt(4)'
  BY DEF FetchManifest, EarnedAt
<1>3. restoring' = restoring /\ restoring
  BY DEF FetchManifest, Reach
<1>4. QED
  BY <1>1, <1>2, <1>3, EarnedReach

LEMMA EarnedSegment ==
    ASSUME EarnInv, FetchSegment, UNCHANGED sinkManifests
    PROVE  EarnInv'
<1>1. restoring /\ Upcoming = Stages[5]
  BY DEF FetchSegment, Stages
<1>2. RowIs(4) /\ EarnedAt(4) /\ done = 3
  BY <1>1, Standing
<1>3. (RowIs(4) /\ EarnedAt(4))' /\ done' = 3
  BY <1>2 DEF FetchSegment, RowIs, EarnedAt
<1>4. (restoring => RowIs(done + 1))'
  BY <1>3 DEF RowIs
<1>5. QED
  BY <1>3, <1>4 DEF EarnInv

LEMMA EarnedSkeletons ==
    ASSUME EarnInv, RestoreSkeletons, UNCHANGED sinkManifests
    PROVE  EarnInv'
<1>1. Reach("skeleton_restored") /\ Stages[5] = "skeleton_restored"
  BY DEF RestoreSkeletons, Stages
<1>2. EarnedAt(4) /\ restoring' = restoring /\ restoring
  BY <1>1, Standing DEF RestoreSkeletons, Reach
<1>3. EarnedAt(5)'
  BY <1>2 DEF RestoreSkeletons, EarnedAt
<1>4. QED
  BY <1>1, <1>2, <1>3, EarnedReach

LEMMA EarnedFinish ==
    ASSUME EarnInv, Finish, UNCHANGED sinkManifests
    PROVE  EarnInv'
<1>1. Reach("full_restore_complete") /\ Stages[9] = "full_restore_complete"
  BY DEF Finish, Stages
<1>2. EarnedAt(8) /\ restoring' = FALSE
  BY <1>1, Standing DEF Finish, Reach
<1>3. EarnedAt(9)'
  BY <1>2 DEF Finish, EarnedAt
<1>4. QED
  BY <1>1, <1>2, <1>3, EarnedReach

\* The row and the call's locals stay, and the sink may grow.
LEMMA EarnedStays ==
    ASSUME EarnInv, UNCHANGED <<stage, done, asked, target, got>>,
           sinkManifests \subseteq sinkManifests', restoring' => restoring
    PROVE  EarnInv'
<1>1. PICK k \in 1..9 : RowIs(k) /\ EarnedAt(k)
  BY DEF EarnInv
<1>2. (RowIs(k) /\ EarnedAt(k))'
  BY <1>1 DEF RowIs, EarnedAt
<1>3. (restoring => done \in 0..7 /\ RowIs(done + 1))'
  BY DEF EarnInv, RowIs
<1>4. done' \in 0..8
  BY DEF EarnInv
<1>5. QED
  BY <1>2, <1>3, <1>4 DEF EarnInv

LEMMA EarnedStop ==
    ASSUME EarnInv, Fails \/ Interrupted, UNCHANGED sinkManifests
    PROVE  EarnInv'
BY EarnedStays DEF Fails, Interrupted

LEMMA EarnedStep ==
    ASSUME EarnInv, [(Next /\ UNCHANGED restoreVars) \/ RestoreNext]_both
    PROVE  EarnInv'
<1>1. CASE [Next]_vars /\ UNCHANGED restoreVars
  BY <1>1, SinkGrows, EarnedStays DEF restoreVars
<1>2. CASE RestoreNext
  <2>1. UNCHANGED sinkManifests
    BY <1>2 DEF RestoreNext, vars, world
  <2>2. QED
    BY <1>2, <2>1, EarnedBegin, EarnedAdvance, EarnedManifest, EarnedSegment, EarnedSkeletons,
       EarnedFinish, EarnedStop DEF RestoreNext, Work
<1>3. QED
  BY <1>1, <1>2 DEF both

LEMMA EarnedRow == RestoreSpec => []EarnInv
<1>1. RestoreInit => EarnInv
  <2>1. Stages[1] = "none"
    BY DEF Stages
  <2>2. ASSUME RestoreInit PROVE RowIs(1) /\ EarnedAt(1) /\ done = 0
    BY <2>1, <2>2 DEF RestoreInit, RowIs, EarnedAt
  <2>3. RestoreInit => ~restoring
    BY DEF RestoreInit
  <2>4. QED
    BY <2>2, <2>3 DEF EarnInv
<1>2. EarnInv /\ [(Next /\ UNCHANGED restoreVars) \/ RestoreNext]_both => EarnInv'
  BY EarnedStep
<1>3. QED
  BY <1>1, <1>2, PTL DEF RestoreSpec

\* The restore_state row is earned: whatever crashes, retries and other
\* manifests came between, and whatever the other device uploads meanwhile, a
\* row from manifest_verified on stands for a manifest read from the sink, and
\* from skeleton_restored on for every segment it lists.
THEOREM RowIsEarned == RestoreSpec => []StageIsEarned
BY EarnedRow, EarnInvImplies, PTL

-----------------------------------------------------------------------------
(* Types: the two devices have only the sink and the fault budget in common. *)

LEMMA TypesIgnoreFaults ==
    ASSUME TypeInv,
           UNCHANGED <<durable, keys, chain, sinkReady, pc, job, outcome, world, minted>>,
           faults' = faults + 1
    PROVE  TypeInv'
BY DEF TypeInv, TypeOK, WindowsInJournal, durable, chain, world

LEMMA TypeInvStep ==
    ASSUME TypeInv, [(Next /\ UNCHANGED restoreVars) \/ RestoreNext]_both
    PROVE  TypeInv'
<1>1. CASE [Next]_vars
  BY <1>1, TypeInvIncremental, TypeInvCompaction, TypeInvUpload, TypeInvInstall,
     TypeInvDevice, TypeInvStutter DEF Next
<1>2. CASE RestoreNext
  BY <1>2, TypesIgnoreFaults, TypeInvStutter DEF RestoreNext
<1>3. QED
  BY <1>1, <1>2 DEF both

\* The part of RestoreTypeOK that EarnInv does not give.
CallTypeOK == restoring \in BOOLEAN /\ asked \in Nat /\ target \in Manifest /\ got \subseteq Segment

LEMMA CallTypeStep ==
    ASSUME TypeInv, CallTypeOK, [(Next /\ UNCHANGED restoreVars) \/ RestoreNext]_both
    PROVE  CallTypeOK'
<1>1. sinkManifests \subseteq Manifest /\ sinkSegments \subseteq Segment /\ dbTail \in Manifest
  BY DEF TypeInv, TypeOK
<1>2. \A m \in Manifest : m.id \in Nat
  BY DEF Manifest
<1>3. CASE UNCHANGED restoreVars
  BY <1>3 DEF restoreVars, CallTypeOK
<1>4. CASE RestoreNext
  <2>1. ASSUME NEW id \in {dbTail.id} \cup {m.id : m \in sinkManifests}, Begin(id)
        PROVE  CallTypeOK'
    <3>1. id \in Nat
      BY <1>1, <1>2
    <3>2. QED
      BY <2>1, <3>1, NoManifestTyped DEF Begin, CallTypeOK
  <2>2. CASE Advance \/ RestoreSkeletons \/ Finish \/ Fails \/ Interrupted
    BY <2>2 DEF CallTypeOK, Advance, RestoreSkeletons, Finish, Fails, Interrupted
  <2>3. CASE FetchManifest
    BY <2>3, <1>1 DEF CallTypeOK, FetchManifest
  <2>4. CASE FetchSegment
    BY <2>4, <1>1 DEF CallTypeOK, FetchSegment
  <2>5. QED
    BY <1>4, <2>1, <2>2, <2>3, <2>4 DEF RestoreNext, Work
<1>5. QED
  BY <1>3, <1>4 DEF both

\* Type correctness of the restoring device, beside any other device.
THEOREM RestoreTypesCorrect == RestoreSpec => []RestoreTypeOK
<1>1. RestoreInit => TypeInv /\ CallTypeOK
  <2>1. RestoreInit => TypeInv
    BY TypeInvInit DEF RestoreInit
  <2>2. RestoreInit => CallTypeOK
    <3>1. RestoreInit => restoring \in BOOLEAN
      BY DEF RestoreInit
    <3>2. RestoreInit => asked \in Nat /\ target \in Manifest /\ got \subseteq Segment
      BY NoManifestTyped DEF RestoreInit
    <3>3. QED
      BY <3>1, <3>2 DEF CallTypeOK
  <2>3. QED
    BY <2>1, <2>2
<1>2. TypeInv /\ CallTypeOK /\ [(Next /\ UNCHANGED restoreVars) \/ RestoreNext]_both
      => (TypeInv /\ CallTypeOK)'
  BY TypeInvStep, CallTypeStep
<1>3. EarnInv /\ CallTypeOK => RestoreTypeOK
  <2>1. DOMAIN Stages = 1..9
    BY DEF Stages
  <2>2. QED
    BY <2>1 DEF EarnInv, RowIs, CallTypeOK, RestoreTypeOK
<1>4. QED
  BY <1>1, <1>2, <1>3, EarnedRow, PTL DEF RestoreSpec

-----------------------------------------------------------------------------
(* What is shown.                                                           *)

ShownInv == Inv /\ got \subseteq sinkSegments

LEMMA ShownImplies == ShownInv => OnlySegmentedIsRestored
<1> SUFFICES ASSUME ShownInv PROVE OnlySegmentedIsRestored
  OBVIOUS
<1>1. SealedIn(got) \subseteq SealedIn(dbLedger)
  BY DEF ShownInv, Inv, SealInv, SealedIn
<1>2. SealedIn(dbLedger) \subseteq 1..cursor
  BY DEF ShownInv, Inv, SealInv, RowsBehind
<1>3. QED
  BY <1>1, <1>2 DEF OnlySegmentedIsRestored

\* Nothing but the types looks at the fault budget.
LEMMA InvIgnoresFaults ==
    ASSUME Inv,
           UNCHANGED <<durable, keys, chain, sinkReady, pc, job, outcome, world, minted>>,
           faults' = faults + 1
    PROVE  Inv'
<1> USE DEF durable, world
<1>1. TypeInv'
  BY TypesIgnoreFaults DEF Inv
<1>2. NoCompaction' /\ CutsAgree'
  BY DEF Inv, NoCompaction, CutsAgree, CutAgrees
<1>3. CursorInv'
  BY DEF Inv, CursorInv, SegmentedEventsAreSealed, WindowsCovered, WindowCovered, SealedIn
<1>4. UploadInv'
  BY DEF Inv, UploadInv, ManifestsAreRestorable, UploadResolves
<1>5. SealInv'
  BY DEF Inv, SealInv, CallSeals, SealsItsWindow, SendsWhatIsSealed, SealedIn, RowsBehind
<1>6. QED
  BY <1>1, <1>2, <1>3, <1>4, <1>5 DEF Inv

LEMMA ShownStep ==
    ASSUME Compactors = {}, ShownInv, [(Next /\ UNCHANGED restoreVars) \/ RestoreNext]_both
    PROVE  ShownInv'
<1>1. CASE [Next]_vars /\ UNCHANGED restoreVars
  BY <1>1, InvStep, SinkGrows DEF ShownInv, restoreVars
<1>2. CASE RestoreNext
  <2>1. UNCHANGED sinkSegments
    BY <1>2 DEF RestoreNext, vars, world
  <2>2. got' \subseteq sinkSegments
    BY <1>2 DEF ShownInv, RestoreNext, Work, Begin, Advance, FetchManifest, FetchSegment,
                RestoreSkeletons, Finish, Fails, Interrupted
  <2>3. Inv'
    BY <1>2, InvStep, InvIgnoresFaults DEF ShownInv, RestoreNext
  <2>4. QED
    BY <2>1, <2>2, <2>3 DEF ShownInv
<1>3. QED
  BY <1>1, <1>2 DEF both

\* Beside a device that never compacts, a restore decrypts only rows that the
\* persisted cursor of that device has passed: run_incremental_backup makes
\* ledger and cursor durable before the first upload.
THEOREM OnlyTheSegmentedIsShown ==
    ASSUME Compactors = {}
    PROVE  RestoreSpec => []OnlySegmentedIsRestored
<1>1. RestoreInit => ShownInv
  <2>1. RestoreInit => Inv /\ got = {}
    BY InvInit DEF RestoreInit
  <2>2. QED
    BY <2>1 DEF ShownInv
<1>2. ShownInv /\ [(Next /\ UNCHANGED restoreVars) \/ RestoreNext]_both => ShownInv'
  BY ShownStep
<1>3. QED
  BY <1>1, <1>2, ShownImplies, PTL DEF RestoreSpec
====
