------------------------------- MODULE Restore -------------------------------
(***************************************************************************)
(* Disaster recovery beside the backup it reads: a second device, with the *)
(* same keys, calls restore_from_backup against the sink that the device   *)
(* of Backup keeps writing to.  The call holds its db_writer lock from the *)
(* reset to the end, so one restore runs at a time; every transition of    *)
(* the restore_state row commits on its own, so a crash leaves any stage   *)
(* behind.  Signatures, AEAD and hashes are taken to succeed on what the   *)
(* backup wrote.                                                           *)
(***************************************************************************)
EXTENDS Backup

VARIABLES
    stage,        \* the restore_state row, "none" when it is absent
    restoring,    \* a call to restore_from_backup is running
    done,         \* the stages it has written
    asked,        \* BackupSource.manifest_id of the last call
    target,       \* the manifest it verified, and
    got           \* the segments it decrypted: locals of the call, kept here
                  \* after it ends to say what the row was written for

restoreVars == <<stage, restoring, done, asked, target, got>>

Stages == <<"none", "identity_restored", "root_keys_unwrapped", "manifest_verified",
            "skeleton_restored", "search_restored", "recent_messages_restored",
            "media_lazy_restore_enabled", "full_restore_complete">>

Rank(s) == CHOOSE n \in DOMAIN Stages : Stages[n] = s

\* state_machine::transition and RestoreState::try_transition.
Transition(to) ==
    /\ Rank(to) = Rank(stage) + 1
    /\ stage' = to

\* The call writes the stages in their order, each over the one before.
Upcoming == Stages[done + 2]

Reach(to) ==
    /\ restoring /\ Upcoming = to
    /\ Transition(to) /\ done' = done + 1

-----------------------------------------------------------------------------
\* Mutant: a retry goes on from the row the interrupted restore left.
BeginResumes(id) ==
    /\ ~restoring /\ restoring' = TRUE /\ done' = 0
    /\ asked' = id /\ target' = NoManifest /\ got' = {}
    /\ UNCHANGED stage

\* Mutant: the row is only marked, not deleted.
BeginMarksTheRow(id) ==
    /\ ~restoring /\ restoring' = TRUE /\ done' = 0
    /\ stage' = "not_started"
    /\ asked' = id /\ target' = NoManifest /\ got' = {}

\* The user names the tip of the chain, or a manifest the sink has.  A nil id
\* is turned away before anything happens.  reset deletes the row.
Begin(id) ==
    /\ ~restoring /\ restoring' = TRUE /\ done' = 0
    /\ stage' = "none"
    /\ asked' = id /\ target' = NoManifest /\ got' = {}

\* The stages that are written without looking at the sink: identity and keys
\* on the way in; search shards (a placeholder), recent bodies and lazy media
\* on the way out, in memory.
Advance ==
    /\ \E to \in {"identity_restored", "root_keys_unwrapped", "search_restored",
                  "recent_messages_restored", "media_lazy_restore_enabled"} : Reach(to)
    /\ UNCHANGED <<restoring, asked, target, got>>

FetchManifest ==
    /\ \E m \in sinkManifests : m.id = asked /\ target' = m
    /\ Reach("manifest_verified")
    /\ UNCHANGED <<restoring, asked, got>>

FetchSegment ==
    /\ restoring /\ Upcoming = "skeleton_restored"
    /\ \E s \in (target.segs \cap sinkSegments) \ got : got' = got \cup {s}
    /\ UNCHANGED <<stage, restoring, done, asked, target>>

\* Mutant: a segment that cannot be fetched is skipped.
RestoreSkeletonsOfSome ==
    /\ Reach("skeleton_restored")
    /\ UNCHANGED <<restoring, asked, target, got>>

\* Only when every referenced segment was fetched and opened does the pipeline
\* run; the rows it reconstructs stay in memory.
RestoreSkeletons ==
    /\ got = target.segs
    /\ Reach("skeleton_restored")
    /\ UNCHANGED <<restoring, asked, target, got>>

Finish ==
    /\ Reach("full_restore_complete") /\ restoring' = FALSE
    /\ UNCHANGED <<asked, target, got>>

Missing ==
    \/ Upcoming = "manifest_verified" /\ \A m \in sinkManifests : m.id # asked
    \/ Upcoming = "skeleton_restored" /\ ~(target.segs \subseteq sinkSegments)

\* A fetch whose object the sink lacks, or a transition that is not legal,
\* returns the error; the row stays.
Fails ==
    /\ restoring /\ restoring' = FALSE
    /\ Missing \/ Rank(Upcoming) # Rank(stage) + 1
    /\ UNCHANGED <<stage, done, asked, target, got>>

\* The process dies, or a call to the sink fails.
Interrupted ==
    /\ restoring /\ restoring' = FALSE
    /\ UNCHANGED <<stage, done, asked, target, got>>

-----------------------------------------------------------------------------
Work == Advance \/ FetchManifest \/ FetchSegment \/ RestoreSkeletons \/ Finish \/ Fails

RestoreNext ==
    \/ /\ \/ \E id \in {dbTail.id} \cup {m.id : m \in sinkManifests} : id # 0 /\ Begin(id)
          \/ Work
       /\ UNCHANGED vars
    \/ /\ Interrupted
       /\ faults < MaxFaults /\ faults' = faults + 1
       /\ UNCHANGED <<durable, keys, chain, sinkReady, pc, job, outcome, world, minted>>

both == <<vars, restoreVars>>

RestoreInit ==
    /\ Init
    /\ stage = "none" /\ restoring = FALSE /\ done = 0
    /\ asked = 0 /\ target = NoManifest /\ got = {}

RestoreSpec ==
    RestoreInit /\ [][(Next /\ UNCHANGED restoreVars) \/ RestoreNext]_both

\* A call runs to its end unless the process dies; nobody has to start one.
RestoreFairSpec ==
    /\ RestoreSpec
    /\ Fairness
    /\ WF_both(Work /\ UNCHANGED vars)

-----------------------------------------------------------------------------
(* Properties.                                                              *)

\* Every variable of the restoring device holds a value of its kind.
RestoreTypeOK ==
    /\ stage \in {Stages[n] : n \in DOMAIN Stages}
    /\ restoring \in BOOLEAN /\ done \in 0..8 /\ asked \in Nat
    /\ target \in Manifest /\ got \subseteq Segment

\* The row never claims more than was done, also after a crash between two
\* stages and a retry with another manifest: from manifest_verified on, the
\* manifest asked for was read from the sink, and from skeleton_restored on
\* every segment that manifest lists was fetched and opened.
StageIsEarned ==
    /\ Rank(stage) >= Rank("manifest_verified") =>
          target.id = asked /\ target \in sinkManifests
    /\ Rank(stage) >= Rank("skeleton_restored") => got = target.segs

\* A restore shows nothing the backed-up device could still lose: what it
\* decrypted was behind the persisted cursor of that device, which can crash
\* at any moment of the upload.
OnlySegmentedIsRestored == SealedIn(got) \subseteq 1..cursor

\* Once nothing fails any more, a restore of a manifest that reached the sink
\* completes: no segment is missing, and the row a crashed attempt left
\* behind does not stop the next one.
RestoresComplete ==
    (restoring /\ faults = MaxFaults /\ \E m \in sinkManifests : m.id = asked)
        ~> stage = "full_restore_complete"
====
