-------------------------------- MODULE Media --------------------------------
(***************************************************************************)
(* The life of media assets on a device: sent or received, kept or evicted *)
(* by the storage budget, fetched again when they are opened, moved        *)
(* between blob stores, deleted, delivered again.  One media asset per     *)
(* message, and every message in a conversation of its own.                *)
(*                                                                         *)
(* Whatever runs under one hold of db_writer is one action; downloads,     *)
(* uploads and the models run outside of it.  The host drives the steps    *)
(* that the library only offers (upload, the first state transition).      *)
(***************************************************************************)
EXTENDS Integers, FiniteSets

CONSTANTS
    Assets,       \* one of each per message
    Own,          \* those this device sends; the others are received
    Clouds,       \* the sinks that key a blob by its asset
    Viewers,      \* threads in rehydrate_media_for_message
    Migrators,    \* threads in migrate_media_sink
    Readable,     \* assets that the installed models get something out of
    Documents,    \* assets whose text is indexed page by page
    Texts,        \* assets of a text/ type: evicted only at extreme pressure
    Size,         \* bytes of an asset
    Warning, Critical, Maximum,     \* the budget's three marks
    Others        \* bytes that everything else may take

Backend == "kchat_backend"
Sinks == {Backend} \cup Clouds

\* Before the upload a row names the backend and an id nothing is stored under.
Unsent == "unsent"

ASSUME MediaAssumption ==
    /\ IsFiniteSet(Assets) /\ Own \subseteq Assets /\ Readable \subseteq Assets /\ Texts \subseteq Assets
    /\ Backend \notin Clouds /\ Unsent \notin Clouds
    /\ Size \in [Assets -> Nat \ {0}]
    /\ Warning \in Nat /\ Critical \in Nat /\ Maximum \in Nat
    /\ Warning <= Critical /\ Critical <= Maximum
    /\ Others \subseteq Nat

VARIABLES
    message,      \* message[a]: "none", "live", "deleted"
    state,        \* state[a]: media_state, "none" without a media_asset row
    home,         \* home[a]: storage_sink of the row; as an asset is uploaded to a
                  \* sink under one id, its blob_id goes without saying
    local,        \* the assets whose bytes_local is not 0
    cold,         \* archive_verified, over a day old, conversation not pinned
    other,        \* usage apart from media
    found,        \* rows of the search lanes, by asset and kind of row id
    objects,      \* the blobs that exist: sink and asset
    origin,       \* origin[a]: the sink that the descriptor of a message names
    dropped,      \* history: the assets whose conversation was deleted
    viewing,      \* viewing[v]: a rehydration's locals
    moving        \* moving[m]: a migration's plan and locals

rows == <<message, state, home, local>>
past == <<origin, dropped>>
vars == <<rows, cold, other, found, objects, past, viewing, moving>>

States == {"thumbnail_only", "original_local", "remote_original", "evicted"}
Present == {a \in Assets : state[a] # "none"}

\* What OCR, transcription, the embedders and the page extractor write:
\* under the message id, or under <message id>#page<n>.
Indexed(a) ==
    {<<b, IF b \in Documents THEN "page" ELSE "message">> : b \in {a} \cap Readable}

-----------------------------------------------------------------------------
(* Messages.                                                                *)

\* send_media: the bytes are here, nothing is uploaded, the models run, best
\* effort.
Send(a) ==
    /\ a \in Own /\ message[a] = "none" /\ a \notin dropped
    /\ message' = [message EXCEPT ![a] = "live"]
    /\ state' = [state EXCEPT ![a] = "thumbnail_only"]
    /\ home' = [home EXCEPT ![a] = Unsent]
    /\ local' = local \cup {a}
    /\ found' \in {found, found \cup Indexed(a)}
    /\ UNCHANGED <<cold, other, objects, past, viewing, moving>>

\* An ingested descriptor names the blob that its sender uploaded.
Ingest(a, sink) ==
    /\ message[a] = "none"
    /\ message' = [message EXCEPT ![a] = "live"]
    /\ state' = [state EXCEPT ![a] = "thumbnail_only"]
    /\ home' = [home EXCEPT ![a] = sink]
    /\ UNCHANGED <<local, cold, other, found, dropped, viewing, moving>>

Receive(a) ==
    /\ a \notin Own /\ a \notin dropped
    /\ \E sink \in Sinks :
        /\ Ingest(a, sink)
        /\ origin' = [origin EXCEPT ![a] = sink]
        /\ objects' = objects \cup {<<sink, a>>}

\* With the message's row the duplicate check is gone too: a second delivery
\* is ingested, and its descriptor still says where the sender put the blob.
Redeliver(a) ==
    /\ a \in dropped /\ origin[a] # Unsent
    /\ Ingest(a, origin[a])
    /\ UNCHANGED <<objects, origin>>

\* The host uploads what was sent and records the reference.
Upload(a) ==
    /\ state[a] = "thumbnail_only" /\ home[a] = Unsent
    /\ \E sink \in Sinks :
        /\ home' = [home EXCEPT ![a] = sink]
        /\ objects' = objects \cup {<<sink, a>>}
    /\ UNCHANGED <<message, state, local, cold, other, found, past, viewing, moving>>

\* Its transition_media_state out of thumbnail_only, once a blob exists.
Settle(a) ==
    /\ state[a] = "thumbnail_only" /\ home[a] # Unsent
    /\ state' = [state EXCEPT ![a] = IF a \in local THEN "original_local"
                                                    ELSE "remote_original"]
    /\ UNCHANGED <<message, home, local, cold, other, found, objects, past, viewing, moving>>

\* delete_inner_tx removes the rows under the message id, and keeps the asset.
Delete(a) ==
    /\ message[a] = "live"
    /\ message' = [message EXCEPT ![a] = "deleted"]
    /\ found' = found \ {<<a, "message">>}
    /\ UNCHANGED <<state, home, local, cold, other, objects, past, viewing, moving>>

\* Mutant: only the row goes, and its bytes stay in the account.
DeleteConversationKeepsBytes(a) ==
    /\ message[a] \in {"live", "deleted"}
    /\ message' = [message EXCEPT ![a] = "none"] /\ dropped' = dropped \cup {a}
    /\ state' = [state EXCEPT ![a] = "none"]
    /\ home' = [home EXCEPT ![a] = Unsent]
    /\ cold' = cold \ {a} /\ found' = found \ {<<a, "message">>}
    /\ UNCHANGED <<local, other, objects, origin, viewing, moving>>

\* The blobs stay where they are.
DeleteConversation(a) ==
    /\ message[a] \in {"live", "deleted"}
    /\ message' = [message EXCEPT ![a] = "none"] /\ dropped' = dropped \cup {a}
    /\ state' = [state EXCEPT ![a] = "none"]
    /\ home' = [home EXCEPT ![a] = Unsent]
    /\ local' = local \ {a} /\ cold' = cold \ {a}
    /\ found' = found \ {<<a, "message">>}
    /\ UNCHANGED <<other, objects, origin, viewing, moving>>

\* A conversation is unpinned or its message ages and is archived; it is pinned.
Cool(a) ==
    /\ a \in Present \ cold /\ cold' = cold \cup {a}
    /\ UNCHANGED <<rows, other, found, objects, past, viewing, moving>>

Pin(a) ==
    /\ a \in cold /\ cold' = cold \ {a}
    /\ UNCHANGED <<rows, other, found, objects, past, viewing, moving>>

Grow ==
    /\ other' \in Others \ {other}
    /\ UNCHANGED <<rows, cold, found, objects, past, viewing, moving>>

-----------------------------------------------------------------------------
(* enforce_storage_budget.                                                  *)

\* The sum of the sizes: a pair for every byte.
Bytes(S) == Cardinality(UNION {{a} \X (1..Size[a]) : a \in S})

Used == other + Bytes(local)

Pressured == Used > Warning

\* eviction_target_bytes: back to the highest mark that was passed.
Mark == IF Used > Maximum THEN Maximum ELSE IF Used > Critical THEN Critical ELSE Warning

\* Mutant: whatever has a blob elsewhere and is not evicted yet is a candidate.
CandidatesNotEvicted ==
    {a \in cold \cap Present :
        state[a] \notin {"thumbnail_only", "evicted"} /\ (a \in Texts => Used > Maximum)}

\* collect_eviction_candidates and is_eligible_for_pressure.
Candidates ==
    {a \in cold \cap Present : state[a] = "original_local" /\ (a \in Texts => Used > Maximum)}

InCloud(a) == home[a] \in Clouds

\* plan_eviction_with_pressure, whatever the scores: candidates one after the
\* other until the target is met.
Plans(pool, target) ==
    IF target = 0 \/ pool = {} THEN {{}}
    ELSE {E \in SUBSET pool :
            /\ E = pool \/ Bytes(E) >= target
            /\ \E last \in E : Bytes(E \ {last}) < target}

Saturating(n, m) == IF n > m THEN n - m ELSE 0

\* Mutant: the second pool is asked for the whole target again.
TieredPlansTwice(target) ==
    {cloud \cup full : cloud \in Plans({a \in Candidates : InCloud(a)}, target),
                       full \in Plans({a \in Candidates : ~InCloud(a)}, target)}

\* plan_tiered_eviction: the cloud pool first, the backend for what is missing.
TieredPlans(target) ==
    UNION {{cloud \cup full :
               full \in Plans({a \in Candidates : ~InCloud(a)}, Saturating(target, Bytes(cloud)))} :
           cloud \in Plans({a \in Candidates : InCloud(a)}, target)}

Evict(E) ==
    /\ state' = [a \in Assets |-> IF a \in E THEN "evicted" ELSE state[a]]
    /\ local' = local \ E
    /\ UNCHANGED <<message, home, cold, other, found, objects, past, viewing, moving>>

EnforceBudget ==
    /\ Pressured
    /\ \E E \in TieredPlans(Used - Mark) : Evict(E)

\* Every row is an UPDATE of its own, the cloud plan's before the backend's:
\* a storage error ends the pass and leaves what was evicted so far.
EnforceBudgetFails ==
    /\ Pressured
    /\ \E E \in TieredPlans(Used - Mark) : \E part \in SUBSET E :
        /\ \A a \in part : InCloud(a) \/ \A b \in E : InCloud(b) => b \in part
        /\ Evict(part)

-----------------------------------------------------------------------------
(* rehydrate_media_for_message.                                             *)

Viewing(v, at) == viewing[v].at = at
Idle == [at |-> "idle"]

\* Phase 1, under the lock.  Whether the message was deleted is not looked at.
Open(v, a) ==
    /\ Viewing(v, "idle")
    /\ state[a] \in {"evicted", "remote_original"}
    /\ viewing' = [viewing EXCEPT ![v] =
                      [at |-> "opened", asset |-> a, from |-> state[a], sink |-> home[a]]]
    /\ UNCHANGED <<rows, cold, other, found, objects, past, moving>>

\* Phase 2.  Only the backend can be read; elsewhere the error is returned.
Download(v) ==
    /\ Viewing(v, "opened")
    /\ viewing[v].sink = Backend /\ <<Backend, viewing[v].asset>> \in objects
    /\ viewing' = [viewing EXCEPT ![v].at = "loaded"]
    /\ UNCHANGED <<rows, cold, other, found, objects, past, moving>>

\* Phase 3: both transitions and bytes_local under one SAVEPOINT, if the row
\* is still in the state that phase 1 read.
Land(v) ==
    /\ Viewing(v, "loaded")
    /\ LET a == viewing[v].asset IN
        IF state[a] = viewing[v].from
        THEN /\ state' = [state EXCEPT ![a] = "original_local"]
             /\ local' = local \cup {a}
             /\ viewing' = [viewing EXCEPT ![v].at = "landed"]
        ELSE /\ viewing' = [viewing EXCEPT ![v] = Idle]
             /\ UNCHANGED <<state, local>>
    /\ UNCHANGED <<message, home, cold, other, found, objects, past, moving>>

\* Phase 4: what the models found is written, best effort.
Index(v) ==
    /\ Viewing(v, "landed")
    /\ viewing' = [viewing EXCEPT ![v] = Idle]
    /\ found' \in {found, found \cup Indexed(viewing[v].asset)}
    /\ UNCHANGED <<rows, cold, other, objects, past, moving>>

DownloadFails(v) ==
    /\ Viewing(v, "opened")
    /\ viewing' = [viewing EXCEPT ![v] = Idle]
    /\ UNCHANGED <<rows, cold, other, found, objects, past, moving>>

-----------------------------------------------------------------------------
(* plan_media_migration and migrate_media_sink.                             *)

\* The backend is out of scope: it is no MediaBlobSink.
NoMigration == [at |-> "idle", from |-> Backend, to |-> Backend, source |-> "kept",
                items |-> {}, left |-> {}, item |-> "none"]

Moving(m, at) == moving[m].at = at

\* The source reference is rebuilt from the planned row, and a cloud keys the
\* copy by its asset.
Source(m) == <<moving[m].from, moving[m].item>>
Target(m) == <<moving[m].to, moving[m].item>>

Onward(m) == moving' = [moving EXCEPT ![m].at = "next", ![m].item = "none"]

PlanMigration(m, from, to) ==
    /\ Moving(m, "idle") /\ from # to
    /\ LET items == {a \in Present : home[a] = from} IN
        /\ items # {}
        /\ moving' = [moving EXCEPT ![m] =
                          [NoMigration EXCEPT !.from = from, !.to = to, !.items = items]]
    /\ UNCHANGED <<rows, cold, other, found, objects, past, viewing>>

\* A plan can be executed again, also long after it was made.
Start(m) ==
    /\ Moving(m, "idle") /\ moving[m].items # {}
    /\ \E fate \in {"kept", "dropped"} :
          moving' = [moving EXCEPT ![m].at = "next", ![m].left = moving[m].items,
                                   ![m].source = fate]
    /\ UNCHANGED <<rows, cold, other, found, objects, past, viewing>>

\* The idempotency probe of migrate_one, for the next item.
Probe(m) ==
    /\ Moving(m, "next")
    /\ \E a \in moving[m].left :
          moving' = IF home[a] = moving[m].to
                    THEN [moving EXCEPT ![m].left = @ \ {a}]
                    ELSE [moving EXCEPT ![m].left = @ \ {a}, ![m].item = a, ![m].at = "probed"]
    /\ UNCHANGED <<rows, cold, other, found, objects, past, viewing>>

Fetch(m) ==
    /\ Moving(m, "probed") /\ Source(m) \in objects
    /\ moving' = [moving EXCEPT ![m].at = "fetched"]
    /\ UNCHANGED <<rows, cold, other, found, objects, past, viewing>>

Copy(m) ==
    /\ Moving(m, "fetched")
    /\ objects' = objects \cup {Target(m)}
    /\ moving' = [moving EXCEPT ![m].at = "copied"]
    /\ UNCHANGED <<rows, cold, other, found, past, viewing>>

ReadBack(m) ==
    /\ Moving(m, "copied") /\ Target(m) \in objects
    /\ moving' = [moving EXCEPT ![m].at = "verified"]
    /\ UNCHANGED <<rows, cold, other, found, objects, past, viewing>>

\* update_media_storage_sink; a row that is gone counts as migrated too.
Update(m) ==
    /\ Moving(m, "verified")
    /\ LET a == moving[m].item
       IN  home' = IF state[a] = "none" THEN home ELSE [home EXCEPT ![a] = moving[m].to]
    /\ IF moving[m].source = "dropped" THEN moving' = [moving EXCEPT ![m].at = "updated"]
                                       ELSE Onward(m)
    /\ UNCHANGED <<message, state, local, cold, other, found, objects, past, viewing>>

\* Mutant: the source is deleted before the row is written.
DropSourceEarly(m) ==
    /\ moving[m].at \in {"verified", "updated"}
    /\ objects' \in {objects, objects \ {Source(m)}}
    /\ Onward(m)
    /\ UNCHANGED <<rows, cold, other, found, past, viewing>>

\* Best effort.
DropSource(m) ==
    /\ Moving(m, "updated")
    /\ objects' \in {objects, objects \ {Source(m)}}
    /\ Onward(m)
    /\ UNCHANGED <<rows, cold, other, found, past, viewing>>

\* A failed item is reported, and the next one tried.
ItemFails(m) ==
    /\ moving[m].at \in {"probed", "fetched", "copied", "verified"}
    /\ Onward(m)
    /\ UNCHANGED <<rows, cold, other, found, objects, past, viewing>>

EndMigration(m) ==
    /\ Moving(m, "next") /\ moving[m].left = {}
    /\ moving' = [moving EXCEPT ![m].at = "idle", ![m].source = "kept"]
    /\ UNCHANGED <<rows, cold, other, found, objects, past, viewing>>

Crash ==
    /\ viewing' = [v \in Viewers |-> Idle]
    /\ moving' = [m \in Migrators |-> NoMigration]
    /\ UNCHANGED <<rows, cold, other, found, objects, past>>

-----------------------------------------------------------------------------
Init ==
    /\ message = [a \in Assets |-> "none"]
    /\ state = [a \in Assets |-> "none"]
    /\ home = [a \in Assets |-> Unsent]
    /\ local = {} /\ cold = {} /\ found = {}
    /\ other \in Others
    /\ objects = {}
    /\ origin = [a \in Assets |-> Unsent] /\ dropped = {}
    /\ viewing = [v \in Viewers |-> Idle]
    /\ moving = [m \in Migrators |-> NoMigration]

Messages(a) ==
    Send(a) \/ Receive(a) \/ Redeliver(a) \/ Upload(a) \/ Settle(a) \/ Delete(a)
        \/ DeleteConversation(a) \/ Cool(a) \/ Pin(a)

View(v) ==
    (\E a \in Assets : Open(v, a)) \/ Download(v) \/ Land(v) \/ Index(v) \/ DownloadFails(v)

Migrate(m) ==
    \/ \E from \in Clouds, to \in Clouds : PlanMigration(m, from, to)
    \/ Start(m) \/ Probe(m) \/ Fetch(m) \/ Copy(m) \/ ReadBack(m) \/ Update(m) \/ DropSource(m)
    \/ ItemFails(m) \/ EndMigration(m)

Next ==
    \/ \E a \in Assets : Messages(a)
    \/ Grow \/ EnforceBudget \/ EnforceBudgetFails \/ Crash
    \/ \E v \in Viewers : View(v)
    \/ \E m \in Migrators : Migrate(m)

Spec == Init /\ [][Next]_vars

-----------------------------------------------------------------------------
(* Properties.                                                              *)

ViewRecords ==
    {Idle} \cup [at : {"opened", "loaded", "landed"}, asset : Assets,
                from : {"evicted", "remote_original"}, sink : Sinks \cup {Unsent}]

Migrations ==
    [at : {"idle", "next", "probed", "fetched", "copied", "verified", "updated"},
     from : Sinks, to : Sinks, source : {"kept", "dropped"},
     items : SUBSET Assets, left : SUBSET Assets, item : Assets \cup {"none"}]

\* Every variable holds a value of its kind.
MediaTypeOK ==
    /\ message \in [Assets -> {"none", "live", "deleted"}]
    /\ state \in [Assets -> States \cup {"none"}]
    /\ home \in [Assets -> Sinks \cup {Unsent}]
    /\ local \subseteq Present /\ cold \subseteq Present
    /\ other \in Nat /\ objects \subseteq Sinks \X Assets
    /\ found \subseteq Assets \X {"message", "page"}
    /\ origin \in [Assets -> Sinks \cup {Unsent}] /\ dropped \subseteq Assets
    /\ viewing \in [Viewers -> ViewRecords]
    /\ moving \in [Migrators -> Migrations]
    /\ \A m \in Migrators : moving[m].left \subseteq moving[m].items

\* No original is lost: whatever has left thumbnail_only names a blob, and the
\* blob exists, through evictions, migrations that delete their source, fail or
\* are run again, crashes and rehydrations in between.  One case is exempt, and
\* the code has no defence in it: a row that was delivered again after its
\* conversation was deleted names the sender's blob, which a migration may have
\* moved away before, or be about to delete.  One migration at a time.
RowsResolve ==
    \A a \in Assets :
        /\ state[a] \notin {"none", "thumbnail_only"} => home[a] # Unsent
        /\ home[a] # Unsent =>
              <<home[a], a>> \in objects \/ (a \in dropped /\ home[a] = origin[a])

\* MediaState::try_transition, with download_in_progress hidden in the
\* SAVEPOINT of commit_rehydration.
Legal ==
    {<<"none", "thumbnail_only">>, <<"thumbnail_only", "original_local">>,
     <<"thumbnail_only", "remote_original">>, <<"original_local", "evicted">>,
     <<"evicted", "original_local">>, <<"remote_original", "original_local">>}
        \cup {<<s, "none">> : s \in States}

\* The diagram of media_state holds although execute_eviction writes the
\* column without consulting it, while downloads and migrations are under way.
StatesFollowTheDiagram ==
    [][\A a \in Assets : state'[a] = state[a] \/ <<state[a], state'[a]>> \in Legal]_vars

\* A pass of the budget reaches its mark or runs out of candidates, unless the
\* storage fails it.  Failed or not, it does not go on once it is there, and
\* takes backend originals only when every candidate of the clouds is taken.
EvictionIsFrugal ==
    [][LET E == {a \in Assets : state[a] = "original_local" /\ state'[a] = "evicted"}
       IN  E # {} =>
            /\ EnforceBudget => Used - Bytes(E) <= Mark \/ E = Candidates
            /\ \E last \in E : Used - Bytes(E \ {last}) > Mark
            /\ \A a \in E : InCloud(a) \/ \A b \in Candidates : InCloud(b) => b \in E]_vars

\* A deleted message does not surface in search any more, "symmetric across
\* the three search lanes" (processor.rs, delete_inner_tx).
DeletedMediaIsNotFound ==
    \A row \in found : message[row[1]] = "live"
====
