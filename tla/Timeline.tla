------------------------------ MODULE Timeline ------------------------------
(***************************************************************************)
(* The life of the messages of one conversation: what the timeline shows   *)
(* (message_skeleton, message_body), what local search finds (search_fts,  *)
(* search_fuzzy, search_vector), and what the personal archive holds       *)
(* (archive_event_journal, its cursor, archive_segment_map).               *)
(*                                                                         *)
(* Every text ever written enters the archive journal as one event, so a   *)
(* text is named by the sequence number of that event; 0 is "no text".     *)
(* Creation times matter only through the monthly archive bucket.          *)
(*                                                                         *)
(* A call that works under one hold of the db_writer lock is one step.     *)
(* A call that releases the lock on the way (cold hydration, scroll-back,  *)
(* archive compaction, the archive driver) is a thread, one step per hold. *)
(***************************************************************************)
EXTENDS Naturals, Sequences, FiniteSets

CONSTANTS
    Messages,       \* message ids; every message carries a text body
    Readers,        \* threads that scroll back and hydrate cold search results
    Archivers,      \* threads that run the archive driver
    Compactors,     \* threads that compact the archive
    DeletesConversations, \* whether the host deletes and recreates the conversation
    MaxJournal,     \* bound: events in archive_event_journal
    MaxSegments,    \* bound: rows in archive_segment_map
    MaxMonth        \* bound: the clock, in archive buckets

ASSUME TimelineAssumption ==
    /\ DeletesConversations \in BOOLEAN
    /\ MaxJournal \in Nat
    /\ MaxSegments \in Nat
    /\ MaxMonth \in Nat \ {0}

VARIABLES
    conversation,   \* whether the conversation row exists
    bodyState,      \* [Messages -> body_state, "none" when there is no skeleton]
    born,           \* [Messages -> bucket of the skeleton's created_at_ms]
    body,           \* [Messages -> text in message_body, 0 when no row]
    fts, fuzzy,     \* [Messages -> texts indexed for the message]
    vector,         \* [Messages -> text the search_vector row embeds, 0 for none]
    journal,        \* archive_event_journal, in event_seq order
    cursor,         \* archive_event_cursor
    segments,       \* archive_segment_map, each row with its remote contents
    month,          \* the clock, in buckets
    pc, job         \* what each thread is doing, and what it holds in memory

message == <<bodyState, born, body>>
index   == <<fts, fuzzy, vector>>
archive == <<cursor, segments>>
threads == <<pc, job>>
Threads == Readers \cup Archivers \cup Compactors
vars == <<conversation, message, index, journal, archive, month, threads>>

BodyStates == {"local_plain_available", "remote_archive_only",
               "deleted_for_me", "deleted_for_everyone"}

Event(kind, m, bucket) == [kind |-> kind, msg |-> m, bucket |-> bucket]

\* The event the step now being taken will append.
NextSeq == Len(journal) + 1

\* Events whose archive payload decodes to a text.
CarriesText(e) == journal[e].kind \in {"message_received", "message_edited"}

Idle == [msg |-> 0, bucket |-> 0, replay |-> {}, cur |-> 0,
         todo |-> {}, upto |-> 0, segs |-> {}, out |-> 0]

\* Thread t goes on to stage with what it now holds, or its call returns.
Goto(t, stage, held) ==
    /\ pc' = [pc EXCEPT ![t] = stage]
    /\ job' = [job EXCEPT ![t] = held]
Done(t) == Goto(t, "idle", Idle)

Init ==
    /\ conversation = FALSE
    /\ bodyState = [m \in Messages |-> "none"]
    /\ born = [m \in Messages |-> 0]
    /\ body = [m \in Messages |-> 0]
    /\ fts = [m \in Messages |-> {}]
    /\ fuzzy = [m \in Messages |-> {}]
    /\ vector = [m \in Messages |-> 0]
    /\ journal = <<>>
    /\ cursor = 0
    /\ segments = <<>>
    /\ month = 1
    /\ pc = [t \in Threads |-> "idle"]
    /\ job = [t \in Threads |-> Idle]

-----------------------------------------------------------------------------
(* Conversations and the clock *)

CreateConversation ==
    /\ ~conversation
    /\ conversation' = TRUE
    /\ UNCHANGED <<message, index, journal, archive, month, threads>>

\* Mutant: the cascade empties the archive journal too and forgets its cursor.
DeleteConversationAndJournal ==
    /\ DeletesConversations
    /\ conversation
    /\ conversation' = FALSE
    /\ bodyState' = [m \in Messages |-> "none"]
    /\ born' = [m \in Messages |-> 0]
    /\ body' = [m \in Messages |-> 0]
    /\ fts' = [m \in Messages |-> {}]
    /\ fuzzy' = [m \in Messages |-> {}]
    /\ vector' = [m \in Messages |-> 0]
    /\ journal' = <<>>
    /\ UNCHANGED <<archive, month, threads>>

\* The cascade drops every row of the conversation's messages. The archive
\* journal, the segment map and the segments themselves are left alone.
DeleteConversation ==
    /\ DeletesConversations
    /\ conversation
    /\ conversation' = FALSE
    /\ bodyState' = [m \in Messages |-> "none"]
    /\ born' = [m \in Messages |-> 0]
    /\ body' = [m \in Messages |-> 0]
    /\ fts' = [m \in Messages |-> {}]
    /\ fuzzy' = [m \in Messages |-> {}]
    /\ vector' = [m \in Messages |-> 0]
    /\ UNCHANGED <<journal, archive, month, threads>>

NextMonth ==
    /\ month < MaxMonth
    /\ month' = month + 1
    /\ UNCHANGED <<conversation, message, index, journal, archive, threads>>

-----------------------------------------------------------------------------
(* Messages arriving, edited and deleted *)

\* The rows both persist paths write for a message that has no skeleton yet.
\* The foreign key to conversation rejects the insert when that row is gone.
Land(m, bucket) ==
    /\ conversation
    /\ bodyState[m] = "none"
    /\ Len(journal) < MaxJournal
    /\ bodyState' = [bodyState EXCEPT ![m] = "local_plain_available"]
    /\ born' = [born EXCEPT ![m] = bucket]
    /\ body' = [body EXCEPT ![m] = NextSeq]
    /\ fts' = [fts EXCEPT ![m] = @ \cup {NextSeq}]
    /\ fuzzy' = [fuzzy EXCEPT ![m] = @ \cup {NextSeq}]
    /\ journal' = Append(journal, Event("message_received", m, bucket))
    /\ UNCHANGED <<conversation, archive, month, threads>>

\* The sender's clock stamps the message, so it may land in an earlier bucket;
\* the embedding is best effort and happens before the lock is released.
Ingest(m) ==
    \E bucket \in 1..month :
        /\ Land(m, bucket)
        /\ vector' \in {vector, [vector EXCEPT ![m] = NextSeq]}

\* An outbox message is stamped by the local clock and is not embedded.
SendText(m) ==
    /\ Land(m, month)
    /\ vector' = vector

Edit(m) ==
    /\ bodyState[m] = "local_plain_available"
    /\ Len(journal) < MaxJournal
    /\ body' = [body EXCEPT ![m] = NextSeq]
    /\ fts' = [fts EXCEPT ![m] = {NextSeq}]
    /\ fuzzy' = [fuzzy EXCEPT ![m] = {NextSeq}]
    /\ vector' = [vector EXCEPT ![m] = 0]
    /\ journal' = Append(journal, Event("message_edited", m, month))
    /\ UNCHANGED <<conversation, bodyState, born, archive, month, threads>>

\* BodyState::try_transition, over the states a CoreImpl call can produce.
CanTransition(from, to) ==
    \/ from = "local_plain_available"
       /\ to \in {"remote_archive_only", "deleted_for_me", "deleted_for_everyone"}
    \/ from = "remote_archive_only" /\ to = "local_plain_available"

Delete(m, scope) ==
    /\ CanTransition(bodyState[m], scope)
    /\ Len(journal) < MaxJournal
    /\ bodyState' = [bodyState EXCEPT ![m] = scope]
    /\ body' = IF scope = "deleted_for_everyone" THEN [body EXCEPT ![m] = 0] ELSE body
    /\ fts' = [fts EXCEPT ![m] = {}]
    /\ fuzzy' = [fuzzy EXCEPT ![m] = {}]
    /\ vector' = [vector EXCEPT ![m] = 0]
    /\ journal' = Append(journal, Event("message_deleted", m, month))
    /\ UNCHANGED <<conversation, born, archive, month, threads>>

-----------------------------------------------------------------------------
(* Searching the cold shards and hydrating what they find *)

\* The (message, bucket) pairs a search may return with is_cold set. A row of
\* an index shard is a text the local index once held; the merge marks it cold
\* unless the local lanes returned the message for the same query. A stub
\* matched by a query without text is marked cold for its body_state.
ColdHits ==
    {hit \in Messages \X (1..month) :
        \/ /\ \E e \in DOMAIN journal :
                 CarriesText(e) /\ journal[e].msg = hit[1] /\ e \notin fts[hit[1]]
           /\ \E e \in DOMAIN journal :
                 journal[e] = Event("message_received", hit[1], hit[2])
        \/ bodyState[hit[1]] = "remote_archive_only" /\ born[hit[1]] = hit[2]}

SearchCold(t) ==
    /\ pc[t] = "idle"
    /\ \E hit \in ColdHits :
          Goto(t, "searched", [Idle EXCEPT !.msg = hit[1], !.bucket = hit[2]])
    /\ UNCHANGED <<conversation, message, index, journal, archive, month>>

\* Every segment row of the bucket, whatever its state.
SegmentsOf(bucket) == {s \in DOMAIN segments : segments[s].bucket = bucket}

\* The host hands the results back later: the segments of the hit's bucket are
\* fetched under the lock, the wanted events are applied after its release.
HydrateFetch(t) ==
    /\ pc[t] = "searched"
    /\ LET wanted == {p \in SegmentsOf(job[t].bucket) \X DOMAIN journal :
                         /\ p[2] \in segments[p[1]].events
                         /\ CarriesText(p[2])
                         /\ journal[p[2]].msg = job[t].msg}
       IN IF wanted = {} THEN Done(t)
                         ELSE Goto(t, "hydrating", [Idle EXCEPT !.replay = wanted])
    /\ UNCHANGED <<conversation, message, index, journal, archive, month>>

\* The segments come in no particular order, the events of one in journal order.
NextToReplay(t) ==
    {p \in job[t].replay :
        /\ \A q \in job[t].replay : q[1] = p[1] => p[2] <= q[2]
        /\ p[1] = job[t].cur \/ \A q \in job[t].replay : q[1] # job[t].cur}

\* Mutant: the fuzzy row is inserted without deleting the one it replaces.
RehydrateAddsToFuzzy(m, text) ==
    /\ body' = [body EXCEPT ![m] = text]
    /\ bodyState' = [bodyState EXCEPT ![m] = "local_plain_available"]
    /\ fts' = [fts EXCEPT ![m] = {text}]
    /\ fuzzy' = [fuzzy EXCEPT ![m] = @ \cup {text}]

\* rehydrate_message_body_locally with LocalPlainAvailable. The previous state
\* of the row is not consulted and the embedding is left alone.
Rehydrate(m, text) ==
    /\ body' = [body EXCEPT ![m] = text]
    /\ bodyState' = [bodyState EXCEPT ![m] = "local_plain_available"]
    /\ fts' = [fts EXCEPT ![m] = {text}]
    /\ fuzzy' = [fuzzy EXCEPT ![m] = {text}]

\* One event of the replay, under its own hold of the lock. A message whose
\* skeleton is gone fails the call.
HydrateApply(t) ==
    /\ pc[t] = "hydrating"
    /\ \E p \in NextToReplay(t) :
          LET m == journal[p[2]].msg IN
          /\ bodyState[m] # "none"
          /\ Rehydrate(m, p[2])
          /\ IF job[t].replay = {p}
             THEN Done(t)
             ELSE Goto(t, "hydrating", [job[t] EXCEPT !.replay = @ \ {p}, !.cur = p[1]])
    /\ UNCHANGED <<conversation, born, vector, journal, archive, month>>

-----------------------------------------------------------------------------
(* Scrolling back past the local horizon *)

ScrollFetch(t) ==
    /\ pc[t] = "idle"
    /\ \E bucket \in 1..month :
          /\ SegmentsOf(bucket) # {}
          /\ Goto(t, "scrolling", [Idle EXCEPT !.segs = SegmentsOf(bucket)])
    /\ UNCHANGED <<conversation, message, index, journal, archive, month>>

\* Messages a segment mentions in any event, deletions included.
Mentioned(s) == {journal[e].msg : e \in segments[s].events}

\* Mutant: a message without a body row counts as absent.
StubsByBody(s) == {m \in Mentioned(s) : body[m] = 0}

\* The messages of segment s for which INSERT OR IGNORE adds a stub row.
Stubs(s) == {m \in Mentioned(s) : bodyState[m] = "none"}

\* Mutant: a stub is stamped with the present, not with its segment's month.
ScrollStampsNow(t) ==
    /\ pc[t] = "scrolling"
    /\ \E s \in job[t].segs :
          /\ conversation \/ Stubs(s) = {}
          /\ bodyState' = [m \in Messages |->
                IF m \in Stubs(s) THEN "remote_archive_only" ELSE bodyState[m]]
          /\ born' = [m \in Messages |-> IF m \in Stubs(s) THEN month ELSE born[m]]
          /\ IF job[t].segs = {s}
             THEN Done(t)
             ELSE Goto(t, "scrolling", [job[t] EXCEPT !.segs = @ \ {s}])
    /\ UNCHANGED <<conversation, body, index, journal, archive, month>>

\* One segment, under one hold of the lock. Without the conversation row the
\* foreign key fails the first insert, and the call with it.
ScrollApply(t) ==
    /\ pc[t] = "scrolling"
    /\ \E s \in job[t].segs :
          /\ conversation \/ Stubs(s) = {}
          /\ bodyState' = [m \in Messages |->
                IF m \in Stubs(s) THEN "remote_archive_only" ELSE bodyState[m]]
          /\ born' = [m \in Messages |->
                IF m \in Stubs(s) THEN segments[s].bucket ELSE born[m]]
          /\ IF job[t].segs = {s}
             THEN Done(t)
             ELSE Goto(t, "scrolling", [job[t] EXCEPT !.segs = @ \ {s}])
    /\ UNCHANGED <<conversation, body, index, journal, archive, month>>

-----------------------------------------------------------------------------
(* The archive driver: the journal's reader, run by the host *)

ArchiveRead(t) ==
    /\ pc[t] = "idle"
    /\ cursor < Len(journal)
    /\ Goto(t, "archiving", [Idle EXCEPT !.todo = cursor + 1 .. Len(journal),
                                          !.upto = Len(journal)])
    /\ UNCHANGED <<conversation, message, index, journal, archive, month>>

\* One bucket of the window: sealed, uploaded, and entered in the map.
ArchiveSegment(t) ==
    /\ pc[t] = "archiving"
    /\ Len(segments) < MaxSegments
    /\ \E bucket \in {journal[e].bucket : e \in job[t].todo} :
          LET events == {e \in job[t].todo : journal[e].bucket = bucket} IN
          /\ segments' = Append(segments, [bucket |-> bucket, events |-> events,
                                           state |-> "archive_uploaded"])
          /\ Goto(t, "archiving", [job[t] EXCEPT !.todo = @ \ events])
    /\ UNCHANGED <<conversation, message, index, journal, cursor, month>>

\* The cursor moves once every bucket of the window is in the map, and never back.
ArchiveAdvance(t) ==
    /\ pc[t] = "archiving"
    /\ job[t].todo = {}
    /\ cursor <= job[t].upto
    /\ cursor' = job[t].upto
    /\ Done(t)
    /\ UNCHANGED <<conversation, message, index, journal, segments, month>>

\* The uploaded segment's Merkle root is checked against the server's.
VerifySegment(s) ==
    /\ segments[s].state = "archive_uploaded"
    /\ segments' = [segments EXCEPT ![s].state = "archive_verified"]
    /\ UNCHANGED <<conversation, message, index, journal, cursor, month, threads>>

-----------------------------------------------------------------------------
(* Archive compaction of one bucket *)

Eligible(bucket) == {s \in SegmentsOf(bucket) : segments[s].state = "archive_verified"}

CompactRead(t) ==
    /\ pc[t] = "idle"
    /\ \E bucket \in 1..month :
          /\ \E s, r \in Eligible(bucket) : s # r
          /\ Goto(t, "merging", [Idle EXCEPT !.segs = Eligible(bucket), !.bucket = bucket])
    /\ UNCHANGED <<conversation, message, index, journal, archive, month>>

\* apply_archive_tombstones: a deletion drops every event of its message in the
\* merged set, and the deletions themselves go too.
Survivors(events) ==
    {e \in events :
        /\ CarriesText(e)
        /\ \A d \in events :
              ~(journal[d].kind = "message_deleted" /\ journal[d].msg = journal[e].msg)}

Merged(t) == Survivors(UNION {segments[s].events : s \in job[t].segs})

\* Without survivors there is no segment to commit; the sources are still flipped.
CompactCommit(t) ==
    /\ pc[t] = "merging"
    /\ IF Merged(t) = {}
       THEN UNCHANGED segments
       ELSE /\ Len(segments) < MaxSegments
            /\ segments' = Append(segments, [bucket |-> job[t].bucket, events |-> Merged(t),
                                             state |-> "archive_uploaded"])
    /\ Goto(t, "flipping", [job[t] EXCEPT !.out = Len(segments) + 1])
    /\ UNCHANGED <<conversation, message, index, journal, cursor, month>>

\* Mutant: whatever is eligible by now is marked superseded.
CompactFlipEligible(t) ==
    /\ pc[t] = "flipping"
    /\ segments' = [s \in DOMAIN segments |->
          IF s \in Eligible(job[t].bucket)
          THEN [segments[s] EXCEPT !.state = "archive_compacted"] ELSE segments[s]]
    /\ Done(t)
    /\ UNCHANGED <<conversation, message, index, journal, cursor, month>>

\* Exactly the segments that were merged are marked superseded.
CompactFlip(t) ==
    /\ pc[t] = "flipping"
    /\ segments' = [s \in DOMAIN segments |->
          IF s \in job[t].segs THEN [segments[s] EXCEPT !.state = "archive_compacted"]
                               ELSE segments[s]]
    /\ Done(t)
    /\ UNCHANGED <<conversation, message, index, journal, cursor, month>>

\* The call returns: it is done, or it failed (transport, key, missing row), or
\* the process died. What it held in memory is gone; what it wrote stays.
Return(t) ==
    /\ pc[t] # "idle"
    /\ Done(t)
    /\ UNCHANGED <<conversation, message, index, journal, archive, month>>

-----------------------------------------------------------------------------
Host ==
    \/ CreateConversation
    \/ DeleteConversation
    \/ NextMonth
    \/ \E m \in Messages :
          \/ Ingest(m)
          \/ SendText(m)
          \/ Edit(m)
          \/ \E scope \in {"deleted_for_me", "deleted_for_everyone"} : Delete(m, scope)
    \/ \E s \in DOMAIN segments : VerifySegment(s)

Next ==
    \/ Host
    \/ \E t \in Readers :
          \/ SearchCold(t) \/ HydrateFetch(t) \/ HydrateApply(t)
          \/ ScrollFetch(t) \/ ScrollApply(t)
    \/ \E t \in Archivers : ArchiveRead(t) \/ ArchiveSegment(t) \/ ArchiveAdvance(t)
    \/ \E t \in Compactors : CompactRead(t) \/ CompactCommit(t) \/ CompactFlip(t)
    \/ \E t \in Threads : Return(t)

Spec == Init /\ [][Next]_vars

-----------------------------------------------------------------------------
(* Types *)

Seqs == DOMAIN journal

JobType ==
    [msg : Messages \cup {0}, bucket : Nat, replay : SUBSET ((DOMAIN segments) \X Seqs),
     cur : Nat, todo : SUBSET Seqs, upto : 0..Len(journal),
     segs : SUBSET DOMAIN segments, out : Nat]

\* Every column holds a value of its type, and every sequence number a row, a
\* segment or a thread holds is one of an event that is in the journal.
TypeInv ==
    /\ conversation \in BOOLEAN
    /\ bodyState \in [Messages -> BodyStates \cup {"none"}]
    /\ born \in [Messages -> Nat]
    /\ body \in [Messages -> Seqs \cup {0}]
    /\ fts \in [Messages -> SUBSET Seqs]
    /\ fuzzy \in [Messages -> SUBSET Seqs]
    /\ vector \in [Messages -> Seqs \cup {0}]
    /\ journal \in Seq([kind : {"message_received", "message_edited", "message_deleted"},
                        msg : Messages, bucket : Nat])
    /\ cursor \in 0..Len(journal)
    /\ segments \in Seq([bucket : Nat, events : SUBSET Seqs,
                         state : {"archive_uploaded", "archive_verified", "archive_compacted"}])
    /\ month \in Nat
    /\ pc \in [Threads -> {"idle", "searched", "hydrating", "scrolling",
                           "archiving", "merging", "flipping"}]
    /\ job \in [Threads -> JobType]

-----------------------------------------------------------------------------
(* Safety *)

\* What search finds is what the timeline shows: a resident message is indexed
\* under its present text and no other in both lexical lanes, a message that is
\* not resident is in no lane, embeddings included, and only a message deleted
\* for this user alone keeps a body while hidden (edit_message, delete_inner,
\* rehydrate_message_body_locally and delete_conversation each rewrite the
\* three indexes by hand, and hydration runs long after its search).
IndexMirrorsBody ==
    \A m \in Messages :
        /\ bodyState[m] = "local_plain_available" =>
              /\ body[m] # 0
              /\ fts[m] = {body[m]}
              /\ fuzzy[m] = {body[m]}
        /\ bodyState[m] # "local_plain_available" =>
              /\ fts[m] = {}
              /\ fuzzy[m] = {}
              /\ vector[m] = 0
        /\ bodyState[m] \notin {"local_plain_available", "deleted_for_me"} => body[m] = 0

\* Whether the message was ever deleted, in either scope.
Deleted(m) == \E e \in Seqs : journal[e].kind = "message_deleted" /\ journal[e].msg = m

\* An event some segment still in service holds.
Archived(e) ==
    \E s \in DOMAIN segments :
        segments[s].state # "archive_compacted" /\ e \in segments[s].events

\* Neither a crashed driver nor compactors working on the same bucket, with
\* segments verified in between, lose a text: every text behind the cursor whose
\* message was never deleted is in a segment that is not superseded.
ArchiveKeepsLiveTexts ==
    \A e \in 1..cursor : CarriesText(e) /\ ~Deleted(journal[e].msg) => Archived(e)

\* A stub in the timeline can be followed: the bucket its timestamp names has a
\* segment that mentions the message (rehydrate_timeline_skeletons writes it from
\* a fetch that other calls have overtaken).
StubsAreArchived ==
    \A m \in Messages : bodyState[m] = "remote_archive_only" =>
        \E s \in SegmentsOf(born[m]) : m \in Mentioned(s)

\* Scrolling back with a stale fetch never hides what is already there: no row
\* that exists becomes a stub (upsert_skeleton_from_archive: existing local rows
\* always win).
RowsNeverBecomeStubs ==
    [][\A m \in Messages :
          bodyState'[m] = "remote_archive_only" /\ bodyState[m] # "remote_archive_only"
             => bodyState[m] = "none" /\ body[m] = 0]_vars

\* "Terminal states ... have no outgoing transitions" (state_machines.rs): while
\* the row exists, a message deleted for everyone stays deleted.
DeletedForEveryoneIsTerminal ==
    [][\A m \in Messages :
          bodyState[m] = "deleted_for_everyone"
             => bodyState'[m] \in {"deleted_for_everyone", "none"}]_vars

=============================================================================
