------------------------------ MODULE ColdSearch ------------------------------
(***************************************************************************)
(* A search that fans out to the index shards of the personal archive: the *)
(* three ways of running it, the byte-bounded cache of decrypted shards    *)
(* they share, its warming in idle time, and the sweep after a backup that *)
(* replaces a bucket's shards while searches read them.                    *)
(*                                                                         *)
(* One query is searched for again and again; a row stands for its         *)
(* message.  A bucket is a pair of conversation and month.  Nothing in the *)
(* code uploads a bloom shard, so the probe before a bucket always falls   *)
(* through.  Ranking is left out: a list cut at the row limit may keep any *)
(* of its rows.                                                            *)
(***************************************************************************)
EXTENDS Integers, FiniteSets, SequencesExt

CONSTANTS
    Messages,
    Held,         \* those this device ever holds: the others were archived by an
                  \* earlier one
    Buckets,
    BucketsOf,    \* the buckets of a message: by the months of its events
    Matches,      \* the messages whose text contains a word of the query
    Similar,      \* those whose fuzzy tokens come close enough
    Searchers,    \* threads that search
    Concurrency,  \* fetch threads of a parallel search
    MaxBuckets,   \* max_cold_buckets_per_search
    Limits,       \* the row limits that callers pass
    Budget,       \* of the cache, one for a row
    MaxSweeps     \* bound: sweeps

ASSUME ColdAssumption ==
    /\ IsFiniteSet(Messages) /\ IsFiniteSet(Buckets)
    /\ BucketsOf \in [Messages -> SUBSET Buckets]
    /\ Held \subseteq Messages
    /\ Matches \subseteq Messages /\ Similar \subseteq Messages
    /\ Concurrency \in Nat \ {0} /\ MaxBuckets \in Nat /\ Budget \in Nat
    /\ Limits \subseteq Nat
    /\ MaxSweeps \in Nat

VARIABLES
    resident,     \* the messages that the local indexes hold
    shards,       \* shards[b]: the rows of the text and the fuzzy shard of b
    steady,       \* history: <<m, b>> if m has been in both from the start
    sweep,        \* an upload of a bucket's shards in progress
    sweeps,       \* how many there were
    cache,        \* entries, least recently used first, and the bytes charged
    search        \* search[s]: the last search of s and its locals

vars == <<resident, shards, steady, sweep, sweeps, cache, search>>

Kinds == {"text", "fuzzy"}
Rows == [Kinds -> SUBSET Messages]
NoRows == [k \in Kinds |-> {}]
Ways == {"sequential", "parallel", "streaming"}
In(b) == {m \in Messages : b \in BucketsOf[m]}

Smaller(m, n) == IF m < n THEN m ELSE n

-----------------------------------------------------------------------------
(* ShardCache.                                                              *)

\* The sum over the entries; no two have the same key.
RowsOf(entries) == UNION {{e.key} \X e.rows : e \in ToSet(entries)}
Charged(entries) == Cardinality(RowsOf(entries))

Holds(c, key) == \E i \in DOMAIN c.entries : c.entries[i].key = key
EntryOf(c, key) == CHOOSE e \in ToSet(c.entries) : e.key = key
Has(key) == Holds(cache, key)
Cached(key) == EntryOf(cache, key)
Without(entries, key) ==
    IF \E i \in DOMAIN entries : entries[i].key = key
    THEN RemoveAt(entries, CHOOSE i \in DOMAIN entries : entries[i].key = key)
    ELSE entries

\* Mutant: the entry stays where it was too.
TouchAgain(c, key) == [c EXCEPT !.entries = Append(@, EntryOf(c, key))]

\* get: a hit becomes the most recently used.
Touch(c, key) == [c EXCEPT !.entries = Append(Without(@, key), EntryOf(c, key))]

\* evict_lru: the oldest entries go until the budget holds.
Evict(c) ==
    LET n == CHOOSE k \in 0..Len(c.entries) :
                /\ c.bytes - Charged(SubSeq(c.entries, 1, k)) <= Budget
                /\ \A j \in 0..k - 1 : c.bytes - Charged(SubSeq(c.entries, 1, j)) > Budget
    IN  [entries |-> SubSeq(c.entries, n + 1, Len(c.entries)),
         bytes |-> c.bytes - Charged(SubSeq(c.entries, 1, n))]

\* Mutant: the entry that is replaced stays charged.
PutOnTop(c, key, rows) ==
    Evict([entries |-> Append(Without(c.entries, key), [key |-> key, rows |-> rows]),
           bytes |-> c.bytes + Cardinality(rows)])

\* put: an entry under the same key is replaced, and its bytes given back.
Put(c, key, rows) ==
    LET others == Without(c.entries, key)
        freed == Charged(c.entries) - Charged(others)
    IN  Evict([entries |-> Append(others, [key |-> key, rows |-> rows]),
               bytes |-> c.bytes - freed + Cardinality(rows)])

\* warm_shard_cache, for one recent bucket, under the cache's lock: what is
\* there is touched, what is missing is fetched, and kept if it has rows; an
\* error ends it.
Warmed(c, key) ==
    LET rows == shards[key[1]][key[2]] IN
    IF Holds(c, key) THEN Touch(c, key) ELSE IF rows = {} THEN c ELSE Put(c, key, rows)

Warm(b) ==
    /\ Budget > 0
    /\ LET text == Warmed(cache, <<b, "text">>) IN
       \/ cache' = Warmed(text, <<b, "fuzzy">>)
       \/ cache' = text /\ ~Holds(text, <<b, "fuzzy">>)
    /\ UNCHANGED <<resident, shards, steady, sweep, sweeps, search>>

-----------------------------------------------------------------------------
(* The messages, and the sweep of run_incremental_backup_with_search_shards. *)

NoSweep == [bucket |-> {}, rows |-> {}, half |-> "text"]

Arrive(m) ==
    /\ m \notin resident /\ resident' = resident \cup {m}
    /\ UNCHANGED <<shards, steady, sweep, sweeps, cache, search>>

\* Deleted, or lost with the device: the shards keep the message.
Leave(m) ==
    /\ m \in resident /\ resident' = resident \ {m}
    /\ UNCHANGED <<shards, steady, sweep, sweeps, cache, search>>

\* The rows of the messages just sealed, and only those, make the new shards.
StartSweep(b) ==
    /\ sweep = NoSweep /\ sweeps < MaxSweeps /\ sweeps' = sweeps + 1
    /\ \E rows \in SUBSET (resident \cap In(b)) \ {{}} :
          sweep' = [bucket |-> b, rows |-> rows, half |-> "text"]
    /\ UNCHANGED <<resident, shards, steady, cache, search>>

\* upload_search_shards: the text shard, then the fuzzy one.
NextHalf ==
    sweep' = IF sweep.half = "text" THEN [sweep EXCEPT !.half = "fuzzy"] ELSE NoSweep

UploadHalf ==
    /\ sweep # NoSweep
    /\ shards' = [shards EXCEPT ![sweep.bucket][sweep.half] = sweep.rows]
    /\ steady' = {mb \in steady : mb[2] = sweep.bucket => mb[1] \in sweep.rows}
    /\ NextHalf
    /\ UNCHANGED <<resident, sweeps, cache, search>>

\* A transport error goes on the receipt, and the other half is still tried;
\* any other error ends the sweep.
UploadHalfFails ==
    /\ sweep # NoSweep
    /\ NextHalf \/ sweep' = NoSweep
    /\ UNCHANGED <<resident, shards, steady, sweeps, cache, search>>

-----------------------------------------------------------------------------
(* Searching.                                                               *)

NoSearch == [at |-> "idle", way |-> "sequential", limit |-> 0, scope |-> {},
             stage |-> [b \in Buckets |-> "waiting"],
             rows |-> [b \in Buckets |-> NoRows],
             broken |-> {}, hits |-> {}, skipped |-> {}, error |-> FALSE, events |-> <<>>]

\* A list of rows, ranked and cut at the limit.
Top(limit, rows) ==
    {top \in SUBSET rows : Cardinality(top) = Smaller(limit, Cardinality(rows))}

\* What the local lanes find, in one snapshot of the database.
Local == resident \cap (Matches \cup Similar)

Event(kind, rows) == [kind |-> kind, rows |-> rows]

\* The callback is there in a streaming search only.
Emit(r, kind, rows) ==
    IF r.way = "streaming" THEN [r EXCEPT !.events = Append(@, Event(kind, rows))] ELSE r

\* The call returns: its locals are gone.
Over(r) == [r EXCEPT !.at = "done", !.stage = NoSearch.stage, !.rows = NoSearch.rows,
                     !.broken = {}]

Become(s, r) == search' = [search EXCEPT ![s] = r]

Begun(way, limit, rows) ==
    Emit([NoSearch EXCEPT !.way = way, !.limit = limit, !.hits = rows], "local", rows)

\* However many buckets are in scope, the first MaxBuckets are taken.
Begin(s, way) ==
    /\ search[s].at # "running"
    /\ \E limit \in Limits, scope \in Top(MaxBuckets, Buckets) : \E rows \in Top(limit, Local) :
          Become(s, [Begun(way, limit, rows) EXCEPT !.at = "running", !.scope = scope])
    /\ UNCHANGED <<resident, shards, steady, sweep, sweeps, cache>>

\* cold_buckets fails: the error is returned, after the stream's last event.
Unlisted(s, way) ==
    /\ search[s].at # "running"
    /\ \E limit \in Limits : \E rows \in Top(limit, Local) :
          Become(s, [Over(Emit(Begun(way, limit, rows), "complete", rows)) EXCEPT !.error = TRUE])
    /\ UNCHANGED <<resident, shards, steady, sweep, sweeps, cache>>

Running(s) == search[s].at = "running"
InStage(s, b, stage) == Running(s) /\ search[s].stage[b] = stage
Waiting == {"waiting", "fetched", "merged"}

\* One bucket after the other; a parallel search fetches several at a time
\* and merges when all are there.
StartBucket(s, b) ==
    /\ InStage(s, b, "waiting") /\ b \in search[s].scope
    /\ IF search[s].way = "parallel"
       THEN Cardinality({c \in Buckets : search[s].stage[c] \notin Waiting}) < Concurrency
       ELSE \A c \in Buckets : search[s].stage[c] \in {"waiting", "merged"}
    /\ Become(s, [search[s] EXCEPT !.stage[b] = "text"])
    /\ UNCHANGED <<resident, shards, steady, sweep, sweeps, cache>>

\* fetch_text_with_cache and fetch_fuzzy_with_cache: the cache is asked, the
\* shard fetched without its lock, and what came is put.
Missed(kind) == IF kind = "text" THEN "text_missed" ELSE "fuzzy_missed"
Loaded(kind) == IF kind = "text" THEN "text_loaded" ELSE "fuzzy_loaded"
After(kind) == IF kind = "text" THEN "fuzzy" ELSE "fetched"

Hit(s, b, kind) ==
    /\ InStage(s, b, kind) /\ Has(<<b, kind>>)
    /\ cache' = Touch(cache, <<b, kind>>)
    /\ Become(s, [search[s] EXCEPT !.stage[b] = After(kind),
                                   !.rows[b][kind] = Cached(<<b, kind>>).rows])
    /\ UNCHANGED <<resident, shards, steady, sweep, sweeps>>

Miss(s, b, kind) ==
    /\ InStage(s, b, kind) /\ ~Has(<<b, kind>>)
    /\ Become(s, [search[s] EXCEPT !.stage[b] = Missed(kind)])
    /\ UNCHANGED <<resident, shards, steady, sweep, sweeps, cache>>

\* Mutant: a shard that cannot be fetched counts as one without rows.
LoadAnyhow(s, b, kind) ==
    /\ InStage(s, b, Missed(kind))
    /\ \E rows \in {shards[b][kind], {}} :
          Become(s, [search[s] EXCEPT !.stage[b] = Loaded(kind), !.rows[b][kind] = rows])
    /\ UNCHANGED <<resident, shards, steady, sweep, sweeps, cache>>

Load(s, b, kind) ==
    /\ InStage(s, b, Missed(kind))
    /\ Become(s, [search[s] EXCEPT !.stage[b] = Loaded(kind),
                                   !.rows[b][kind] = shards[b][kind]])
    /\ UNCHANGED <<resident, shards, steady, sweep, sweeps, cache>>

Keep(s, b, kind) ==
    /\ InStage(s, b, Loaded(kind))
    /\ cache' = Put(cache, <<b, kind>>, search[s].rows[b][kind])
    /\ Become(s, [search[s] EXCEPT !.stage[b] = After(kind)])
    /\ UNCHANGED <<resident, shards, steady, sweep, sweeps>>

\* A fetch fails: the sequential search is over, the streaming one skips the
\* bucket and says so, the parallel one still fetches the other shard and
\* drops the bucket when it merges.
LoadFails(s, b, kind) ==
    /\ InStage(s, b, Missed(kind))
    /\ LET r == search[s] IN
       Become(s, CASE r.way = "sequential" -> [Over(r) EXCEPT !.error = TRUE]
                   [] r.way = "streaming" ->
                        Emit([r EXCEPT !.stage[b] = "merged", !.skipped = @ \cup {b}],
                             "bucket", {})
                   [] OTHER -> [r EXCEPT !.stage[b] = After(kind), !.broken = @ \cup {b}])
    /\ UNCHANGED <<resident, shards, steady, sweep, sweeps, cache>>

\* merge_bucket_rows_into_by_id: a fuzzy hit needs the text shard's row for
\* its metadata.
BucketHits(rows) == rows["text"] \cap (Matches \cup (rows["fuzzy"] \cap Similar))

\* Mutant: an event repeats what the listener already has.
MergeAll(s, b) ==
    /\ InStage(s, b, "fetched")
    /\ LET r == search[s]
           found == IF b \in r.broken THEN {} ELSE BucketHits(r.rows[b])
       IN  /\ r.way = "parallel" => \A c \in r.scope : r.stage[c] \in {"fetched", "merged"}
           /\ Become(s, Emit([r EXCEPT !.stage[b] = "merged", !.hits = @ \cup found],
                             "bucket", found))
    /\ UNCHANGED <<resident, shards, steady, sweep, sweeps, cache>>

Merge(s, b) ==
    /\ InStage(s, b, "fetched")
    /\ LET r == search[s]
           found == IF b \in r.broken THEN {} ELSE BucketHits(r.rows[b])
       IN  /\ r.way = "parallel" => \A c \in r.scope : r.stage[c] \in {"fetched", "merged"}
           /\ Become(s, Emit([r EXCEPT !.stage[b] = "merged", !.hits = @ \cup found],
                             "bucket", found \ r.hits))
    /\ UNCHANGED <<resident, shards, steady, sweep, sweeps, cache>>

\* Mutant: the listener gets the list before it is cut.
FinishUncut(s) ==
    /\ Running(s) /\ \A b \in search[s].scope : search[s].stage[b] = "merged"
    /\ \E rows \in Top(search[s].limit, search[s].hits) :
          Become(s, [Over(Emit(search[s], "complete", search[s].hits)) EXCEPT !.hits = rows])
    /\ UNCHANGED <<resident, shards, steady, sweep, sweeps, cache>>

\* The merged list is cut, and the last event and the result are the same list.
Finish(s) ==
    /\ Running(s) /\ \A b \in search[s].scope : search[s].stage[b] = "merged"
    /\ \E rows \in Top(search[s].limit, search[s].hits) :
          Become(s, Over(Emit([search[s] EXCEPT !.hits = rows], "complete", rows)))
    /\ UNCHANGED <<resident, shards, steady, sweep, sweeps, cache>>

-----------------------------------------------------------------------------
\* Shards of an earlier device, or of earlier sweeps.
Init ==
    /\ resident \in SUBSET Held
    /\ shards \in [Buckets -> Rows]
    /\ \A b \in Buckets :
          shards[b]["text"] = shards[b]["fuzzy"] /\ shards[b]["text"] \subseteq In(b)
    /\ steady = {mb \in Messages \X Buckets : mb[1] \in shards[mb[2]]["text"]}
    /\ sweep = NoSweep /\ sweeps = 0
    /\ cache = [entries |-> <<>>, bytes |-> 0]
    /\ search = [s \in Searchers |-> NoSearch]

Fetch(s, b, kind) ==
    Hit(s, b, kind) \/ Miss(s, b, kind) \/ Load(s, b, kind) \/ Keep(s, b, kind)
        \/ LoadFails(s, b, kind)

Searching(s) ==
    \/ \E way \in Ways : Begin(s, way) \/ Unlisted(s, way)
    \/ \E b \in Buckets :
          StartBucket(s, b) \/ Merge(s, b) \/ \E kind \in Kinds : Fetch(s, b, kind)
    \/ Finish(s)

Next ==
    \/ \E m \in Held : Arrive(m) \/ Leave(m)
    \/ \E b \in Buckets : StartSweep(b) \/ Warm(b)
    \/ UploadHalf \/ UploadHalfFails
    \/ \E s \in Searchers : Searching(s)

Spec == Init /\ [][Next]_vars

-----------------------------------------------------------------------------
(* Properties.                                                              *)

Stages == Waiting \cup Kinds \cup {Missed(k) : k \in Kinds} \cup {Loaded(k) : k \in Kinds}

Entry == [key : Buckets \X Kinds, rows : SUBSET Messages]
KeysDiffer(entries) ==
    \A i, j \in DOMAIN entries : entries[i].key = entries[j].key => i = j

Sweep == {NoSweep} \cup [bucket : Buckets, rows : SUBSET Messages, half : Kinds]

EventKinds == {"local", "bucket", "complete"}
Call == [at : {"idle", "running", "done"}, way : Ways, limit : Nat, scope : SUBSET Buckets,
         stage : [Buckets -> Stages], rows : [Buckets -> Rows],
         broken : SUBSET Buckets, hits : SUBSET Messages, skipped : SUBSET Buckets,
         error : BOOLEAN, events : Seq([kind : EventKinds, rows : SUBSET Messages])]

\* Every variable holds a value of its kind, and a key is cached once.
ColdTypeOK ==
    /\ resident \subseteq Held /\ steady \subseteq Messages \X Buckets
    /\ shards \in [Buckets -> Rows]
    /\ sweep \in Sweep /\ sweeps \in Nat
    /\ cache \in [entries : Seq(Entry), bytes : Nat] /\ KeysDiffer(cache.entries)
    /\ search \in [Searchers -> Call]

\* However searches, warming and replaced entries overlap, the cache charges
\* what it holds, and holds no more than its budget.
CacheIsAccounted ==
    cache.bytes = Charged(cache.entries) /\ cache.bytes <= Budget

\* A search that reports neither an error nor a skipped bucket, and returns
\* fewer rows than the limit, has missed no match that was in its buckets'
\* shards all along, whatever was replaced, evicted, warmed or failed to load
\* meanwhile.  A parallel search skips a bucket without saying so.
SilenceMeansComplete ==
    \A s \in Searchers :
        LET r == search[s] IN
        /\ r.at = "done" /\ ~r.error /\ r.skipped = {} /\ r.way # "parallel"
        /\ Cardinality(r.hits) < r.limit
        => \A mb \in steady :
              mb[1] \in Matches \cup Similar /\ mb[2] \in r.scope => mb[1] \in r.hits

\* SearchEvent: the local results first, one delta per bucket, repeating
\* nothing that was sent, and last, once, the result: of all that was sent,
\* as much as the limit admits.
StreamAddsUp ==
    \A s \in Searchers :
        LET r == search[s]
            sent(i) == r.events[i].rows
            last == Len(r.events)
            all == UNION {sent(i) : i \in 1..last - 1}
        IN  r.way = "streaming" /\ r.at = "done" =>
                /\ r.events[1].kind = "local" /\ r.events[last].kind = "complete"
                /\ \A i \in 2..last - 1 : r.events[i].kind = "bucket"
                /\ ~r.error => last = Cardinality(r.scope) + 2
                /\ sent(last) = r.hits /\ r.hits \in Top(r.limit, all)
                /\ \A i, j \in 1..last - 1 : i # j => sent(i) \cap sent(j) = {}
====
