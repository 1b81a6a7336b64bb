--------------------------- MODULE ColdSearchProofs ---------------------------
(* What a search of the archived messages guarantees for any searchers,      *)
(* buckets, rows and budgets: the types, the cache's bookkeeping, that a      *)
(* search which reports nothing amiss missed nothing, and that a stream's     *)
(* events add up to its result.                                              *)
EXTENDS ColdSearch, FiniteSetTheorems, SequenceTheorems, WellFoundedInduction, TLAPS

\* The rows S hold every message that has been in bucket b from the start.
Covers(S, b, all) == \A m \in Messages : <<m, b>> \in all => m \in S

ShardsCover == \A b \in Buckets, k \in Kinds : Covers(shards[b][k], b, steady)
CacheCovers == \A e \in ToSet(cache.entries) : Covers(e.rows, e.key[1], steady)

TextIn == {"text_loaded", "fuzzy", "fuzzy_missed", "fuzzy_loaded", "fetched"}
FuzzyIn == {"fuzzy_loaded", "fetched"}

\* What a search has fetched of a bucket: what it is about to cache, and,
\* unless a fetch failed, what it will merge.
Fetched(r, b, all) ==
    /\ \A k \in Kinds : r.stage[b] = Loaded(k) => Covers(r.rows[b][k], b, all)
    /\ b \notin r.broken =>
          /\ r.stage[b] \in TextIn => Covers(r.rows[b]["text"], b, all)
          /\ r.stage[b] \in FuzzyIn => Covers(r.rows[b]["fuzzy"], b, all)

Found(r, b, all) == \A m \in Matches \cup Similar : <<m, b>> \in all => m \in r.hits

Honest(r, all) ==
    /\ r.at = "running" =>
          /\ \A b \in Buckets : Fetched(r, b, all)
          /\ r.way # "parallel" =>
                /\ r.broken = {}
                /\ \A b \in Buckets :
                      r.stage[b] = "merged" /\ b \notin r.skipped => Found(r, b, all)
    /\ /\ r.at = "done" /\ ~r.error /\ r.skipped = {} /\ r.way # "parallel"
       /\ Cardinality(r.hits) < r.limit
       => \A b \in r.scope : Found(r, b, all)

SilenceInv == ShardsCover /\ CacheCovers /\ \A s \in Searchers : Honest(search[s], steady)

Merged(r) == {b \in Buckets : r.stage[b] = "merged"}
Sent(events) == UNION {events[i].rows : i \in DOMAIN events}
SentOnce(events) == \A i, j \in DOMAIN events : i # j => events[i].rows \cap events[j].rows = {}

\* The stream so far: the local results, then an event per merged bucket.
Streaming(r) ==
    r.way = "streaming" /\ r.at = "running" =>
        /\ \A b \in Buckets : r.stage[b] # "waiting" => b \in r.scope
        /\ Len(r.events) = Cardinality(Merged(r)) + 1
        /\ r.events[1].kind = "local"
        /\ \A i \in 2..Len(r.events) : r.events[i].kind = "bucket"
        /\ SentOnce(r.events) /\ Sent(r.events) = r.hits

AddsUp(r) ==
    LET sent(i) == r.events[i].rows
        last == Len(r.events)
        all == UNION {sent(i) : i \in 1..last - 1}
    IN  r.way = "streaming" /\ r.at = "done" =>
            /\ r.events[1].kind = "local" /\ r.events[last].kind = "complete"
            /\ \A i \in 2..last - 1 : r.events[i].kind = "bucket"
            /\ ~r.error => last = Cardinality(r.scope) + 2
            /\ sent(last) = r.hits /\ r.hits \in Top(r.limit, all)
            /\ \A i, j \in 1..last - 1 : i # j => sent(i) \cap sent(j) = {}

StreamInv == \A s \in Searchers : Streaming(search[s]) /\ AddsUp(search[s])

-----------------------------------------------------------------------------
(* The cache.                                                               *)

CacheOK(c) == /\ c \in [entries : Seq(Entry), bytes : Nat] /\ KeysDiffer(c.entries)
              /\ c.bytes = Charged(c.entries)

LEMMA MembersOf ==
    ASSUME NEW S, NEW q \in Seq(S)
    PROVE  /\ ToSet(q) \subseteq S /\ Len(q) \in Nat /\ DOMAIN q = 1..Len(q)
           /\ \A i \in 1..Len(q) : q[i] \in S /\ q[i] \in ToSet(q)
<1>1. Len(q) \in Nat /\ DOMAIN q = 1..Len(q) /\ \A i \in 1..Len(q) : q[i] \in S
  BY LenProperties, ElementOfSeq
<1>2. QED
  BY <1>1 DEF ToSet

LEMMA RowsAreFinite ==
    ASSUME NEW q \in Seq(Entry)
    PROVE  IsFiniteSet(RowsOf(q)) /\ Charged(q) \in Nat
<1>1. IsFiniteSet(Kinds)
  <2>1. IsFiniteSet({"text"}) /\ IsFiniteSet({"fuzzy"}) /\ Kinds = {"text"} \cup {"fuzzy"}
    BY FS_Singleton DEF Kinds
  <2>2. QED
    BY <2>1, FS_Union
<1>2. IsFiniteSet((Buckets \X Kinds) \X Messages)
  BY <1>1, ColdAssumption, FS_Product
<1>3. RowsOf(q) \in SUBSET ((Buckets \X Kinds) \X Messages)
  <2>1. ASSUME NEW e \in ToSet(q)
        PROVE  {e.key} \X e.rows \subseteq (Buckets \X Kinds) \X Messages
    <3>1. e \in Entry
      BY MembersOf
    <3>2. e.key \in Buckets \X Kinds /\ e.rows \subseteq Messages
      BY <3>1 DEF Entry
    <3>3. QED
      BY <3>2
  <2>2. QED
    BY <2>1 DEF RowsOf
<1>4. IsFiniteSet(RowsOf(q))
  BY <1>2, <1>3, FS_Subset
<1>5. QED
  BY <1>4, FS_CardinalityType DEF Charged

LEMMA OneEntryPerKey ==
    ASSUME NEW q \in Seq(Entry), KeysDiffer(q), NEW e \in ToSet(q), NEW f \in ToSet(q),
           e.key = f.key
    PROVE  e = f
BY DEF KeysDiffer, ToSet

\* Removing a key removes its entry and no other.
LEMMA WithoutKey ==
    ASSUME NEW q \in Seq(Entry), KeysDiffer(q), NEW key
    PROVE  /\ Without(q, key) \in Seq(Entry) /\ KeysDiffer(Without(q, key))
           /\ ToSet(Without(q, key)) = {e \in ToSet(q) : e.key # key}
<1>1. CASE ~\E i \in DOMAIN q : q[i].key = key
  <2>1. Without(q, key) = q
    BY <1>1 DEF Without
  <2>2. QED
    BY <1>1, <2>1 DEF ToSet
<1>2. CASE \E i \in DOMAIN q : q[i].key = key
  <2> DEFINE k == CHOOSE i \in DOMAIN q : q[i].key = key
             w == RemoveAt(q, k)
             front == SubSeq(q, 1, k - 1)
             back == SubSeq(q, k + 1, Len(q))
  <2>1. Without(q, key) = w
    BY <1>2 DEF Without
  <2>2. k \in DOMAIN q /\ q[k].key = key
    BY <1>2
  <2> HIDE DEF k
  <2>3. Len(q) \in Nat /\ DOMAIN q = 1..Len(q) /\ \A i \in 1..Len(q) : q[i] \in Entry
    BY MembersOf
  <2>4. /\ front \in Seq(Entry) /\ Len(front) = k - 1
        /\ \A i \in 1..k - 1 : front[i] = q[i]
    <3>1. /\ SubSeq(q, 1, k - 1) \in Seq(Entry)
          /\ Len(SubSeq(q, 1, k - 1)) = IF 1 <= k - 1 THEN k - 1 - 1 + 1 ELSE 0
          /\ \A i \in 1..k - 1 - 1 + 1 : SubSeq(q, 1, k - 1)[i] = q[1 + i - 1]
      BY <2>2, <2>3, SubSeqProperties
    <3>2. QED
      BY <2>2, <2>3, <3>1
  <2>5. /\ back \in Seq(Entry) /\ Len(back) = Len(q) - k
        /\ \A i \in 1..Len(q) - k : back[i] = q[k + i]
    <3>1. /\ SubSeq(q, k + 1, Len(q)) \in Seq(Entry)
          /\ Len(SubSeq(q, k + 1, Len(q))) =
                IF k + 1 <= Len(q) THEN Len(q) - (k + 1) + 1 ELSE 0
          /\ \A i \in 1..Len(q) - (k + 1) + 1 : SubSeq(q, k + 1, Len(q))[i] = q[k + 1 + i - 1]
      BY <2>2, <2>3, SubSeqProperties
    <3>2. QED
      BY <2>2, <2>3, <3>1
  <2>6. w = front \o back
    BY DEF RemoveAt
  <2> HIDE DEF w, front, back
  <2>7. /\ w \in Seq(Entry) /\ Len(w) = Len(q) - 1
        /\ \A i \in 1..Len(q) - 1 : w[i] = IF i < k THEN q[i] ELSE q[i + 1]
    <3>1. /\ w \in Seq(Entry) /\ Len(w) = Len(front) + Len(back)
          /\ \A i \in 1..Len(front) + Len(back) :
                w[i] = IF i <= Len(front) THEN front[i] ELSE back[i - Len(front)]
      BY <2>4, <2>5, <2>6, ConcatProperties
    <3>2. ASSUME NEW i \in 1..Len(q) - 1 PROVE w[i] = IF i < k THEN q[i] ELSE q[i + 1]
      <4>1. CASE i < k
        BY <2>2, <2>3, <2>4, <2>5, <3>1, <4>1
      <4>2. CASE ~(i < k)
        <5>1. w[i] = back[i - (k - 1)] /\ i - (k - 1) \in 1..Len(q) - k
          BY <2>2, <2>3, <2>4, <2>5, <3>1, <4>2
        <5>2. k + (i - (k - 1)) = i + 1
          BY <2>2, <2>3
        <5>3. QED
          BY <2>5, <4>2, <5>1, <5>2
      <4>3. QED
        BY <4>1, <4>2
    <3>3. QED
      BY <2>2, <2>3, <2>4, <2>5, <3>1, <3>2
  <2>8. DOMAIN w = 1..Len(q) - 1
    BY <2>7, MembersOf
  <2>9. KeysDiffer(w)
    <3>1. ASSUME NEW i \in DOMAIN w, NEW j \in DOMAIN w, w[i].key = w[j].key PROVE i = j
      <4> DEFINE at(n) == IF n < k THEN n ELSE n + 1
      <4>1. w[i] = q[at(i)] /\ w[j] = q[at(j)] /\ at(i) \in DOMAIN q /\ at(j) \in DOMAIN q
        BY <2>2, <2>3, <2>7, <2>8
      <4>2. at(i) = at(j)
        BY <3>1, <4>1 DEF KeysDiffer
      <4>3. QED
        BY <2>2, <2>3, <2>8, <4>2
    <3>2. QED
      BY <3>1 DEF KeysDiffer
  <2>10. ToSet(w) = {e \in ToSet(q) : e.key # key}
    <3>1. ASSUME NEW i \in DOMAIN w PROVE \E j \in DOMAIN q : w[i] = q[j] /\ q[j].key # key
      <4>1. CASE i < k
        BY <2>2, <2>3, <2>7, <2>8, <4>1 DEF KeysDiffer
      <4>2. CASE ~(i < k)
        <5>1. w[i] = q[i + 1] /\ i + 1 \in DOMAIN q /\ i + 1 # k
          BY <2>2, <2>3, <2>7, <2>8, <4>2
        <5>2. QED
          BY <2>2, <5>1 DEF KeysDiffer
      <4>3. QED
        BY <4>1, <4>2
    <3>2. ASSUME NEW j \in DOMAIN q, q[j].key # key PROVE \E i \in DOMAIN w : w[i] = q[j]
      <4>1. CASE j < k
        BY <2>2, <2>3, <2>7, <2>8, <4>1
      <4>2. CASE ~(j < k)
        <5>1. j # k
          BY <2>2, <3>2
        <5>2. j - 1 \in DOMAIN w /\ ~(j - 1 < k) /\ (j - 1) + 1 = j
          BY <2>2, <2>3, <2>8, <4>2, <5>1
        <5>3. QED
          BY <2>7, <2>8, <5>2
      <4>3. QED
        BY <4>1, <4>2
    <3>3. QED
      BY <3>1, <3>2 DEF ToSet
  <2>11. QED
    BY <2>1, <2>7, <2>9, <2>10
<1>3. QED
  BY <1>1, <1>2

LEMMA AppendEntry ==
    ASSUME NEW q \in Seq(Entry), KeysDiffer(q), NEW e \in Entry,
           \A f \in ToSet(q) : f.key # e.key
    PROVE  /\ Append(q, e) \in Seq(Entry) /\ KeysDiffer(Append(q, e))
           /\ ToSet(Append(q, e)) = ToSet(q) \cup {e}
<1> DEFINE a == Append(q, e)
<1>1. /\ Len(q) \in Nat /\ DOMAIN q = 1..Len(q)
      /\ \A i \in 1..Len(q) : q[i] \in ToSet(q)
  BY MembersOf
<1>2. /\ a \in Seq(Entry) /\ Len(a) = Len(q) + 1
      /\ \A i \in 1..Len(q) : a[i] = q[i]
      /\ a[Len(q) + 1] = e
  BY AppendProperties
<1> HIDE DEF a
<1>3. DOMAIN a = 1..Len(q) + 1
  BY <1>2, MembersOf
<1>4. \A i \in DOMAIN a : i \in DOMAIN q \/ i = Len(q) + 1
  BY <1>1, <1>3
<1>5. KeysDiffer(a)
  <2>1. ASSUME NEW i \in DOMAIN a, NEW j \in DOMAIN a, a[i].key = a[j].key PROVE i = j
    BY <1>1, <1>2, <1>4, <2>1 DEF KeysDiffer
  <2>2. QED
    BY <2>1 DEF KeysDiffer
<1>6. ToSet(a) = ToSet(q) \cup {e}
  <2>1. ToSet(a) \subseteq ToSet(q) \cup {e}
    BY <1>1, <1>2, <1>4 DEF ToSet
  <2>2. ToSet(q) \subseteq ToSet(a)
    BY <1>1, <1>2, <1>3 DEF ToSet
  <2>3. e \in ToSet(a)
    <3>1. Len(q) + 1 \in DOMAIN a
      BY <1>1, <1>3
    <3>2. QED
      BY <1>2, <3>1 DEF ToSet
  <2>4. QED
    BY <2>1, <2>2, <2>3
<1>7. QED
  BY <1>2, <1>5, <1>6 DEF a

LEMMA Subsequence ==
    ASSUME NEW q \in Seq(Entry), KeysDiffer(q), NEW n \in 0..Len(q)
    PROVE  /\ SubSeq(q, 1, n) \in Seq(Entry) /\ SubSeq(q, n + 1, Len(q)) \in Seq(Entry)
           /\ KeysDiffer(SubSeq(q, n + 1, Len(q)))
           /\ ToSet(SubSeq(q, 1, n)) = {q[i] : i \in 1..n}
           /\ ToSet(SubSeq(q, n + 1, Len(q))) = {q[i] : i \in n + 1..Len(q)}
<1> DEFINE front == SubSeq(q, 1, n)
           back == SubSeq(q, n + 1, Len(q))
<1>1. Len(q) \in Nat /\ DOMAIN q = 1..Len(q) /\ \A i \in 1..Len(q) : q[i] \in Entry
  BY MembersOf
<1>2. /\ front \in Seq(Entry) /\ DOMAIN front = 1..n
      /\ \A i \in 1..n : front[i] = q[i]
  <2>1. /\ SubSeq(q, 1, n) \in Seq(Entry)
        /\ Len(SubSeq(q, 1, n)) = IF 1 <= n THEN n - 1 + 1 ELSE 0
        /\ \A i \in 1..n - 1 + 1 : SubSeq(q, 1, n)[i] = q[1 + i - 1]
    BY <1>1, SubSeqProperties
  <2>2. DOMAIN front = 1..Len(front)
    BY <2>1, MembersOf
  <2>3. QED
    BY <1>1, <2>1, <2>2
<1>3. /\ back \in Seq(Entry) /\ DOMAIN back = 1..Len(q) - n
      /\ \A i \in 1..Len(q) - n : back[i] = q[n + i]
  <2>1. /\ SubSeq(q, n + 1, Len(q)) \in Seq(Entry)
        /\ Len(SubSeq(q, n + 1, Len(q))) =
              IF n + 1 <= Len(q) THEN Len(q) - (n + 1) + 1 ELSE 0
        /\ \A i \in 1..Len(q) - (n + 1) + 1 : SubSeq(q, n + 1, Len(q))[i] = q[n + 1 + i - 1]
    BY <1>1, SubSeqProperties
  <2>2. DOMAIN back = 1..Len(back)
    BY <2>1, MembersOf
  <2>3. Len(back) = Len(q) - n
    <3>1. CASE n + 1 <= Len(q)
      BY ONLY <1>1, <2>1, <3>1, n \in 0..Len(q)
    <3>2. CASE ~(n + 1 <= Len(q))
      <4>1. Len(q) - n = 0
        <5>1. Len(q) \in Nat /\ n \in 0..Len(q)
          BY <1>1
        <5>2. QED
          BY ONLY <3>2, <5>1
      <4>2. Len(back) = 0
        BY <2>1, <3>2
      <4>3. QED
        BY <4>1, <4>2
    <3>3. QED
      BY <3>1, <3>2
  <2>4. ASSUME NEW i \in 1..Len(q) - n PROVE back[i] = q[n + i]
    <3>1. i \in 1..Len(q) - (n + 1) + 1 /\ n + 1 + i - 1 = n + i
      BY <1>1
    <3>2. QED
      BY <2>1, <3>1
  <2>5. QED
    BY <2>1, <2>2, <2>3, <2>4
<1> HIDE DEF front, back
<1>4. KeysDiffer(back)
  <2>1. ASSUME NEW i \in DOMAIN back, NEW j \in DOMAIN back, back[i].key = back[j].key
        PROVE  i = j
    <3>1. n + i \in DOMAIN q /\ n + j \in DOMAIN q /\ back[i] = q[n + i] /\ back[j] = q[n + j]
      BY <1>1, <1>3
    <3>2. n + i = n + j
      BY <2>1, <3>1 DEF KeysDiffer
    <3>3. QED
      BY <1>1, <1>3, <3>2
  <2>2. QED
    BY <2>1 DEF KeysDiffer
<1>5. ToSet(front) = {q[i] : i \in 1..n}
  BY <1>2 DEF ToSet
<1>6. ToSet(back) = {q[i] : i \in n + 1..Len(q)}
  <2>1. \A i \in DOMAIN back : n + i \in n + 1..Len(q) /\ back[i] = q[n + i]
    BY <1>1, <1>3
  <2>2. \A j \in n + 1..Len(q) : j - n \in DOMAIN back /\ back[j - n] = q[j]
    BY <1>1, <1>3
  <2>3. QED
    BY <2>1, <2>2 DEF ToSet
<1>7. QED
  BY <1>2, <1>3, <1>4, <1>5, <1>6 DEF front, back

\* What the entries up to the n-th charge and what the others charge add up.
LEMMA ChargesAddUp ==
    ASSUME NEW q \in Seq(Entry), KeysDiffer(q), NEW n \in 0..Len(q)
    PROVE  Charged(q) = Charged(SubSeq(q, 1, n)) + Charged(SubSeq(q, n + 1, Len(q)))
<1> DEFINE front == SubSeq(q, 1, n)
           back == SubSeq(q, n + 1, Len(q))
<1>1. /\ front \in Seq(Entry) /\ back \in Seq(Entry)
      /\ ToSet(front) = {q[i] : i \in 1..n} /\ ToSet(back) = {q[i] : i \in n + 1..Len(q)}
  BY Subsequence
<1>2. Len(q) \in Nat /\ DOMAIN q = 1..Len(q)
  BY MembersOf
<1> HIDE DEF front, back
<1>3. ToSet(q) = ToSet(front) \cup ToSet(back)
  <2>1. \A i \in 1..Len(q) : i \in 1..n \/ i \in n + 1..Len(q)
    BY <1>2
  <2>2. \A i : i \in 1..n \/ i \in n + 1..Len(q) => i \in 1..Len(q)
    BY <1>2
  <2>3. QED
    BY <1>1, <1>2, <2>1, <2>2 DEF ToSet
<1>4. RowsOf(q) = RowsOf(front) \cup RowsOf(back)
  BY <1>3 DEF RowsOf
<1>5. RowsOf(front) \cap RowsOf(back) = {}
  <2>1. ASSUME NEW e \in ToSet(front), NEW f \in ToSet(back) PROVE e.key # f.key
    <3>1. PICK i \in 1..n : e = q[i]
      BY <1>1
    <3>2. PICK j \in n + 1..Len(q) : f = q[j]
      BY <1>1
    <3>3. i \in DOMAIN q /\ j \in DOMAIN q /\ i # j
      BY <1>2
    <3>4. QED
      BY <3>1, <3>2, <3>3 DEF KeysDiffer
  <2>2. \A x \in RowsOf(front) : \E e \in ToSet(front) : x[1] = e.key
    BY DEF RowsOf
  <2>3. \A x \in RowsOf(back) : \E e \in ToSet(back) : x[1] = e.key
    BY DEF RowsOf
  <2>4. QED
    BY <2>1, <2>2, <2>3
<1>6. /\ IsFiniteSet(RowsOf(front)) /\ IsFiniteSet(RowsOf(back))
      /\ Charged(front) \in Nat /\ Charged(back) \in Nat
  BY <1>1, RowsAreFinite
<1>7. Cardinality(RowsOf(q)) = Cardinality(RowsOf(front)) + Cardinality(RowsOf(back))
  <2>1. Cardinality(RowsOf(front) \cup RowsOf(back)) =
           Cardinality(RowsOf(front)) + Cardinality(RowsOf(back))
              - Cardinality(RowsOf(front) \cap RowsOf(back))
    BY <1>6, FS_Union
  <2>2. Cardinality(RowsOf(front) \cap RowsOf(back)) = 0
    BY <1>5, FS_EmptySet
  <2>3. QED
    BY <1>4, <1>6, <2>1, <2>2 DEF Charged
<1>8. QED
  BY <1>7 DEF Charged, front, back

\* A set of naturals that is not empty has a least element.
LEMMA LeastNatural ==
    ASSUME NEW S, S \subseteq Nat, S # {}
    PROVE  \E k \in S : \A j \in S : k <= j
<1> DEFINE R == {ij \in Nat \X Nat : ij[1] < ij[2]}
<1>1. IsWellFoundedOn(R, Nat)
  BY NatLessThanWellFounded DEF OpToRel
<1> HIDE DEF R
<1>2. PICK k \in S : \A j \in S : ~(<<j, k>> \in R)
  BY <1>1, WFMin
<1>3. ASSUME NEW j \in S PROVE k <= j
  <2>1. j \in Nat /\ k \in Nat /\ <<j, k>> \notin R
    BY <1>2
  <2>2. ~(j < k)
    BY <2>1 DEF R
  <2>3. QED
    BY <2>1, <2>2
<1>4. QED
  BY <1>3

\* evict_lru ends within the budget, with what it keeps charged and nothing
\* else: emptying the cache would always do, so a first stopping point exists.
LEMMA EvictKeepsAccounts ==
    ASSUME NEW c, CacheOK(c)
    PROVE  /\ CacheOK(Evict(c)) /\ Evict(c).bytes <= Budget
           /\ ToSet(Evict(c).entries) \subseteq ToSet(c.entries)
<1> DEFINE q == c.entries
           left(k) == c.bytes - Charged(SubSeq(q, 1, k))
           stop(k) == left(k) <= Budget /\ \A j \in 0..k - 1 : left(j) > Budget
           n == CHOOSE k \in 0..Len(q) : stop(k)
<1>1. q \in Seq(Entry) /\ c.bytes \in Nat /\ KeysDiffer(q) /\ c.bytes = Charged(q)
  BY DEF CacheOK
<1>2. Len(q) \in Nat /\ Budget \in Nat
  BY <1>1, MembersOf, ColdAssumption
<1>3. \A k \in 0..Len(q) : /\ left(k) = Charged(SubSeq(q, k + 1, Len(q)))
                           /\ left(k) \in Nat
  <2>1. ASSUME NEW k \in 0..Len(q)
        PROVE  left(k) = Charged(SubSeq(q, k + 1, Len(q))) /\ left(k) \in Nat
    <3>1. Charged(q) = Charged(SubSeq(q, 1, k)) + Charged(SubSeq(q, k + 1, Len(q)))
      BY <1>1, ChargesAddUp
    <3>2. Charged(SubSeq(q, 1, k)) \in Nat /\ Charged(SubSeq(q, k + 1, Len(q))) \in Nat
      BY <1>1, Subsequence, RowsAreFinite
    <3>3. QED
      BY <1>1, <3>1, <3>2
  <2>2. QED
    BY <2>1
<1>4. left(Len(q)) = 0
  <2>1. SubSeq(q, 1, Len(q)) = q
    BY <1>1, SubSeqFull
  <2>2. Charged(SubSeq(q, 1, Len(q))) = c.bytes
    BY <1>1, <2>1
  <2>3. QED
    BY <1>1, <2>2
<1> HIDE DEF left
<1>5. \E k \in 0..Len(q) : stop(k)
  <2> DEFINE S == {k \in 0..Len(q) : left(k) <= Budget}
  <2>1. S \subseteq Nat /\ S # {}
    <3>1. Len(q) \in 0..Len(q) /\ left(Len(q)) <= Budget
      BY <1>2, <1>4
    <3>2. QED
      BY <3>1
  <2> HIDE DEF S
  <2>2. PICK k \in S : \A j \in S : k <= j
    BY <2>1, LeastNatural
  <2>3. k \in 0..Len(q) /\ left(k) <= Budget
    BY DEF S
  <2>4. ASSUME NEW j \in 0..k - 1 PROVE left(j) > Budget
    <3>1. j \in 0..Len(q) /\ ~(k <= j)
      BY <1>2, <2>3
    <3>2. ~(left(j) <= Budget)
      BY <2>2, <3>1 DEF S
    <3>3. QED
      BY <1>2, <1>3, <3>1, <3>2
  <2>5. QED
    BY <2>3, <2>4
<1>6. n \in 0..Len(q) /\ stop(n)
  BY <1>5
<1>7. Evict(c) = [entries |-> SubSeq(q, n + 1, Len(q)), bytes |-> left(n)]
  BY DEF Evict, left
<1> HIDE DEF n
<1>8. /\ Evict(c).entries = SubSeq(q, n + 1, Len(q)) /\ Evict(c).bytes = left(n)
      /\ Evict(c) = [entries |-> Evict(c).entries, bytes |-> Evict(c).bytes]
  <2> DEFINE kept == SubSeq(q, n + 1, Len(q))
  <2>1. Evict(c) = [entries |-> kept, bytes |-> left(n)]
    BY <1>7
  <2> HIDE DEF kept
  <2>2. Evict(c).entries = kept /\ Evict(c).bytes = left(n)
    BY <2>1
  <2>3. QED
    BY <2>1, <2>2 DEF kept
<1>9. /\ SubSeq(q, n + 1, Len(q)) \in Seq(Entry) /\ KeysDiffer(SubSeq(q, n + 1, Len(q)))
      /\ ToSet(SubSeq(q, n + 1, Len(q))) = {q[i] : i \in n + 1..Len(q)}
  BY <1>1, <1>6, Subsequence
<1>10. ToSet(SubSeq(q, n + 1, Len(q))) \subseteq ToSet(q)
  <2>1. \A i \in n + 1..Len(q) : i \in 1..Len(q)
    BY <1>2, <1>6
  <2>2. QED
    BY <1>1, <1>9, <2>1, MembersOf
<1>11. left(n) = Charged(SubSeq(q, n + 1, Len(q))) /\ left(n) \in Nat /\ left(n) <= Budget
  BY <1>3, <1>6
<1>12. CacheOK(Evict(c))
  BY <1>8, <1>9, <1>11 DEF CacheOK
<1>13. QED
  BY <1>8, <1>10, <1>11, <1>12

\* put gives back what the replaced entry was charged.
LEMMA PutKeepsAccounts ==
    ASSUME NEW c, CacheOK(c), NEW key \in Buckets \X Kinds, NEW rows \in SUBSET Messages
    PROVE  /\ CacheOK(Put(c, key, rows)) /\ Put(c, key, rows).bytes <= Budget
           /\ \A e \in ToSet(Put(c, key, rows).entries) :
                 e \in ToSet(c.entries) \/ e = [key |-> key, rows |-> rows]
<1> DEFINE q == c.entries
           others == Without(q, key)
           e == [key |-> key, rows |-> rows]
           both == Append(others, e)
           d == [entries |-> both,
                 bytes |-> c.bytes - (Charged(q) - Charged(others)) + Cardinality(rows)]
<1>1. q \in Seq(Entry) /\ c.bytes \in Nat /\ KeysDiffer(q) /\ c.bytes = Charged(q)
  BY DEF CacheOK
<1>2. /\ others \in Seq(Entry) /\ KeysDiffer(others)
      /\ ToSet(others) = {f \in ToSet(q) : f.key # key}
  BY <1>1, WithoutKey
<1>3. e \in Entry /\ e.key = key /\ e.rows = rows
  BY DEF Entry
<1>4. Put(c, key, rows) = Evict(d)
  BY DEF Put
<1> HIDE DEF others, e
<1>5. /\ both \in Seq(Entry) /\ KeysDiffer(both) /\ ToSet(both) = ToSet(others) \cup {e}
  BY <1>2, <1>3, AppendEntry
<1>6. Charged(both) = Charged(others) + Cardinality(rows)
  <2>1. RowsOf(both) = RowsOf(others) \cup ({key} \X rows)
    BY <1>3, <1>5 DEF RowsOf
  <2>2. RowsOf(others) \cap ({key} \X rows) = {}
    <3>1. \A x \in RowsOf(others) : \E f \in ToSet(others) : x[1] = f.key
      BY DEF RowsOf
    <3>2. \A x \in {key} \X rows : x[1] = key
      OBVIOUS
    <3>3. QED
      BY <1>2, <3>1, <3>2
  <2>3. IsFiniteSet(RowsOf(others)) /\ Charged(others) \in Nat
    BY <1>2, RowsAreFinite
  <2>4. IsFiniteSet(rows) /\ Cardinality(rows) \in Nat
    BY ColdAssumption, FS_Subset, FS_CardinalityType
  <2>5. IsFiniteSet({key} \X rows) /\ Cardinality({key} \X rows) = Cardinality(rows)
    <3>1. IsFiniteSet({key}) /\ Cardinality({key}) = 1
      BY FS_Singleton
    <3>2. /\ IsFiniteSet({key} \X rows)
          /\ Cardinality({key} \X rows) = Cardinality({key}) * Cardinality(rows)
      BY <2>4, <3>1, FS_Product
    <3>3. QED
      BY <2>4, <3>1, <3>2
  <2>6. Cardinality(RowsOf(others) \cup ({key} \X rows)) =
           Cardinality(RowsOf(others)) + Cardinality({key} \X rows)
              - Cardinality(RowsOf(others) \cap ({key} \X rows))
    BY <2>3, <2>5, FS_Union
  <2>7. Cardinality(RowsOf(others) \cap ({key} \X rows)) = 0
    BY <2>2, FS_EmptySet
  <2>8. QED
    BY <2>1, <2>3, <2>4, <2>5, <2>6, <2>7 DEF Charged
<1>7. /\ Charged(others) \in Nat /\ Charged(both) \in Nat /\ Charged(q) \in Nat
      /\ Cardinality(rows) \in Nat
  <2>1. IsFiniteSet(rows)
    BY ColdAssumption, FS_Subset
  <2>2. QED
    BY <1>1, <1>2, <1>5, <2>1, RowsAreFinite, FS_CardinalityType
<1>8. d.entries = both /\ d.bytes = Charged(both)
  BY <1>1, <1>6, <1>7
<1>9. CacheOK(d)
  BY <1>5, <1>7, <1>8 DEF CacheOK
<1> HIDE DEF d
<1>10. /\ CacheOK(Evict(d)) /\ Evict(d).bytes <= Budget
       /\ ToSet(Evict(d).entries) \subseteq ToSet(d.entries)
  BY <1>9, EvictKeepsAccounts
<1>11. \A f \in ToSet(d.entries) : f \in ToSet(q) \/ f = e
  BY <1>2, <1>5, <1>8
<1>12. QED
  BY <1>4, <1>10, <1>11 DEF e

LEMMA CachedEntry ==
    ASSUME NEW c, NEW key, Holds(c, key)
    PROVE  EntryOf(c, key) \in ToSet(c.entries) /\ EntryOf(c, key).key = key
<1>1. \E e \in ToSet(c.entries) : e.key = key
  BY DEF Holds, ToSet
<1>2. QED
  BY <1>1 DEF EntryOf

LEMMA TouchKeepsAccounts ==
    ASSUME NEW c, NEW key, CacheOK(c), Holds(c, key)
    PROVE  /\ CacheOK(Touch(c, key)) /\ Touch(c, key).bytes = c.bytes
           /\ ToSet(Touch(c, key).entries) = ToSet(c.entries)
<1> DEFINE q == c.entries
           others == Without(q, key)
           e == EntryOf(c, key)
           both == Append(others, e)
<1>1. q \in Seq(Entry) /\ c.bytes \in Nat /\ KeysDiffer(q) /\ c.bytes = Charged(q)
  BY DEF CacheOK
<1>2. /\ others \in Seq(Entry) /\ KeysDiffer(others)
      /\ ToSet(others) = {f \in ToSet(q) : f.key # key}
  BY <1>1, WithoutKey
<1>3. e \in ToSet(q) /\ e.key = key /\ e \in Entry
  BY <1>1, CachedEntry, MembersOf
<1> DEFINE d == Touch(c, key)
<1>4. d = [entries |-> both, bytes |-> c.bytes]
  <2>1. c = [entries |-> q, bytes |-> c.bytes]
    BY DEF CacheOK
  <2>2. \A x, y, z : [[entries |-> x, bytes |-> y] EXCEPT !.entries = z]
                       = [entries |-> z, bytes |-> y]
    OBVIOUS
  <2>3. d = [c EXCEPT !.entries = both]
    BY DEF Touch
  <2> HIDE DEF d, both, q
  <2>4. QED
    BY <2>1, <2>2, <2>3
<1> HIDE DEF others, e, d
<1>5. /\ both \in Seq(Entry) /\ KeysDiffer(both) /\ ToSet(both) = ToSet(others) \cup {e}
  BY <1>2, <1>3, AppendEntry
<1>6. ToSet(both) = ToSet(q)
  <2>1. \A f \in ToSet(q) : f.key = key => f = e
    BY <1>1, <1>3, OneEntryPerKey
  <2>2. QED
    BY <1>2, <1>3, <1>5, <2>1
<1>7. Charged(both) = Charged(q)
  BY <1>6 DEF Charged, RowsOf
<1> HIDE DEF both
<1>8. CacheOK(d) /\ d.bytes = c.bytes /\ ToSet(d.entries) = ToSet(q)
  BY <1>1, <1>4, <1>5, <1>6, <1>7 DEF CacheOK
<1>9. QED
  BY <1>8 DEF d

\* warm_shard_cache puts what the backend holds, and nothing else.
LEMMA WarmKeepsAccounts ==
    ASSUME ColdTypeOK, CacheIsAccounted, NEW b \in Buckets, Warm(b)
    PROVE  /\ CacheOK(cache') /\ cache'.bytes <= Budget
           /\ \A e \in ToSet(cache'.entries) :
                 \/ e \in ToSet(cache.entries)
                 \/ \E k \in Kinds : e = [key |-> <<b, k>>, rows |-> shards[b][k]]
<1> DEFINE Good(c) == /\ CacheOK(c) /\ c.bytes <= Budget
                      /\ \A e \in ToSet(c.entries) :
                            \/ e \in ToSet(cache.entries)
                            \/ \E k \in Kinds : e = [key |-> <<b, k>>, rows |-> shards[b][k]]
<1>1. Good(cache)
  BY DEF ColdTypeOK, CacheIsAccounted, CacheOK
<1>2. ASSUME NEW c, Good(c), NEW k \in Kinds PROVE Good(Warmed(c, <<b, k>>))
  <2>1. <<b, k>> \in Buckets \X Kinds /\ shards[b][k] \in SUBSET Messages
    BY DEF ColdTypeOK, Rows
  <2> DEFINE key == <<b, k>>
  <2>2. key[1] = b /\ key[2] = k
    OBVIOUS
  <2>3. CASE Holds(c, key)
    <3>1. CacheOK(Touch(c, key)) /\ Touch(c, key).bytes = c.bytes
          /\ ToSet(Touch(c, key).entries) = ToSet(c.entries)
      BY <1>2, <2>3, TouchKeepsAccounts
    <3>2. Warmed(c, key) = Touch(c, key)
      BY <2>3 DEF Warmed
    <3>3. QED
      BY <1>2, <3>1, <3>2
  <2>4. CASE ~Holds(c, key) /\ shards[b][k] = {}
    BY <1>2, <2>2, <2>4 DEF Warmed
  <2>5. CASE ~Holds(c, key) /\ shards[b][k] # {}
    <3> DEFINE d == Put(c, <<b, k>>, shards[b][k])
    <3>1. /\ CacheOK(d) /\ d.bytes <= Budget
          /\ \A e \in ToSet(d.entries) :
                e \in ToSet(c.entries) \/ e = [key |-> <<b, k>>, rows |-> shards[b][k]]
      BY <1>2, <2>1, PutKeepsAccounts
    <3> HIDE DEF d
    <3>2. Good(d)
      BY <1>2, <3>1
    <3>3. Warmed(c, key) = d
      BY <2>2, <2>5 DEF Warmed, d
    <3>4. QED
      BY <3>2, <3>3
  <2>6. QED
    BY <2>3, <2>4, <2>5
<1> HIDE DEF Good
<1>3. "text" \in Kinds /\ "fuzzy" \in Kinds
  BY DEF Kinds
<1>4. PICK text : /\ text = Warmed(cache, <<b, "text">>)
                  /\ cache' = text \/ cache' = Warmed(text, <<b, "fuzzy">>)
  BY DEF Warm
<1>5. Good(text)
  BY <1>1, <1>2, <1>3, <1>4
<1>6. Good(cache')
  BY <1>2, <1>3, <1>4, <1>5
<1>7. QED
  BY <1>6 DEF Good

-----------------------------------------------------------------------------
(* The searches.                                                            *)

LEMMA StageNames ==
    /\ \A k \in Kinds : /\ k \in Stages /\ Missed(k) \in Stages /\ Loaded(k) \in Stages
                        /\ After(k) \in Stages
    /\ "waiting" \in Stages /\ "merged" \in Stages /\ "text" \in Stages
BY DEF Stages, Kinds, Missed, Loaded, After, Waiting

LEMMA CallFields ==
    ASSUME NEW r \in Call
    PROVE  /\ r.at \in {"idle", "running", "done"} /\ r.way \in Ways
           /\ r.limit \in Nat
           /\ r.scope \in SUBSET Buckets /\ r.stage \in [Buckets -> Stages]
           /\ r.rows \in [Buckets -> Rows] /\ r.broken \in SUBSET Buckets
           /\ r.hits \in SUBSET Messages /\ r.skipped \in SUBSET Buckets
           /\ r.error \in BOOLEAN
           /\ r.events \in Seq([kind : EventKinds, rows : SUBSET Messages])
BY DEF Call

LEMMA BecomeFrame ==
    ASSUME ColdTypeOK, NEW s \in Searchers, NEW r, Become(s, r)
    PROVE  /\ search'[s] = r /\ \A u \in Searchers \ {s} : search'[u] = search[u]
           /\ r \in Call => search' \in [Searchers -> Call]
BY DEF ColdTypeOK, Become

LEMMA EventTyped ==
    ASSUME NEW kind \in EventKinds, NEW rows \in SUBSET Messages
    PROVE  /\ Event(kind, rows) \in [kind : EventKinds, rows : SUBSET Messages]
           /\ Event(kind, rows).kind = kind /\ Event(kind, rows).rows = rows
BY DEF Event

\* What an event changes of a search.
LEMMA EmitFields ==
    ASSUME NEW r \in Call, NEW kind \in EventKinds, NEW rows \in SUBSET Messages
    PROVE  LET e == Emit(r, kind, rows)
           IN  /\ e \in Call /\ e.at = r.at /\ e.way = r.way /\ e.scope = r.scope
               /\ e.stage = r.stage /\ e.rows = r.rows /\ e.broken = r.broken
               /\ e.hits = r.hits /\ e.skipped = r.skipped /\ e.error = r.error
               /\ e.limit = r.limit
               /\ r.way = "streaming" => e.events = Append(r.events, Event(kind, rows))
<1>1. CASE r.way = "streaming"
  <2> DEFINE ev == Append(r.events, Event(kind, rows))
  <2>1. ev \in Seq([kind : EventKinds, rows : SUBSET Messages])
    BY CallFields, EventTyped, AppendProperties
  <2>2. Emit(r, kind, rows) = [r EXCEPT !.events = ev]
    BY <1>1 DEF Emit
  <2> HIDE DEF ev
  <2>3. LET e == [r EXCEPT !.events = ev]
        IN  /\ e \in Call /\ e.at = r.at /\ e.way = r.way /\ e.scope = r.scope
            /\ e.stage = r.stage /\ e.rows = r.rows /\ e.broken = r.broken
            /\ e.hits = r.hits /\ e.skipped = r.skipped /\ e.error = r.error
            /\ e.limit = r.limit /\ e.events = ev
    BY <2>1 DEF Call
  <2>4. QED
    BY <2>2, <2>3 DEF ev
<1>2. CASE r.way # "streaming"
  BY <1>2 DEF Emit
<1>3. QED
  BY <1>1, <1>2

\* What a step within a bucket changes of a search.
LEMMA StageMoves ==
    ASSUME NEW r \in Call, NEW b \in Buckets, NEW x \in Stages
    PROVE  LET e == [r EXCEPT !.stage[b] = x]
           IN  /\ e \in Call /\ e.at = r.at /\ e.way = r.way /\ e.scope = r.scope
               /\ e.stage = [r.stage EXCEPT ![b] = x] /\ e.rows = r.rows
               /\ e.broken = r.broken /\ e.hits = r.hits /\ e.skipped = r.skipped
               /\ e.error = r.error /\ e.events = r.events
<1> DEFINE st == [r.stage EXCEPT ![b] = x]
<1>1. st \in [Buckets -> Stages]
  BY CallFields
<1>2. [r EXCEPT !.stage[b] = x] = [r EXCEPT !.stage = st]
  OBVIOUS
<1> HIDE DEF st
<1>3. QED
  BY <1>1, <1>2 DEF Call, st

Filled(r, b, x, k, rows) == [r EXCEPT !.stage[b] = x, !.rows[b][k] = rows]

LEMMA RowsArrive ==
    ASSUME NEW r \in Call, NEW b \in Buckets, NEW x \in Stages, NEW k \in Kinds,
           NEW rows \in SUBSET Messages
    PROVE  LET e == Filled(r, b, x, k, rows)
           IN  /\ e \in Call /\ e.at = r.at /\ e.way = r.way /\ e.scope = r.scope
               /\ e.stage = [r.stage EXCEPT ![b] = x]
               /\ e.rows = [r.rows EXCEPT ![b] = [r.rows[b] EXCEPT ![k] = rows]]
               /\ e.broken = r.broken /\ e.hits = r.hits /\ e.skipped = r.skipped
               /\ e.error = r.error /\ e.events = r.events
<1> DEFINE st == [r.stage EXCEPT ![b] = x]
           rs == [r.rows EXCEPT ![b] = [r.rows[b] EXCEPT ![k] = rows]]
<1>1. st \in [Buckets -> Stages] /\ rs \in [Buckets -> Rows]
  BY CallFields DEF Rows
<1>2. Filled(r, b, x, k, rows) = [r EXCEPT !.stage = st, !.rows = rs]
  BY DEF Filled
<1> HIDE DEF st, rs
<1>3. QED
  BY <1>1, <1>2 DEF Call, st, rs

LEMMA NoSearchTyped ==
    /\ NoSearch \in Call /\ NoSearch.at = "idle" /\ NoSearch.way = "sequential"
    /\ NoSearch.scope = {} /\ NoSearch.stage = [b \in Buckets |-> "waiting"]
    /\ NoSearch.rows = [b \in Buckets |-> NoRows] /\ NoSearch.broken = {}
    /\ NoSearch.hits = {} /\ NoSearch.skipped = {} /\ NoSearch.error = FALSE
    /\ NoSearch.events = <<>>
<1> DEFINE st == [b \in Buckets |-> "waiting"]
           rs == [b \in Buckets |-> NoRows]
<1>1. st \in [Buckets -> Stages] /\ rs \in [Buckets -> Rows]
  BY StageNames DEF Rows, NoRows
<1>2. <<>> \in Seq([kind : EventKinds, rows : SUBSET Messages])
  BY EmptySeq
<1> HIDE DEF st, rs
<1>3. NoSearch = [at |-> "idle", way |-> "sequential", limit |-> 0, scope |-> {},
                  stage |-> st, rows |-> rs, broken |-> {}, hits |-> {}, skipped |-> {},
                  error |-> FALSE, events |-> <<>>]
  BY DEF NoSearch, st, rs
<1>4. QED
  BY <1>1, <1>2, <1>3 DEF Call, Ways, st, rs

LEMMA OverFields ==
    ASSUME NEW r \in Call
    PROVE  /\ Over(r) \in Call /\ Over(r).at = "done" /\ Over(r).way = r.way
           /\ Over(r).scope = r.scope /\ Over(r).hits = r.hits
           /\ Over(r).skipped = r.skipped /\ Over(r).error = r.error
           /\ Over(r).limit = r.limit /\ Over(r).events = r.events
<1> DEFINE st == NoSearch.stage
           rs == NoSearch.rows
<1>1. st \in [Buckets -> Stages] /\ rs \in [Buckets -> Rows]
  BY NoSearchTyped, CallFields
<1>2. Over(r) = [r EXCEPT !.at = "done", !.stage = st, !.rows = rs, !.broken = {}]
  BY DEF Over
<1> HIDE DEF st, rs
<1>3. QED
  BY <1>1, <1>2 DEF Call

LEMMA LocalTyped == ColdTypeOK => Local \in SUBSET Messages
BY ColdAssumption DEF Local

\* A list cut at the limit: shorter than the limit, it is the whole list.
LEMMA TopFields ==
    ASSUME NEW all \in SUBSET Messages, NEW limit \in Nat, NEW top \in Top(limit, all)
    PROVE  /\ top \in SUBSET all /\ top \in Top(limit, top)
           /\ Cardinality(top) < limit => top = all
<1>1. IsFiniteSet(all) /\ Cardinality(all) \in Nat
  BY ColdAssumption, FS_Subset, FS_CardinalityType
<1>2. top \in SUBSET all /\ Cardinality(top) = Smaller(limit, Cardinality(all))
  BY DEF Top
<1>3. Cardinality(all) = Cardinality(top) => all = top
  BY <1>1, <1>2, FS_Subset
<1>4. Cardinality(top) \in Nat /\ Smaller(limit, Cardinality(top)) = Cardinality(top)
  BY <1>1, <1>2 DEF Smaller
<1>5. Cardinality(top) < limit => Cardinality(all) = Cardinality(top)
  BY <1>1, <1>2 DEF Smaller
<1>6. QED
  BY <1>2, <1>3, <1>4, <1>5 DEF Top

Opening(rows) == Append(<<>>, Event("local", rows))

\* A search that has its local results.
LEMMA BegunFields ==
    ASSUME NEW way \in Ways, NEW limit \in Limits, NEW rows \in SUBSET Messages
    PROVE  LET r == Begun(way, limit, rows)
           IN  /\ r \in Call /\ r.way = way /\ r.limit = limit /\ r.hits = rows
               /\ way = "streaming" => r.events = Opening(rows)
<1> DEFINE n == [NoSearch EXCEPT !.way = way, !.limit = limit, !.hits = rows]
<1>1. /\ n \in Call /\ n.way = way /\ n.limit = limit /\ n.hits = rows /\ n.events = <<>>
  BY NoSearchTyped, ColdAssumption DEF Call
<1>2. Begun(way, limit, rows) = Emit(n, "local", rows) /\ "local" \in EventKinds
  BY DEF Begun, EventKinds
<1> HIDE DEF n
<1>3. QED
  BY <1>1, <1>2, EmitFields DEF Opening

\* It has not looked at a bucket yet.
LEMMA BegunStages ==
    ASSUME NEW way \in Ways, NEW limit \in Limits, NEW rows \in SUBSET Messages
    PROVE  LET r == Begun(way, limit, rows)
           IN  /\ r.stage = [b \in Buckets |-> "waiting"]
               /\ r.broken = {} /\ r.skipped = {} /\ r.error = FALSE
<1> DEFINE n == [NoSearch EXCEPT !.way = way, !.limit = limit, !.hits = rows]
<1>1. /\ n \in Call /\ n.stage = [b \in Buckets |-> "waiting"]
      /\ n.broken = {} /\ n.skipped = {} /\ n.error = FALSE
  BY NoSearchTyped, ColdAssumption DEF Call
<1>2. Begun(way, limit, rows) = Emit(n, "local", rows) /\ "local" \in EventKinds
  BY DEF Begun, EventKinds
<1> HIDE DEF n
<1>3. QED
  BY <1>1, <1>2, EmitFields

LEMMA BeginFields ==
    ASSUME ColdTypeOK, NEW s \in Searchers, NEW way \in Ways, Begin(s, way)
    PROVE  \E rows \in SUBSET Messages :
           LET r == search'[s]
           IN  /\ r \in Call /\ r.at = "running" /\ r.way = way
               /\ r.stage = [b \in Buckets |-> "waiting"] /\ r.broken = {}
               /\ r.hits = rows /\ r.skipped = {} /\ r.error = FALSE
               /\ way = "streaming" => r.events = Opening(rows)
<1>1. PICK limit \in Limits, scope \in SUBSET Buckets, rows \in SUBSET Messages :
         Become(s, [Begun(way, limit, rows) EXCEPT !.at = "running", !.scope = scope])
  <2>1. \A limit, x : Top(limit, x) \subseteq SUBSET x
    BY DEF Top
  <2>2. QED
    BY <2>1, LocalTyped DEF Begin
<1> DEFINE n == Begun(way, limit, rows)
<1>2. /\ n \in Call /\ n.way = way /\ n.hits = rows
      /\ way = "streaming" => n.events = Opening(rows)
  BY BegunFields
<1>3. /\ n.stage = [b \in Buckets |-> "waiting"]
      /\ n.broken = {} /\ n.skipped = {} /\ n.error = FALSE
  BY BegunStages
<1> HIDE DEF n
<1>4. search'[s] = [n EXCEPT !.at = "running", !.scope = scope]
  BY <1>1, BecomeFrame DEF n
<1>5. QED
  BY <1>2, <1>3, <1>4 DEF Call

LEMMA UnlistedFields ==
    ASSUME ColdTypeOK, NEW s \in Searchers, NEW way \in Ways, Unlisted(s, way)
    PROVE  \E rows \in SUBSET Messages :
           LET r == search'[s]
           IN  /\ r \in Call /\ r.at = "done" /\ r.way = way /\ r.hits = rows /\ r.error = TRUE
               /\ rows \in Top(r.limit, rows)
               /\ way = "streaming" =>
                     r.events = Append(Opening(rows), Event("complete", rows))
<1>1. PICK limit \in Limits : \E rows \in Top(limit, Local) :
         Become(s, [Over(Emit(Begun(way, limit, rows), "complete", rows)) EXCEPT !.error = TRUE])
  BY DEF Unlisted
<1>2. PICK rows \in Top(limit, Local) :
         Become(s, [Over(Emit(Begun(way, limit, rows), "complete", rows)) EXCEPT !.error = TRUE])
  BY <1>1
<1> DEFINE n == Begun(way, limit, rows)
           e == Emit(n, "complete", rows)
           o == Over(e)
<1>3. limit \in Nat
  BY ColdAssumption
<1>4. rows \in SUBSET Messages /\ rows \in Top(limit, rows) /\ "complete" \in EventKinds
  BY <1>3, LocalTyped, TopFields DEF EventKinds
<1>5. /\ n \in Call /\ n.way = way /\ n.limit = limit /\ n.hits = rows
      /\ way = "streaming" => n.events = Opening(rows)
  BY <1>4, BegunFields
<1> HIDE DEF n
<1>6. /\ e \in Call /\ e.way = way /\ e.limit = limit /\ e.hits = rows
      /\ way = "streaming" => e.events = Append(n.events, Event("complete", rows))
  BY <1>4, <1>5, EmitFields
<1> HIDE DEF e
<1>7. /\ o \in Call /\ o.at = "done" /\ o.way = way /\ o.limit = limit /\ o.hits = rows
      /\ o.events = e.events
  BY <1>6, OverFields
<1>8. Become(s, [o EXCEPT !.error = TRUE])
  BY <1>2 DEF o, e, n
<1> HIDE DEF o
<1>9. search'[s] = [o EXCEPT !.error = TRUE]
  BY <1>8, BecomeFrame
<1>20. QED
  BY <1>4, <1>5, <1>6, <1>7, <1>9 DEF Call

\* StartBucket, Miss and Keep move the bucket on.
LEMMA MovesOn ==
    ASSUME ColdTypeOK, NEW s \in Searchers, NEW b \in Buckets, NEW x \in Stages,
           Become(s, [search[s] EXCEPT !.stage[b] = x])
    PROVE  LET r == search[s]
               q == search'[s]
           IN  /\ q \in Call /\ q.at = r.at /\ q.way = r.way /\ q.scope = r.scope
               /\ q.stage = [r.stage EXCEPT ![b] = x] /\ q.rows = r.rows
               /\ q.broken = r.broken /\ q.hits = r.hits /\ q.skipped = r.skipped
               /\ q.error = r.error /\ q.events = r.events
<1> DEFINE r == search[s]
           n == [r EXCEPT !.stage[b] = x]
<1>1. r \in Call
  BY DEF ColdTypeOK
<1>2. Become(s, n)
  OBVIOUS
<1> HIDE DEF r
<1>3. /\ n \in Call /\ n.at = r.at /\ n.way = r.way /\ n.scope = r.scope
      /\ n.stage = [r.stage EXCEPT ![b] = x] /\ n.rows = r.rows
      /\ n.broken = r.broken /\ n.hits = r.hits /\ n.skipped = r.skipped
      /\ n.error = r.error /\ n.events = r.events
  BY <1>1, StageMoves
<1> HIDE DEF n
<1>4. search'[s] = n
  BY <1>2, BecomeFrame
<1>5. QED
  BY <1>3, <1>4 DEF r

\* Hit and Load also bring rows.
LEMMA Fills ==
    ASSUME ColdTypeOK, NEW s \in Searchers, NEW b \in Buckets, NEW x \in Stages,
           NEW k \in Kinds, NEW rows \in SUBSET Messages,
           Become(s, [search[s] EXCEPT !.stage[b] = x, !.rows[b][k] = rows])
    PROVE  LET r == search[s]
               q == search'[s]
           IN  /\ q \in Call /\ q.at = r.at /\ q.way = r.way /\ q.scope = r.scope
               /\ q.stage = [r.stage EXCEPT ![b] = x]
               /\ q.rows = [r.rows EXCEPT ![b] = [r.rows[b] EXCEPT ![k] = rows]]
               /\ q.broken = r.broken /\ q.hits = r.hits /\ q.skipped = r.skipped
               /\ q.error = r.error /\ q.events = r.events
<1> DEFINE r == search[s]
           n == Filled(r, b, x, k, rows)
<1>1. r \in Call
  BY DEF ColdTypeOK
<1>2. Become(s, n)
  BY DEF Filled
<1> HIDE DEF r
<1>3. /\ n \in Call /\ n.at = r.at /\ n.way = r.way /\ n.scope = r.scope
      /\ n.stage = [r.stage EXCEPT ![b] = x]
      /\ n.rows = [r.rows EXCEPT ![b] = [r.rows[b] EXCEPT ![k] = rows]]
      /\ n.broken = r.broken /\ n.hits = r.hits /\ n.skipped = r.skipped
      /\ n.error = r.error /\ n.events = r.events
  BY <1>1, RowsArrive
<1> HIDE DEF n
<1>4. search'[s] = n
  BY <1>2, BecomeFrame
<1>5. QED
  BY <1>3, <1>4 DEF r

\* A fetch that fails ends the search, skips the bucket or breaks it.
LEMMA FailureFields ==
    ASSUME ColdTypeOK, NEW s \in Searchers, NEW b \in Buckets, NEW kind \in Kinds,
           LoadFails(s, b, kind)
    PROVE  LET r == search[s]
               q == search'[s]
           IN  /\ q \in Call /\ q.way = r.way /\ q.scope = r.scope
               /\ \/ /\ r.way = "sequential" /\ q.at = "done" /\ q.error = TRUE
                  \/ /\ r.way = "streaming" /\ q.at = r.at
                     /\ q.stage = [r.stage EXCEPT ![b] = "merged"] /\ q.rows = r.rows
                     /\ q.broken = r.broken /\ q.hits = r.hits /\ q.error = r.error
                     /\ q.skipped = r.skipped \cup {b}
                     /\ q.events = Append(r.events, Event("bucket", {}))
                  \/ /\ r.way = "parallel" /\ q.at = r.at
                     /\ q.stage = [r.stage EXCEPT ![b] = After(kind)] /\ q.rows = r.rows
                     /\ q.broken = r.broken \cup {b} /\ q.hits = r.hits
                     /\ q.skipped = r.skipped /\ q.error = r.error
<1> DEFINE r == search[s]
<1>1. r \in Call
  BY DEF ColdTypeOK
<1>2. r.way \in {"sequential", "parallel", "streaming"}
  BY <1>1, CallFields DEF Ways
<1>3. CASE r.way = "sequential"
  <2> DEFINE o == Over(r)
  <2>1. o \in Call /\ o.at = "done" /\ o.way = r.way /\ o.scope = r.scope
    BY <1>1, OverFields
  <2>2. Become(s, [o EXCEPT !.error = TRUE])
    BY <1>3 DEF LoadFails
  <2> HIDE DEF o, r
  <2>3. search'[s] = [o EXCEPT !.error = TRUE]
    BY <2>2, BecomeFrame
  <2>4. /\ search'[s] \in Call /\ search'[s].at = "done" /\ search'[s].error = TRUE
        /\ search'[s].way = r.way /\ search'[s].scope = r.scope
    BY <2>1, <2>3 DEF Call
  <2>5. QED
    BY <1>3, <2>4 DEF r
<1>4. CASE r.way = "streaming"
  <2> DEFINE st == [r.stage EXCEPT ![b] = "merged"]
             n == [r EXCEPT !.stage = st, !.skipped = r.skipped \cup {b}]
  <2>1. st \in [Buckets -> Stages] /\ r.skipped \cup {b} \in SUBSET Buckets
    BY <1>1, CallFields, StageNames
  <2>2. [r EXCEPT !.stage[b] = "merged", !.skipped = @ \cup {b}] = n
    OBVIOUS
  <2>3. Become(s, Emit(n, "bucket", {}))
    BY <1>4, <2>2 DEF LoadFails
  <2> HIDE DEF st, r
  <2>4. /\ n \in Call /\ n.at = r.at /\ n.way = r.way /\ n.scope = r.scope /\ n.stage = st
        /\ n.rows = r.rows /\ n.broken = r.broken /\ n.hits = r.hits /\ n.error = r.error
        /\ n.skipped = r.skipped \cup {b} /\ n.events = r.events
    BY <1>1, <2>1 DEF Call
  <2>5. "bucket" \in EventKinds
    BY DEF EventKinds
  <2> HIDE DEF n
  <2>6. search'[s] = Emit(n, "bucket", {})
    BY <2>3, BecomeFrame
  <2> DEFINE q == search'[s]
  <2>7. /\ q \in Call /\ q.at = n.at /\ q.way = n.way /\ q.scope = n.scope
        /\ q.stage = n.stage /\ q.rows = n.rows /\ q.broken = n.broken
        /\ q.hits = n.hits /\ q.skipped = n.skipped /\ q.error = n.error
        /\ q.events = Append(n.events, Event("bucket", {}))
    BY <1>4, <2>4, <2>5, <2>6, EmitFields
  <2>8. QED
    BY <1>4, <2>4, <2>7 DEF r, st
<1>5. CASE r.way = "parallel"
  <2> DEFINE st == [r.stage EXCEPT ![b] = After(kind)]
             n == [r EXCEPT !.stage = st, !.broken = r.broken \cup {b}]
  <2>1. st \in [Buckets -> Stages] /\ r.broken \cup {b} \in SUBSET Buckets
    BY <1>1, CallFields, StageNames
  <2>2. [r EXCEPT !.stage[b] = After(kind), !.broken = @ \cup {b}] = n
    OBVIOUS
  <2>3. Become(s, n)
    BY <1>5, <2>2 DEF LoadFails
  <2> HIDE DEF st, r
  <2>4. /\ n \in Call /\ n.at = r.at /\ n.way = r.way /\ n.scope = r.scope /\ n.stage = st
        /\ n.rows = r.rows /\ n.broken = r.broken \cup {b} /\ n.hits = r.hits
        /\ n.error = r.error /\ n.skipped = r.skipped
    BY <1>1, <2>1 DEF Call
  <2> HIDE DEF n
  <2>5. search'[s] = n
    BY <2>3, BecomeFrame
  <2>6. QED
    BY <1>5, <2>4, <2>5 DEF r, st
<1>6. QED
  BY <1>2, <1>3, <1>4, <1>5

LEMMA MergeFields ==
    ASSUME ColdTypeOK, NEW s \in Searchers, NEW b \in Buckets, Merge(s, b)
    PROVE  LET r == search[s]
               q == search'[s]
               found == IF b \in r.broken THEN {} ELSE BucketHits(r.rows[b])
           IN  /\ q \in Call /\ q.at = r.at /\ q.way = r.way /\ q.scope = r.scope
               /\ q.stage = [r.stage EXCEPT ![b] = "merged"] /\ q.rows = r.rows
               /\ q.broken = r.broken /\ q.hits = r.hits \cup found
               /\ q.skipped = r.skipped /\ q.error = r.error
               /\ found \in SUBSET Messages
               /\ r.way = "streaming" =>
                     q.events = Append(r.events, Event("bucket", found \ r.hits))
<1> DEFINE r == search[s]
           q == search'[s]
           found == IF b \in r.broken THEN {} ELSE BucketHits(r.rows[b])
           st == [r.stage EXCEPT ![b] = "merged"]
           n == [r EXCEPT !.stage = st, !.hits = r.hits \cup found]
<1>1. r \in Call
  BY DEF ColdTypeOK
<1>2. found \in SUBSET Messages
  <2>1. r.rows[b]["text"] \subseteq Messages
    BY <1>1, CallFields DEF Rows, Kinds
  <2>2. QED
    BY <2>1 DEF BucketHits
<1>3. st \in [Buckets -> Stages] /\ r.hits \cup found \in SUBSET Messages
  BY <1>1, <1>2, CallFields, StageNames
<1>4. [r EXCEPT !.stage[b] = "merged", !.hits = @ \cup found] = n
  OBVIOUS
<1>5. Become(s, Emit(n, "bucket", found \ r.hits))
  BY <1>4 DEF Merge
<1> HIDE DEF st, r, found
<1>6. /\ n \in Call /\ n.at = r.at /\ n.way = r.way /\ n.scope = r.scope /\ n.stage = st
      /\ n.rows = r.rows /\ n.broken = r.broken /\ n.hits = r.hits \cup found
      /\ n.error = r.error /\ n.skipped = r.skipped /\ n.events = r.events
  BY <1>1, <1>3 DEF Call
<1>7. "bucket" \in EventKinds /\ found \ r.hits \in SUBSET Messages
  BY <1>2 DEF EventKinds
<1> HIDE DEF n
<1>8. search'[s] = Emit(n, "bucket", found \ r.hits)
  BY <1>5, BecomeFrame
<1>9. /\ q \in Call /\ q.at = n.at /\ q.way = n.way /\ q.scope = n.scope
      /\ q.stage = n.stage /\ q.rows = n.rows /\ q.broken = n.broken
      /\ q.hits = n.hits /\ q.skipped = n.skipped /\ q.error = n.error
      /\ n.way = "streaming" => q.events = Append(n.events, Event("bucket", found \ r.hits))
  BY <1>6, <1>7, <1>8, EmitFields
<1>10. QED
  BY <1>2, <1>6, <1>9 DEF r, st, found

LEMMA FinishFields ==
    ASSUME ColdTypeOK, NEW s \in Searchers, Finish(s)
    PROVE  LET r == search[s]
               q == search'[s]
           IN  /\ q \in Call /\ q.at = "done" /\ q.way = r.way /\ q.scope = r.scope
               /\ q.hits \in Top(r.limit, r.hits) /\ q.limit = r.limit
               /\ q.skipped = r.skipped /\ q.error = r.error
               /\ r.way = "streaming" =>
                     q.events = Append(r.events, Event("complete", q.hits))
<1> DEFINE r == search[s]
<1>1. /\ r \in Call /\ r.hits \in SUBSET Messages /\ r.limit \in Nat
      /\ "complete" \in EventKinds
  BY CallFields DEF ColdTypeOK, EventKinds
<1>2. PICK rows \in Top(r.limit, r.hits) :
         Become(s, Over(Emit([r EXCEPT !.hits = rows], "complete", rows)))
  BY DEF Finish
<1> DEFINE c == [r EXCEPT !.hits = rows]
           e == Emit(c, "complete", rows)
<1>3. rows \in SUBSET Messages
  BY <1>1, <1>2 DEF Top
<1> HIDE DEF r
<1>4. /\ c \in Call /\ c.way = r.way /\ c.limit = r.limit /\ c.scope = r.scope
      /\ c.hits = rows /\ c.skipped = r.skipped /\ c.error = r.error
      /\ c.events = r.events
  BY <1>1, <1>3 DEF Call
<1> HIDE DEF c
<1>5. /\ e \in Call /\ e.way = r.way /\ e.limit = r.limit /\ e.scope = r.scope
      /\ e.hits = rows /\ e.skipped = r.skipped /\ e.error = r.error
      /\ r.way = "streaming" => e.events = Append(r.events, Event("complete", rows))
  BY <1>1, <1>3, <1>4, EmitFields
<1>6. search'[s] = Over(e)
  BY <1>2, BecomeFrame DEF c
<1> HIDE DEF e
<1>7. QED
  BY <1>2, <1>5, <1>6, OverFields DEF r

\* A search within a bucket that is neither waiting nor merged afterwards.
Within(r, q, b) ==
    /\ q \in Call /\ q.at = "running" /\ q.at = r.at /\ q.way = r.way /\ q.scope = r.scope
    /\ \E x \in Stages \ {"waiting", "merged"} : q.stage = [r.stage EXCEPT ![b] = x]
    /\ r.stage[b] # "merged" /\ (r.stage[b] = "waiting" => b \in r.scope)
    /\ q.hits = r.hits /\ q.skipped = r.skipped /\ q.broken = r.broken
    /\ q.error = r.error /\ q.events = r.events

LEMMA StageKinds ==
    ASSUME NEW k \in Kinds
    PROVE  /\ {k, Missed(k), Loaded(k), After(k), "text"} \subseteq Stages \ {"waiting", "merged"}
BY StageNames DEF Kinds, Missed, Loaded, After

LEMMA StartBucketFields ==
    ASSUME ColdTypeOK, NEW s \in Searchers, NEW b \in Buckets, StartBucket(s, b)
    PROVE  /\ Within(search[s], search'[s], b) /\ search'[s].rows = search[s].rows
           /\ search'[s].stage = [search[s].stage EXCEPT ![b] = "text"]
<1>1. Become(s, [search[s] EXCEPT !.stage[b] = "text"])
  BY DEF StartBucket
<1>2. /\ search[s].at = "running" /\ search[s].stage[b] = "waiting" /\ b \in search[s].scope
  BY DEF StartBucket, InStage, Running
<1>3. "text" \in Stages \ {"waiting", "merged"}
  BY StageNames
<1> DEFINE r == search[s]
           q == search'[s]
<1>4. /\ q \in Call /\ q.at = r.at /\ q.way = r.way /\ q.scope = r.scope
      /\ q.stage = [r.stage EXCEPT ![b] = "text"] /\ q.rows = r.rows
      /\ q.broken = r.broken /\ q.hits = r.hits /\ q.skipped = r.skipped
      /\ q.error = r.error /\ q.events = r.events
  BY <1>1, <1>3, MovesOn
<1>5. r.at = "running" /\ r.stage[b] = "waiting" /\ b \in r.scope
  BY <1>2
<1> HIDE DEF r, q
<1>6. Within(r, q, b)
  BY <1>3, <1>4, <1>5 DEF Within
<1>7. QED
  BY <1>4, <1>6 DEF r, q

LEMMA MissFields ==
    ASSUME ColdTypeOK, NEW s \in Searchers, NEW b \in Buckets, NEW k \in Kinds, Miss(s, b, k)
    PROVE  /\ Within(search[s], search'[s], b) /\ search'[s].rows = search[s].rows
           /\ search[s].stage[b] = k
           /\ search'[s].stage = [search[s].stage EXCEPT ![b] = Missed(k)]
<1>1. Become(s, [search[s] EXCEPT !.stage[b] = Missed(k)])
  BY DEF Miss
<1>2. search[s].at = "running" /\ search[s].stage[b] = k
  BY DEF Miss, InStage, Running
<1>3. k \in Stages \ {"waiting", "merged"} /\ Missed(k) \in Stages \ {"waiting", "merged"}
  BY StageKinds
<1> DEFINE r == search[s]
           q == search'[s]
<1>4. /\ q \in Call /\ q.at = r.at /\ q.way = r.way /\ q.scope = r.scope
      /\ q.stage = [r.stage EXCEPT ![b] = Missed(k)] /\ q.rows = r.rows
      /\ q.broken = r.broken /\ q.hits = r.hits /\ q.skipped = r.skipped
      /\ q.error = r.error /\ q.events = r.events
  BY <1>1, <1>3, MovesOn
<1>5. r.at = "running" /\ r.stage[b] = k
  BY <1>2
<1> HIDE DEF r, q
<1>6. Within(r, q, b)
  BY <1>3, <1>4, <1>5 DEF Within
<1>7. QED
  BY <1>4, <1>5, <1>6 DEF r, q

LEMMA KeepFields ==
    ASSUME ColdTypeOK, NEW s \in Searchers, NEW b \in Buckets, NEW k \in Kinds, Keep(s, b, k)
    PROVE  /\ Within(search[s], search'[s], b) /\ search'[s].rows = search[s].rows
           /\ search[s].stage[b] = Loaded(k)
           /\ search'[s].stage = [search[s].stage EXCEPT ![b] = After(k)]
<1>1. Become(s, [search[s] EXCEPT !.stage[b] = After(k)])
  BY DEF Keep
<1>2. search[s].at = "running" /\ search[s].stage[b] = Loaded(k)
  BY DEF Keep, InStage, Running
<1>3. Loaded(k) \in Stages \ {"waiting", "merged"} /\ After(k) \in Stages \ {"waiting", "merged"}
  BY StageKinds
<1> DEFINE r == search[s]
           q == search'[s]
<1>4. /\ q \in Call /\ q.at = r.at /\ q.way = r.way /\ q.scope = r.scope
      /\ q.stage = [r.stage EXCEPT ![b] = After(k)] /\ q.rows = r.rows
      /\ q.broken = r.broken /\ q.hits = r.hits /\ q.skipped = r.skipped
      /\ q.error = r.error /\ q.events = r.events
  BY <1>1, <1>3, MovesOn
<1>5. r.at = "running" /\ r.stage[b] = Loaded(k)
  BY <1>2
<1> HIDE DEF r, q
<1>6. Within(r, q, b)
  BY <1>3, <1>4, <1>5 DEF Within
<1>7. QED
  BY <1>4, <1>5, <1>6 DEF r, q

LEMMA LoadFields ==
    ASSUME ColdTypeOK, NEW s \in Searchers, NEW b \in Buckets, NEW k \in Kinds, Load(s, b, k)
    PROVE  /\ Within(search[s], search'[s], b)
           /\ search[s].stage[b] = Missed(k)
           /\ search'[s].stage = [search[s].stage EXCEPT ![b] = Loaded(k)]
           /\ search'[s].rows = [search[s].rows EXCEPT
                                    ![b] = [search[s].rows[b] EXCEPT ![k] = shards[b][k]]]
<1>1. Become(s, [search[s] EXCEPT !.stage[b] = Loaded(k), !.rows[b][k] = shards[b][k]])
  BY DEF Load
<1>2. search[s].at = "running" /\ search[s].stage[b] = Missed(k)
  BY DEF Load, InStage, Running
<1>3. Missed(k) \in Stages \ {"waiting", "merged"} /\ Loaded(k) \in Stages \ {"waiting", "merged"}
  BY StageKinds
<1>4. shards[b][k] \in SUBSET Messages
  BY DEF ColdTypeOK, Rows
<1> DEFINE r == search[s]
           q == search'[s]
           rows == shards[b][k]
<1> HIDE DEF rows
<1>5. /\ q \in Call /\ q.at = r.at /\ q.way = r.way /\ q.scope = r.scope
      /\ q.stage = [r.stage EXCEPT ![b] = Loaded(k)]
      /\ q.rows = [r.rows EXCEPT ![b] = [r.rows[b] EXCEPT ![k] = rows]]
      /\ q.broken = r.broken /\ q.hits = r.hits /\ q.skipped = r.skipped
      /\ q.error = r.error /\ q.events = r.events
  <2>1. Become(s, [search[s] EXCEPT !.stage[b] = Loaded(k), !.rows[b][k] = rows])
    BY <1>1 DEF rows
  <2>2. rows \in SUBSET Messages
    BY <1>4 DEF rows
  <2>3. QED
    BY <1>3, <2>1, <2>2, Fills
<1>6. r.at = "running" /\ r.stage[b] = Missed(k)
  BY <1>2
<1> HIDE DEF r, q
<1>7. Within(r, q, b)
  BY <1>3, <1>5, <1>6 DEF Within
<1>8. QED
  BY <1>5, <1>6, <1>7 DEF r, q, rows

\* The rows that a search has afterwards are those of a cached entry.
RowsWith(rs, b, k, rows) == [rs EXCEPT ![b] = [rs[b] EXCEPT ![k] = rows]]
FromCache(b, k, rs, after) ==
    \E e \in ToSet(cache.entries) : e.key = <<b, k>> /\ after = RowsWith(rs, b, k, e.rows)

LEMMA HitFields ==
    ASSUME ColdTypeOK, NEW s \in Searchers, NEW b \in Buckets, NEW k \in Kinds, Hit(s, b, k)
    PROVE  /\ Within(search[s], search'[s], b)
           /\ search[s].stage[b] = k
           /\ search'[s].stage = [search[s].stage EXCEPT ![b] = After(k)]
           /\ FromCache(b, k, search[s].rows, search'[s].rows)
<1> DEFINE e == Cached(<<b, k>>)
<1>1. Become(s, [search[s] EXCEPT !.stage[b] = After(k), !.rows[b][k] = e.rows])
  BY DEF Hit
<1>2. search[s].at = "running" /\ search[s].stage[b] = k
  BY DEF Hit, InStage, Running
<1>3. k \in Stages \ {"waiting", "merged"} /\ After(k) \in Stages \ {"waiting", "merged"}
  BY StageKinds
<1>4. e \in ToSet(cache.entries) /\ e.key = <<b, k>>
  BY CachedEntry DEF Hit, Has, Cached
<1> HIDE DEF e
<1>5. e.rows \in SUBSET Messages
  <2>1. cache.entries \in Seq(Entry)
    BY DEF ColdTypeOK
  <2>2. e \in Entry
    BY <1>4, <2>1, MembersOf
  <2>3. QED
    BY <2>2 DEF Entry
<1> DEFINE r == search[s]
           q == search'[s]
           rows == e.rows
<1> HIDE DEF rows
<1>6. /\ q \in Call /\ q.at = r.at /\ q.way = r.way /\ q.scope = r.scope
      /\ q.stage = [r.stage EXCEPT ![b] = After(k)]
      /\ q.rows = [r.rows EXCEPT ![b] = [r.rows[b] EXCEPT ![k] = rows]]
      /\ q.broken = r.broken /\ q.hits = r.hits /\ q.skipped = r.skipped
      /\ q.error = r.error /\ q.events = r.events
  <2>1. Become(s, [search[s] EXCEPT !.stage[b] = After(k), !.rows[b][k] = rows])
    BY <1>1 DEF rows
  <2>2. rows \in SUBSET Messages
    BY <1>5 DEF rows
  <2>3. QED
    BY <1>3, <2>1, <2>2, Fills
<1>7. r.at = "running" /\ r.stage[b] = k
  BY <1>2
<1> HIDE DEF r, q
<1>8. Within(r, q, b)
  BY <1>3, <1>6, <1>7 DEF Within
<1>9. QED
  BY <1>4, <1>6, <1>7, <1>8 DEF r, q, rows, RowsWith, FromCache

\* A step of one search leaves the other searches, the messages, the shards and
\* the sweep alone.
LEMMA SearchingFrame ==
    ASSUME ColdTypeOK, NEW s \in Searchers, Searching(s)
    PROVE  /\ search'[s] \in Call /\ \A u \in Searchers \ {s} : search'[u] = search[u]
           /\ search' \in [Searchers -> Call]
           /\ UNCHANGED <<resident, shards, steady, sweep, sweeps>>
<1> DEFINE Goal == /\ search'[s] \in Call /\ \E r : Become(s, r)
                   /\ UNCHANGED <<resident, shards, steady, sweep, sweeps>>
<1>1. ASSUME NEW way \in Ways, Begin(s, way) PROVE Goal
  <2>1. search'[s] \in Call
    BY <1>1, BeginFields
  <2>2. QED
    BY <1>1, <2>1 DEF Begin
<1>2. ASSUME NEW way \in Ways, Unlisted(s, way) PROVE Goal
  <2>1. search'[s] \in Call
    BY <1>2, UnlistedFields
  <2>2. QED
    BY <1>2, <2>1 DEF Unlisted
<1>3. ASSUME NEW b \in Buckets, StartBucket(s, b) PROVE Goal
  <2>1. search'[s] \in Call
    BY <1>3, StartBucketFields DEF Within
  <2>2. QED
    BY <1>3, <2>1 DEF StartBucket
<1>4. ASSUME NEW b \in Buckets, Merge(s, b) PROVE Goal
  <2>1. search'[s] \in Call
    BY <1>4, MergeFields
  <2>2. QED
    BY <1>4, <2>1 DEF Merge
<1>5. ASSUME NEW b \in Buckets, NEW k \in Kinds, Hit(s, b, k) PROVE Goal
  <2>1. search'[s] \in Call
    BY <1>5, HitFields DEF Within
  <2>2. QED
    BY <1>5, <2>1 DEF Hit
<1>6. ASSUME NEW b \in Buckets, NEW k \in Kinds, Miss(s, b, k) PROVE Goal
  <2>1. search'[s] \in Call
    BY <1>6, MissFields DEF Within
  <2>2. QED
    BY <1>6, <2>1 DEF Miss
<1>7. ASSUME NEW b \in Buckets, NEW k \in Kinds, Load(s, b, k) PROVE Goal
  <2>1. search'[s] \in Call
    BY <1>7, LoadFields DEF Within
  <2>2. QED
    BY <1>7, <2>1 DEF Load
<1>8. ASSUME NEW b \in Buckets, NEW k \in Kinds, Keep(s, b, k) PROVE Goal
  <2>1. search'[s] \in Call
    BY <1>8, KeepFields DEF Within
  <2>2. QED
    BY <1>8, <2>1 DEF Keep
<1>9. ASSUME NEW b \in Buckets, NEW k \in Kinds, LoadFails(s, b, k) PROVE Goal
  <2>1. search'[s] \in Call
    BY <1>9, FailureFields
  <2>2. QED
    BY <1>9, <2>1 DEF LoadFails
<1>10. CASE Finish(s)
  <2>1. search'[s] \in Call
    BY <1>10, FinishFields
  <2>2. Goal
    BY <1>10, <2>1 DEF Finish
  <2>3. QED
    BY <2>2, BecomeFrame
<1> HIDE DEF Goal
<1>11. CASE Goal
  BY <1>11, BecomeFrame DEF Goal
<1>12. QED
  BY <1>1, <1>2, <1>3, <1>4, <1>5, <1>6, <1>7, <1>8, <1>9, <1>10, <1>11
     DEF Searching, Fetch

\* What a search may do to the cache: refresh an entry, or put what it loaded.
LEMMA SearchingCaches ==
    ASSUME ColdTypeOK, CacheIsAccounted, NEW s \in Searchers, Searching(s)
    PROVE  /\ CacheOK(cache') /\ cache'.bytes <= Budget
           /\ \A e \in ToSet(cache'.entries) :
                 \/ e \in ToSet(cache.entries)
                 \/ \E b \in Buckets, k \in Kinds :
                       /\ search[s].at = "running" /\ search[s].stage[b] = Loaded(k)
                       /\ e = [key |-> <<b, k>>, rows |-> search[s].rows[b][k]]
<1> DEFINE Kept(e) == \E b \in Buckets, k \in Kinds :
                         /\ search[s].at = "running" /\ search[s].stage[b] = Loaded(k)
                         /\ e = [key |-> <<b, k>>, rows |-> search[s].rows[b][k]]
<1>1. CacheOK(cache) /\ cache.bytes <= Budget
  BY DEF ColdTypeOK, CacheIsAccounted, CacheOK
<1>2. ASSUME NEW b \in Buckets, NEW k \in Kinds, Hit(s, b, k)
      PROVE  /\ CacheOK(cache') /\ cache'.bytes = cache.bytes
             /\ ToSet(cache'.entries) = ToSet(cache.entries)
  BY <1>1, <1>2, TouchKeepsAccounts DEF Hit, Has
<1>3. ASSUME NEW b \in Buckets, NEW k \in Kinds, Keep(s, b, k)
      PROVE  /\ CacheOK(cache') /\ cache'.bytes <= Budget
             /\ \A e \in ToSet(cache'.entries) : e \in ToSet(cache.entries) \/ Kept(e)
  <2> DEFINE rows == search[s].rows[b][k]
  <2>1. rows \in SUBSET Messages
    <3>1. search[s].rows \in [Buckets -> Rows]
      BY CallFields DEF ColdTypeOK
    <3>2. QED
      BY <3>1 DEF Rows
  <2>2. <<b, k>> \in Buckets \X Kinds
    OBVIOUS
  <2>3. cache' = Put(cache, <<b, k>>, rows)
    BY <1>3 DEF Keep
  <2>4. search[s].at = "running" /\ search[s].stage[b] = Loaded(k)
    BY <1>3 DEF Keep, InStage, Running
  <2> HIDE DEF rows
  <2>5. /\ CacheOK(cache') /\ cache'.bytes <= Budget
        /\ \A e \in ToSet(cache'.entries) :
              e \in ToSet(cache.entries) \/ e = [key |-> <<b, k>>, rows |-> rows]
    BY <1>1, <2>1, <2>2, <2>3, PutKeepsAccounts
  <2>6. \A e : e = [key |-> <<b, k>>, rows |-> rows] => Kept(e)
    BY <2>4 DEF rows
  <2>7. QED
    BY <2>5, <2>6
<1> HIDE DEF Kept
<1>4. ASSUME \A b \in Buckets, k \in Kinds : ~Hit(s, b, k) /\ ~Keep(s, b, k)
      PROVE  cache' = cache
  BY <1>4 DEF Searching, Fetch, Begin, Unlisted, StartBucket, Merge, Miss, Load, LoadFails,
              Finish
<1>5. /\ CacheOK(cache') /\ cache'.bytes <= Budget
      /\ \A e \in ToSet(cache'.entries) : e \in ToSet(cache.entries) \/ Kept(e)
  BY <1>1, <1>2, <1>3, <1>4
<1>6. QED
  BY <1>5 DEF Kept

-----------------------------------------------------------------------------
(* Types, and the cache's accounts.                                         *)

AccountsInv == ColdTypeOK /\ CacheIsAccounted

LEMMA AccountsInit == Init => AccountsInv
<1> SUFFICES ASSUME Init PROVE AccountsInv
  OBVIOUS
<1>1. <<>> \in Seq(Entry) /\ ToSet(<<>>) = {} /\ KeysDiffer(<<>>)
  BY EmptySeq DEF ToSet, KeysDiffer
<1>2. Charged(<<>>) = 0
  BY <1>1, FS_EmptySet DEF Charged, RowsOf
<1>3. cache = [entries |-> <<>>, bytes |-> 0]
  BY DEF Init
<1>4. CacheIsAccounted
  <2>1. Budget \in Nat
    BY ColdAssumption
  <2>2. 0 <= Budget
    BY <2>1
  <2>3. QED
    BY <1>2, <1>3, <2>2 DEF CacheIsAccounted
<1>5. cache \in [entries : Seq(Entry), bytes : Nat] /\ KeysDiffer(cache.entries)
  BY <1>1, <1>3
<1>6. search \in [Searchers -> Call]
  BY NoSearchTyped DEF Init
<1>7. sweep \in Sweep /\ sweeps \in Nat /\ resident \subseteq Held
      /\ shards \in [Buckets -> Rows] /\ steady \subseteq Messages \X Buckets
  BY DEF Init, Sweep
<1>8. QED
  BY <1>4, <1>5, <1>6, <1>7 DEF AccountsInv, ColdTypeOK

LEMMA ArchiveStepTyped ==
    ASSUME ColdTypeOK,
           \/ \E m \in Held : Arrive(m) \/ Leave(m)
           \/ \E b \in Buckets : StartSweep(b)
           \/ UploadHalf \/ UploadHalfFails
    PROVE  /\ resident' \subseteq Held /\ steady' \subseteq steady
           /\ shards' \in [Buckets -> Rows] /\ sweep' \in Sweep /\ sweeps' \in Nat
           /\ UNCHANGED <<cache, search>>
<1>1. ASSUME NEW m \in Held, Arrive(m) \/ Leave(m)
      PROVE  resident' \subseteq Held /\ UNCHANGED <<shards, steady, sweep, sweeps, cache, search>>
  BY <1>1 DEF Arrive, Leave, ColdTypeOK
<1>2. ASSUME NEW b \in Buckets, StartSweep(b)
      PROVE  sweep' \in Sweep /\ sweeps' \in Nat
             /\ UNCHANGED <<resident, shards, steady, cache, search>>
  <2>1. PICK rows \in SUBSET (resident \cap In(b)) :
           sweep' = [bucket |-> b, rows |-> rows, half |-> "text"]
    BY <1>2 DEF StartSweep
  <2>2. rows \in SUBSET Messages
    BY DEF In
  <2>3. "text" \in Kinds
    BY DEF Kinds
  <2>4. sweep' \in Sweep
    BY <2>1, <2>2, <2>3 DEF Sweep
  <2>5. sweeps \in Nat /\ sweeps' = sweeps + 1
    BY <1>2 DEF StartSweep, ColdTypeOK
  <2>6. sweeps' \in Nat
    BY <2>5
  <2>7. QED
    BY <1>2, <2>4, <2>6 DEF StartSweep
<1>3. ASSUME sweep # NoSweep, NextHalf PROVE sweep' \in Sweep
  <2>1. sweep \in [bucket : Buckets, rows : SUBSET Messages, half : Kinds]
    BY <1>3 DEF ColdTypeOK, Sweep
  <2>2. "fuzzy" \in Kinds
    BY DEF Kinds
  <2>3. [sweep EXCEPT !.half = "fuzzy"] \in [bucket : Buckets, rows : SUBSET Messages, half : Kinds]
    BY <2>1, <2>2
  <2>4. QED
    BY <1>3, <2>3 DEF NextHalf, Sweep
<1>4. ASSUME UploadHalf
      PROVE  /\ shards' \in [Buckets -> Rows] /\ steady' \subseteq steady
             /\ sweep' \in Sweep /\ UNCHANGED <<resident, sweeps, cache, search>>
  <2>1. /\ sweep # NoSweep /\ NextHalf /\ UNCHANGED <<resident, sweeps, cache, search>>
        /\ steady' \subseteq steady
        /\ shards' = [shards EXCEPT ![sweep.bucket][sweep.half] = sweep.rows]
    BY <1>4 DEF UploadHalf
  <2>2. sweep \in [bucket : Buckets, rows : SUBSET Messages, half : Kinds]
    BY <2>1 DEF ColdTypeOK, Sweep
  <2>3. sweep.bucket \in Buckets /\ sweep.half \in Kinds /\ sweep.rows \in SUBSET Messages
    BY <2>2
  <2>4. shards' = [shards EXCEPT ![sweep.bucket] =
                     [shards[sweep.bucket] EXCEPT ![sweep.half] = sweep.rows]]
    BY <2>1
  <2>5. shards' \in [Buckets -> Rows]
    BY <2>3, <2>4 DEF ColdTypeOK, Rows
  <2>6. QED
    BY <1>3, <2>1, <2>5
<1>5. ASSUME UploadHalfFails
      PROVE  sweep' \in Sweep /\ UNCHANGED <<resident, shards, steady, sweeps, cache, search>>
  BY <1>3, <1>5 DEF UploadHalfFails, Sweep
<1>6. QED
  BY <1>1, <1>2, <1>4, <1>5 DEF ColdTypeOK

LEMMA AccountsStep == AccountsInv /\ [Next]_vars => AccountsInv'
<1> SUFFICES ASSUME AccountsInv, [Next]_vars PROVE AccountsInv'
  OBVIOUS
<1>1. ColdTypeOK /\ CacheIsAccounted
  BY DEF AccountsInv
<1>2. CacheOK(cache) /\ cache.bytes <= Budget
  BY <1>1 DEF ColdTypeOK, CacheIsAccounted, CacheOK
<1> DEFINE Typed == /\ resident' \subseteq Held /\ steady' \subseteq Messages \X Buckets
                    /\ shards' \in [Buckets -> Rows] /\ sweep' \in Sweep /\ sweeps' \in Nat
                    /\ search' \in [Searchers -> Call]
           Charges == CacheOK(cache') /\ cache'.bytes <= Budget
<1>3. ASSUME \/ \E m \in Held : Arrive(m) \/ Leave(m)
             \/ \E b \in Buckets : StartSweep(b)
             \/ UploadHalf \/ UploadHalfFails
      PROVE  Typed /\ Charges
  <2>1. /\ resident' \subseteq Held /\ steady' \subseteq steady
        /\ shards' \in [Buckets -> Rows] /\ sweep' \in Sweep /\ sweeps' \in Nat
        /\ UNCHANGED <<cache, search>>
    BY <1>1, <1>3, ArchiveStepTyped
  <2>2. QED
    BY <1>1, <1>2, <2>1 DEF ColdTypeOK
<1>4. ASSUME NEW b \in Buckets, Warm(b) PROVE Typed /\ Charges
  <2>1. Charges
    BY <1>1, <1>4, WarmKeepsAccounts
  <2>2. QED
    BY <1>1, <1>4, <2>1 DEF Warm, ColdTypeOK
<1>5. ASSUME NEW s \in Searchers, Searching(s) PROVE Typed /\ Charges
  <2>1. Charges
    BY <1>1, <1>5, SearchingCaches
  <2>2. search' \in [Searchers -> Call] /\ UNCHANGED <<resident, shards, steady, sweep, sweeps>>
    BY <1>1, <1>5, SearchingFrame
  <2>3. QED
    BY <1>1, <2>1, <2>2 DEF ColdTypeOK
<1>6. ASSUME UNCHANGED vars PROVE Typed /\ Charges
  BY <1>1, <1>2, <1>6 DEF vars, ColdTypeOK
<1>7. Typed /\ Charges
  BY <1>3, <1>4, <1>5, <1>6 DEF Next
<1>8. QED
  BY <1>7 DEF AccountsInv, ColdTypeOK, CacheIsAccounted, CacheOK

LEMMA AccountsInvariant == Spec => []AccountsInv
BY AccountsInit, AccountsStep, PTL DEF Spec

\* Every variable keeps its type, for any searchers, buckets and budget.
THEOREM ColdTypes == Spec => []ColdTypeOK
<1>1. AccountsInv => ColdTypeOK
  BY DEF AccountsInv
<1>2. QED
  BY <1>1, AccountsInvariant, PTL

\* ShardCache's counter is the size of what it holds and stays within the
\* budget, for any interleaving of gets, puts, evictions and warming.
THEOREM CacheAccounts == Spec => []CacheIsAccounted
<1>1. AccountsInv => CacheIsAccounted
  BY DEF AccountsInv
<1>2. QED
  BY <1>1, AccountsInvariant, PTL

-----------------------------------------------------------------------------
(* Silence means complete: what shards, cache and searches hold covers what  *)
(* has been in the shards all along.                                         *)

\* Fewer rows are in the shards all along after a replacement than before.
LEMMA CoversShrinks ==
    ASSUME NEW all, NEW less, less \subseteq all
    PROVE  /\ \A S, b : Covers(S, b, all) => Covers(S, b, less)
           /\ \A r : Honest(r, all) => Honest(r, less)
<1>1. \A S, b : Covers(S, b, all) => Covers(S, b, less)
  BY DEF Covers
<1>2. \A r, b : Fetched(r, b, all) => Fetched(r, b, less)
  BY <1>1 DEF Fetched
<1>3. \A r, b : Found(r, b, all) => Found(r, b, less)
  BY DEF Found
<1>4. ASSUME NEW r, Honest(r, all) PROVE Honest(r, less)
  <2>1. r.at = "running" =>
          /\ \A b \in Buckets : Fetched(r, b, less)
          /\ r.way # "parallel" =>
                /\ r.broken = {}
                /\ \A b \in Buckets :
                      r.stage[b] = "merged" /\ b \notin r.skipped => Found(r, b, less)
    BY <1>2, <1>3, <1>4 DEF Honest
  <2>2. /\ r.at = "done" /\ ~r.error /\ r.skipped = {} /\ r.way # "parallel"
        /\ Cardinality(r.hits) < r.limit
        => \A b \in r.scope : Found(r, b, less)
    BY <1>3, <1>4 DEF Honest
  <2>3. QED
    BY <2>1, <2>2 DEF Honest
<1>5. QED
  BY <1>1, <1>4

\* A bucket on its way leaves the others' rows alone.
LEMMA WithinStaysHonest ==
    ASSUME NEW r \in Call, NEW q, NEW b \in Buckets, NEW all,
           Honest(r, all), Within(r, q, b), Fetched(q, b, all),
           \A c \in Buckets \ {b} : q.rows[c] = r.rows[c]
    PROVE  Honest(q, all)
<1>1. /\ r.at = "running" /\ q.at = "running" /\ q.way = r.way /\ q.hits = r.hits
      /\ q.skipped = r.skipped /\ q.broken = r.broken
  BY DEF Within
<1>2. PICK x \in Stages \ {"waiting", "merged"} : q.stage = [r.stage EXCEPT ![b] = x]
  BY DEF Within
<1>3. q.stage[b] # "merged" /\ \A c \in Buckets \ {b} : q.stage[c] = r.stage[c]
  BY <1>2, CallFields
<1>4. \A c \in Buckets : Fetched(r, c, all)
  BY <1>1 DEF Honest
<1>5. \A c \in Buckets : Fetched(q, c, all)
  BY <1>1, <1>3, <1>4 DEF Fetched
<1>6. ASSUME q.way # "parallel"
      PROVE  /\ q.broken = {}
             /\ \A c \in Buckets :
                   q.stage[c] = "merged" /\ c \notin q.skipped => Found(q, c, all)
  BY <1>1, <1>3, <1>6 DEF Honest, Found
<1>7. QED
  BY <1>1, <1>5, <1>6 DEF Honest

LEMMA SearchStaysHonest ==
    ASSUME ColdTypeOK, SilenceInv, NEW s \in Searchers, Searching(s)
    PROVE  Honest(search'[s], steady)
<1> DEFINE r == search[s]
           q == search'[s]
<1>1. r \in Call /\ Honest(r, steady)
  BY DEF ColdTypeOK, SilenceInv
<1>2. ASSUME NEW way \in Ways, Begin(s, way) PROVE Honest(q, steady)
  <2>1. /\ q.at = "running" /\ q.stage = [b \in Buckets |-> "waiting"] /\ q.broken = {}
    BY <1>2, BeginFields
  <2>2. \A b \in Buckets : q.stage[b] = "waiting"
    BY <2>1
  <2> HIDE DEF q
  <2>3. QED
    BY <2>1, <2>2 DEF Honest, Fetched, TextIn, FuzzyIn, Loaded
<1>3. ASSUME NEW way \in Ways, Unlisted(s, way) PROVE Honest(q, steady)
  <2>1. q.at = "done" /\ q.error = TRUE
    BY <1>3, UnlistedFields
  <2> HIDE DEF q
  <2>2. QED
    BY <2>1 DEF Honest
<1>4. ASSUME NEW b \in Buckets, StartBucket(s, b) PROVE Honest(q, steady)
  <2>1. Within(r, q, b) /\ q.rows = r.rows /\ q.stage = [r.stage EXCEPT ![b] = "text"]
    BY <1>4, StartBucketFields
  <2>2. q.stage[b] = "text"
    BY <1>1, <2>1, CallFields
  <2> HIDE DEF q, r
  <2>3. Fetched(q, b, steady)
    BY <2>2 DEF Fetched, TextIn, FuzzyIn, Loaded
  <2>4. QED
    BY <1>1, <2>1, <2>3, WithinStaysHonest
<1>5. ASSUME NEW b \in Buckets, NEW k \in Kinds, Miss(s, b, k) PROVE Honest(q, steady)
  <2>1. /\ Within(r, q, b) /\ q.rows = r.rows /\ r.stage[b] = k
        /\ q.stage = [r.stage EXCEPT ![b] = Missed(k)]
    BY <1>5, MissFields
  <2>2. q.stage[b] = Missed(k) /\ q.broken = r.broken /\ r.at = "running"
    BY <1>1, <2>1, CallFields DEF Within
  <2> HIDE DEF q, r
  <2>3. Fetched(r, b, steady)
    BY <1>1, <2>2 DEF Honest
  <2>4. Fetched(q, b, steady)
    BY <2>1, <2>2, <2>3 DEF Fetched, TextIn, FuzzyIn, Loaded, Missed, Kinds
  <2>5. QED
    BY <1>1, <2>1, <2>4, WithinStaysHonest
<1>6. ASSUME NEW b \in Buckets, NEW k \in Kinds, Keep(s, b, k) PROVE Honest(q, steady)
  <2>1. /\ Within(r, q, b) /\ q.rows = r.rows /\ r.stage[b] = Loaded(k)
        /\ q.stage = [r.stage EXCEPT ![b] = After(k)]
    BY <1>6, KeepFields
  <2>2. q.stage[b] = After(k) /\ q.broken = r.broken /\ r.at = "running"
    BY <1>1, <2>1, CallFields DEF Within
  <2> HIDE DEF q, r
  <2>3. Fetched(r, b, steady)
    BY <1>1, <2>2 DEF Honest
  <2>4. Fetched(q, b, steady)
    BY <2>1, <2>2, <2>3 DEF Fetched, TextIn, FuzzyIn, Loaded, After, Kinds
  <2>5. QED
    BY <1>1, <2>1, <2>4, WithinStaysHonest
<1>7. ASSUME NEW b \in Buckets, NEW k \in Kinds, NEW rows, Covers(rows, b, steady),
             Within(r, q, b), q.rows = [r.rows EXCEPT ![b] = [r.rows[b] EXCEPT ![k] = rows]],
             \/ r.stage[b] = k /\ q.stage = [r.stage EXCEPT ![b] = After(k)]
             \/ r.stage[b] = Missed(k) /\ q.stage = [r.stage EXCEPT ![b] = Loaded(k)]
      PROVE  Honest(q, steady)
  <2>1. r.rows \in [Buckets -> Rows] /\ r.stage \in [Buckets -> Stages]
    BY <1>1, CallFields
  <2>2. q.broken = r.broken /\ r.at = "running"
    BY <1>7 DEF Within
  <2> HIDE DEF q, r
  <2>3. /\ q.rows[b][k] = rows
        /\ \A j \in Kinds \ {k} : q.rows[b][j] = r.rows[b][j]
        /\ \A c \in Buckets \ {b} : q.rows[c] = r.rows[c]
    BY <1>7, <2>1 DEF Rows
  <2>4. \/ r.stage[b] = k /\ q.stage[b] = After(k)
        \/ r.stage[b] = Missed(k) /\ q.stage[b] = Loaded(k)
    BY <1>7, <2>1
  <2>5. Fetched(r, b, steady)
    BY <1>1, <2>2 DEF Honest
  <2>6. Fetched(q, b, steady)
    <3>1. CASE k = "text"
      <4>1. \/ r.stage[b] = "text" /\ q.stage[b] = "fuzzy"
            \/ r.stage[b] = "text_missed" /\ q.stage[b] = "text_loaded"
        BY <2>4, <3>1 DEF After, Missed, Loaded
      <4>2. QED
        BY <1>7, <2>2, <2>3, <3>1, <4>1 DEF Fetched, TextIn, FuzzyIn, Loaded, Kinds
    <3>2. CASE k = "fuzzy"
      <4>1. \/ r.stage[b] = "fuzzy" /\ q.stage[b] = "fetched"
            \/ r.stage[b] = "fuzzy_missed" /\ q.stage[b] = "fuzzy_loaded"
        BY <2>4, <3>2 DEF After, Missed, Loaded
      <4>2. q.rows[b]["text"] = r.rows[b]["text"] /\ q.rows[b]["fuzzy"] = rows
        BY <2>3, <3>2 DEF Kinds
      <4>3. b \notin r.broken => Covers(r.rows[b]["text"], b, steady)
        BY <2>5, <4>1 DEF Fetched, TextIn
      <4>4. QED
        BY <1>7, <2>2, <4>1, <4>2, <4>3 DEF Fetched, TextIn, FuzzyIn, Loaded, Kinds
    <3>3. QED
      BY <3>1, <3>2 DEF Kinds
  <2>7. QED
    BY <1>1, <1>7, <2>3, <2>6, WithinStaysHonest
<1>8. ASSUME NEW b \in Buckets, NEW k \in Kinds, Load(s, b, k) PROVE Honest(q, steady)
  <2>1. /\ Within(r, q, b) /\ r.stage[b] = Missed(k)
        /\ q.stage = [r.stage EXCEPT ![b] = Loaded(k)]
        /\ q.rows = [r.rows EXCEPT ![b] = [r.rows[b] EXCEPT ![k] = shards[b][k]]]
    BY <1>8, LoadFields
  <2>2. Covers(shards[b][k], b, steady)
    BY DEF SilenceInv, ShardsCover
  <2> HIDE DEF q, r
  <2>3. QED
    BY <1>7, <2>1, <2>2
<1>9. ASSUME NEW b \in Buckets, NEW k \in Kinds, Hit(s, b, k) PROVE Honest(q, steady)
  <2>1. /\ Within(r, q, b) /\ r.stage[b] = k /\ q.stage = [r.stage EXCEPT ![b] = After(k)]
    BY <1>9, HitFields
  <2> FromCache(b, k, search[s].rows, search'[s].rows)
    BY <1>9, HitFields
  <2>2. PICK e \in ToSet(cache.entries) :
              e.key = <<b, k>> /\ search'[s].rows = RowsWith(search[s].rows, b, k, e.rows)
    BY DEF FromCache
  <2>3. Covers(e.rows, b, steady)
    BY <2>2 DEF SilenceInv, CacheCovers
  <2>4. q.rows = [r.rows EXCEPT ![b] = [r.rows[b] EXCEPT ![k] = e.rows]]
    BY <2>2 DEF RowsWith
  <2> HIDE DEF q, r
  <2>5. QED
    BY <1>7, <2>1, <2>3, <2>4
<1>10. ASSUME NEW b \in Buckets, Merge(s, b) PROVE Honest(q, steady)
  <2> DEFINE found == IF b \in r.broken THEN {} ELSE BucketHits(r.rows[b])
  <2>1. /\ q.at = r.at /\ q.way = r.way /\ q.stage = [r.stage EXCEPT ![b] = "merged"]
        /\ q.rows = r.rows /\ q.broken = r.broken /\ q.hits = r.hits \cup found
        /\ q.skipped = r.skipped
    BY <1>10, MergeFields
  <2>2. r.at = "running" /\ r.stage[b] = "fetched"
    BY <1>10 DEF Merge, InStage, Running
  <2>3. q.stage[b] = "merged" /\ \A c \in Buckets \ {b} : q.stage[c] = r.stage[c]
    BY <1>1, <2>1, CallFields
  <2> HIDE DEF q, r
  <2>4. \A c \in Buckets : Fetched(r, c, steady)
    BY <1>1, <2>2 DEF Honest
  <2>5. \A c \in Buckets : Fetched(q, c, steady)
    <3>1. Fetched(q, b, steady)
      BY <2>3 DEF Fetched, TextIn, FuzzyIn, Loaded
    <3>2. ASSUME NEW c \in Buckets \ {b} PROVE Fetched(q, c, steady)
      BY <2>1, <2>3, <2>4 DEF Fetched
    <3>3. QED
      BY <3>1, <3>2
  <2>6. ASSUME q.way # "parallel"
        PROVE  /\ q.broken = {}
               /\ \A c \in Buckets :
                     q.stage[c] = "merged" /\ c \notin q.skipped => Found(q, c, steady)
    <3>1. /\ r.broken = {}
          /\ \A c \in Buckets :
                r.stage[c] = "merged" /\ c \notin r.skipped => Found(r, c, steady)
      BY <1>1, <2>1, <2>2, <2>6 DEF Honest
    <3>2. Covers(r.rows[b]["text"], b, steady) /\ Covers(r.rows[b]["fuzzy"], b, steady)
      BY <2>2, <2>4, <3>1 DEF Fetched, TextIn, FuzzyIn
    <3>3. found = BucketHits(r.rows[b])
      BY <3>1
    <3>4. \A m \in Matches \cup Similar : <<m, b>> \in steady => m \in found
      <4>1. Matches \cup Similar \subseteq Messages
        BY ColdAssumption
      <4>2. QED
        BY <3>2, <3>3, <4>1 DEF Covers, BucketHits
    <3> HIDE DEF found
    <3>5. Found(q, b, steady)
      BY <2>1, <3>4 DEF Found
    <3>6. ASSUME NEW c \in Buckets \ {b}, q.stage[c] = "merged", c \notin q.skipped
          PROVE  Found(q, c, steady)
      BY <2>1, <2>3, <3>1, <3>6 DEF Found
    <3>7. QED
      BY <2>1, <3>1, <3>5, <3>6
  <2>7. QED
    BY <2>1, <2>2, <2>5, <2>6 DEF Honest
<1>11. ASSUME NEW b \in Buckets, NEW k \in Kinds, LoadFails(s, b, k) PROVE Honest(q, steady)
  <2>1. r.at = "running"
    BY <1>11 DEF LoadFails, InStage, Running
  <2>2. \/ /\ r.way = "sequential" /\ q.at = "done" /\ q.error = TRUE
        \/ /\ r.way = "streaming" /\ q.way = r.way /\ q.at = r.at
           /\ q.stage = [r.stage EXCEPT ![b] = "merged"] /\ q.rows = r.rows
           /\ q.broken = r.broken /\ q.hits = r.hits
           /\ q.skipped = r.skipped \cup {b}
        \/ /\ r.way = "parallel" /\ q.way = r.way /\ q.at = r.at
           /\ q.stage = [r.stage EXCEPT ![b] = After(k)] /\ q.rows = r.rows
           /\ q.broken = r.broken \cup {b}
    BY <1>11, FailureFields
  <2>3. r.stage \in [Buckets -> Stages]
    BY <1>1, CallFields
  <2> HIDE DEF q, r
  <2>4. \A c \in Buckets : Fetched(r, c, steady)
    BY <1>1, <2>1 DEF Honest
  <2>5. CASE q.at = "done" /\ q.error = TRUE
    BY <2>5 DEF Honest
  <2>6. CASE /\ r.way = "streaming" /\ q.way = r.way /\ q.at = r.at
             /\ q.stage = [r.stage EXCEPT ![b] = "merged"] /\ q.rows = r.rows
             /\ q.broken = r.broken /\ q.hits = r.hits
             /\ q.skipped = r.skipped \cup {b}
    <3>1. q.stage[b] = "merged" /\ \A c \in Buckets \ {b} : q.stage[c] = r.stage[c]
      BY <2>3, <2>6
    <3>2. Fetched(q, b, steady)
      BY <3>1 DEF Fetched, TextIn, FuzzyIn, Loaded
    <3>3. \A c \in Buckets \ {b} : Fetched(q, c, steady)
      BY <2>4, <2>6, <3>1 DEF Fetched
    <3>4. /\ r.broken = {}
          /\ \A c \in Buckets :
                r.stage[c] = "merged" /\ c \notin r.skipped => Found(r, c, steady)
      BY <1>1, <2>1, <2>6 DEF Honest
    <3>5. \A c \in Buckets :
             q.stage[c] = "merged" /\ c \notin q.skipped => Found(q, c, steady)
      BY <2>6, <3>1, <3>4 DEF Found
    <3>6. QED
      BY <2>1, <2>6, <3>2, <3>3, <3>4, <3>5 DEF Honest
  <2>7. CASE /\ r.way = "parallel" /\ q.way = r.way /\ q.at = r.at
             /\ q.stage = [r.stage EXCEPT ![b] = After(k)] /\ q.rows = r.rows
             /\ q.broken = r.broken \cup {b}
    <3>1. q.stage[b] = After(k) /\ \A c \in Buckets \ {b} : q.stage[c] = r.stage[c]
      BY <2>3, <2>7
    <3>2. Fetched(q, b, steady)
      BY <2>7, <3>1 DEF Fetched, Loaded, After, Kinds
    <3>3. \A c \in Buckets \ {b} : Fetched(q, c, steady)
      BY <2>4, <2>7, <3>1 DEF Fetched
    <3>4. QED
      BY <2>1, <2>7, <3>2, <3>3 DEF Honest
  <2>8. QED
    BY <2>2, <2>5, <2>6, <2>7
<1>12. ASSUME Finish(s) PROVE Honest(q, steady)
  <2>1. /\ q.at = "done" /\ q.way = r.way /\ q.scope = r.scope
        /\ q.hits \in Top(r.limit, r.hits) /\ q.limit = r.limit /\ q.skipped = r.skipped
    BY <1>12, FinishFields
  <2>2. r.at = "running" /\ \A b \in r.scope : r.stage[b] = "merged"
    BY <1>12 DEF Finish, Running
  <2>3. r.scope \subseteq Buckets
    BY <1>1, CallFields
  <2> HIDE DEF q, r
  <2>4. Cardinality(q.hits) < q.limit => q.hits = r.hits
    BY <1>1, <2>1, CallFields, TopFields
  <2>5. QED
    BY <1>1, <2>1, <2>2, <2>3, <2>4 DEF Honest, Found
<1> HIDE DEF q, r
<1>13. QED
  BY <1>2, <1>3, <1>4, <1>5, <1>6, <1>8, <1>9, <1>10, <1>11, <1>12 DEF Searching, Fetch, q

\* A replaced shard covers what has been there all along, because what it
\* does not hold has not.
LEMMA ShardsStayCovering ==
    ASSUME ColdTypeOK, ShardsCover,
           \/ \E m \in Held : Arrive(m) \/ Leave(m)
           \/ \E b \in Buckets : StartSweep(b)
           \/ UploadHalf \/ UploadHalfFails
    PROVE  ShardsCover'
<1>1. CASE UploadHalf
  <2>1. /\ sweep # NoSweep
        /\ shards' = [shards EXCEPT ![sweep.bucket][sweep.half] = sweep.rows]
        /\ steady' = {mb \in steady : mb[2] = sweep.bucket => mb[1] \in sweep.rows}
    BY <1>1 DEF UploadHalf
  <2>2. sweep.bucket \in Buckets /\ sweep.half \in Kinds
    BY <2>1 DEF ColdTypeOK, Sweep
  <2>3. ASSUME NEW b \in Buckets, NEW k \in Kinds, NEW m \in Messages, <<m, b>> \in steady'
        PROVE  m \in shards'[b][k]
    <3>1. <<m, b>> \in steady /\ (b = sweep.bucket => m \in sweep.rows)
      BY <2>1, <2>3
    <3>2. m \in shards[b][k]
      BY <3>1 DEF ShardsCover, Covers
    <3>3. shards' = [shards EXCEPT ![sweep.bucket] =
                       [shards[sweep.bucket] EXCEPT ![sweep.half] = sweep.rows]]
      BY <2>1
    <3>4. shards'[b][k] = IF b = sweep.bucket /\ k = sweep.half THEN sweep.rows ELSE shards[b][k]
      BY <2>2, <3>3 DEF ColdTypeOK, Rows
    <3>5. QED
      BY <3>1, <3>2, <3>4
  <2>4. QED
    BY <2>3 DEF ShardsCover, Covers
<1>2. ASSUME UNCHANGED <<shards, steady>> PROVE ShardsCover'
  BY <1>2 DEF ShardsCover, Covers
<1>3. QED
  BY <1>1, <1>2 DEF Arrive, Leave, StartSweep, UploadHalfFails

LEMMA SilenceInit == Init => SilenceInv
<1> SUFFICES ASSUME Init PROVE SilenceInv
  OBVIOUS
<1>1. ShardsCover
  BY DEF Init, ShardsCover, Covers, Kinds
<1>2. CacheCovers
  BY DEF Init, CacheCovers, ToSet
<1>3. ASSUME NEW s \in Searchers PROVE Honest(search[s], steady)
  <2>1. search[s].at = "idle"
    BY NoSearchTyped DEF Init
  <2>2. QED
    BY <2>1 DEF Honest
<1>4. QED
  BY <1>1, <1>2, <1>3 DEF SilenceInv

LEMMA SilenceStep == AccountsInv /\ SilenceInv /\ [Next]_vars => SilenceInv'
<1> SUFFICES ASSUME AccountsInv, SilenceInv, [Next]_vars PROVE SilenceInv'
  OBVIOUS
<1>1. ColdTypeOK /\ CacheIsAccounted /\ cache.entries \in Seq(Entry)
  BY DEF AccountsInv, ColdTypeOK
<1>2. ShardsCover /\ CacheCovers /\ \A s \in Searchers : Honest(search[s], steady)
  BY DEF SilenceInv
<1>3. ASSUME \/ \E m \in Held : Arrive(m) \/ Leave(m)
             \/ \E b \in Buckets : StartSweep(b)
             \/ UploadHalf \/ UploadHalfFails
      PROVE  SilenceInv'
  <2>1. steady' \subseteq steady /\ cache' = cache /\ search' = search
    BY <1>1, <1>3, ArchiveStepTyped
  <2>2. ShardsCover'
    BY <1>1, <1>2, <1>3, ShardsStayCovering
  <2>3. CacheCovers'
    BY <1>2, <2>1, CoversShrinks DEF CacheCovers
  <2>4. \A s \in Searchers : Honest(search'[s], steady')
    BY <1>2, <2>1, CoversShrinks
  <2>5. QED
    BY <2>2, <2>3, <2>4 DEF SilenceInv
<1>4. ASSUME NEW b \in Buckets, Warm(b) PROVE SilenceInv'
  <2>1. UNCHANGED <<shards, steady, search>>
    BY <1>4 DEF Warm
  <2>2. \A e \in ToSet(cache'.entries) :
           \/ e \in ToSet(cache.entries)
           \/ \E k \in Kinds : e = [key |-> <<b, k>>, rows |-> shards[b][k]]
    BY <1>1, <1>4, WarmKeepsAccounts
  <2>3. \A k \in Kinds : Covers(shards[b][k], b, steady)
    BY <1>2 DEF ShardsCover
  <2>4. \A e \in ToSet(cache'.entries) : Covers(e.rows, e.key[1], steady)
    BY <1>2, <2>2, <2>3 DEF CacheCovers
  <2>5. ShardsCover' /\ CacheCovers'
    BY <1>2, <2>1, <2>4 DEF ShardsCover, CacheCovers
  <2>6. QED
    BY <1>2, <2>1, <2>5 DEF SilenceInv
<1>5. ASSUME NEW s \in Searchers, Searching(s) PROVE SilenceInv'
  <2>1. UNCHANGED <<shards, steady>> /\ \A u \in Searchers \ {s} : search'[u] = search[u]
    BY <1>1, <1>5, SearchingFrame
  <2>2. Honest(search'[s], steady)
    BY <1>1, <1>5, SearchStaysHonest
  <2>3. \A u \in Searchers : Honest(search'[u], steady')
    BY <1>2, <2>1, <2>2
  <2>4. ASSUME NEW e \in ToSet(cache'.entries) PROVE Covers(e.rows, e.key[1], steady)
    <3>1. CASE e \in ToSet(cache.entries)
      BY <1>2, <3>1 DEF CacheCovers
    <3>2. CASE e \notin ToSet(cache.entries)
      <4>1. PICK b \in Buckets, k \in Kinds :
              /\ search[s].at = "running" /\ search[s].stage[b] = Loaded(k)
              /\ e = [key |-> <<b, k>>, rows |-> search[s].rows[b][k]]
        BY <1>1, <1>5, <3>2, SearchingCaches
      <4>2. Fetched(search[s], b, steady)
        BY <1>2, <4>1 DEF Honest
      <4>3. Covers(search[s].rows[b][k], b, steady)
        BY <4>1, <4>2 DEF Fetched
      <4>4. QED
        BY <4>1, <4>3
    <3>3. QED
      BY <3>1, <3>2
  <2>5. ShardsCover' /\ CacheCovers'
    BY <1>2, <2>1, <2>4 DEF ShardsCover, CacheCovers
  <2>6. QED
    BY <2>3, <2>5 DEF SilenceInv
<1>6. ASSUME UNCHANGED vars PROVE SilenceInv'
  <2>1. UNCHANGED <<shards, steady, cache, search>>
    BY <1>6 DEF vars
  <2>2. ShardsCover' /\ CacheCovers'
    BY <1>2, <2>1 DEF ShardsCover, CacheCovers
  <2>3. QED
    BY <1>2, <2>1, <2>2 DEF SilenceInv
<1>7. QED
  BY <1>3, <1>4, <1>5, <1>6 DEF Next

LEMMA SilenceInvariant == Spec => []SilenceInv
BY AccountsInvariant, SilenceInit, SilenceStep, PTL DEF Spec

\* A search that returns without an error and without a skipped bucket, and
\* with fewer rows than its limit, has every match that was in its buckets'
\* shards all along, however many searches, cache evictions, warming and
\* sweeps ran beside it.
THEOREM SilenceComplete == Spec => []SilenceMeansComplete
<1>1. AccountsInv /\ SilenceInv => SilenceMeansComplete
  <2> SUFFICES ASSUME AccountsInv, SilenceInv, NEW s \in Searchers,
                      search[s].at = "done", ~search[s].error, search[s].skipped = {},
                      search[s].way # "parallel",
                      Cardinality(search[s].hits) < search[s].limit, NEW mb \in steady,
                      mb[1] \in Matches \cup Similar, mb[2] \in search[s].scope
               PROVE  mb[1] \in search[s].hits
    BY DEF SilenceMeansComplete
  <2>1. mb = <<mb[1], mb[2]>>
    BY DEF AccountsInv, ColdTypeOK
  <2>2. Found(search[s], mb[2], steady)
    BY DEF SilenceInv, Honest
  <2>3. QED
    BY <2>1, <2>2 DEF Found
<1>2. QED
  BY <1>1, SilenceInvariant, AccountsInvariant, PTL

-----------------------------------------------------------------------------
(* A stream adds up: it has sent each row once, an event per merged bucket.   *)

SearchEvents == [kind : EventKinds, rows : SUBSET Messages]

\* The stream ev with one event more.
OneMore(more, ev, kind, rows) ==
    /\ more \in Seq(SearchEvents) /\ Len(ev) \in Nat /\ Len(more) = Len(ev) + 1
    /\ DOMAIN ev = 1..Len(ev) /\ DOMAIN more = 1..Len(ev) + 1
    /\ \A i \in 1..Len(ev) : more[i] = ev[i]
    /\ more[Len(ev) + 1].kind = kind /\ more[Len(ev) + 1].rows = rows

LEMMA StreamAppends ==
    ASSUME NEW ev \in Seq(SearchEvents), NEW kind \in EventKinds, NEW rows \in SUBSET Messages
    PROVE  OneMore(Append(ev, Event(kind, rows)), ev, kind, rows)
<1> DEFINE x == Event(kind, rows)
           more == Append(ev, Event(kind, rows))
<1>1. x \in SearchEvents /\ x.kind = kind /\ x.rows = rows
  BY EventTyped DEF SearchEvents
<1>2. Len(ev) \in Nat /\ DOMAIN ev = 1..Len(ev)
  BY LenProperties
<1>3. more = Append(ev, x)
  OBVIOUS
<1> HIDE DEF x, more
<1>4. /\ more \in Seq(SearchEvents) /\ Len(more) = Len(ev) + 1
      /\ \A i \in 1..Len(ev) : more[i] = ev[i]
      /\ more[Len(ev) + 1] = x
  BY <1>1, <1>3, AppendProperties
<1>5. DOMAIN more = 1..Len(ev) + 1
  BY <1>4, LenProperties
<1>6. QED
  BY <1>1, <1>2, <1>4, <1>5 DEF OneMore, more

LEMMA SentGrows ==
    ASSUME NEW ev \in Seq(SearchEvents), NEW kind \in EventKinds, NEW rows \in SUBSET Messages,
           SentOnce(ev), rows \cap Sent(ev) = {}
    PROVE  LET more == Append(ev, Event(kind, rows))
           IN  SentOnce(more) /\ Sent(more) = Sent(ev) \cup rows
<1> DEFINE more == Append(ev, Event(kind, rows))
           n == Len(ev)
<1> OneMore(more, ev, kind, rows)
  BY StreamAppends
<1> HIDE DEF more
<1>1. /\ n \in Nat /\ DOMAIN ev = 1..n /\ DOMAIN more = 1..n + 1
      /\ \A i \in 1..n : more[i] = ev[i]
      /\ more[n + 1].rows = rows
  BY DEF OneMore
<1> HIDE DEF more, n
<1>2. 1..n + 1 = (1..n) \cup {n + 1} /\ n + 1 \notin 1..n
  BY <1>1
<1>3. \A i \in 1..n : rows \cap more[i].rows = {}
  BY <1>1 DEF Sent
<1>4. SentOnce(more)
  <2>1. ASSUME NEW i \in 1..n, NEW j \in 1..n, i # j PROVE more[i].rows \cap more[j].rows = {}
    BY <1>1, <2>1 DEF SentOnce
  <2>2. ASSUME NEW i \in (1..n) \cup {n + 1}, NEW j \in (1..n) \cup {n + 1}, i # j
        PROVE  more[i].rows \cap more[j].rows = {}
    BY <1>1, <1>3, <2>1, <2>2
  <2>3. QED
    BY <1>1, <1>2, <2>2 DEF SentOnce
<1>5. Sent(more) = Sent(ev) \cup rows
  <2>1. UNION {more[i].rows : i \in (1..n) \cup {n + 1}}
          = (UNION {more[i].rows : i \in 1..n}) \cup more[n + 1].rows
    OBVIOUS
  <2>2. UNION {more[i].rows : i \in 1..n} = UNION {ev[i].rows : i \in 1..n}
    BY <1>1
  <2>3. QED
    BY <1>1, <1>2, <2>1, <2>2 DEF Sent
<1>6. QED
  BY <1>4, <1>5 DEF more

\* A merged or skipped bucket sends one event of rows that were not sent.
LEMMA StreamGrows ==
    ASSUME NEW r \in Call, NEW q \in Call, NEW b \in Buckets, NEW rows \in SUBSET Messages,
           Streaming(r), r.way = "streaming", r.at = "running",
           r.stage[b] # "waiting", r.stage[b] # "merged",
           q.scope = r.scope, q.stage = [r.stage EXCEPT ![b] = "merged"],
           rows \cap r.hits = {}, q.hits = r.hits \cup rows,
           q.events = Append(r.events, Event("bucket", rows))
    PROVE  Streaming(q)
<1> DEFINE n == Len(r.events)
<1>1. /\ \A c \in Buckets : r.stage[c] # "waiting" => c \in r.scope
      /\ n = Cardinality(Merged(r)) + 1 /\ r.events[1].kind = "local"
      /\ \A i \in 2..n : r.events[i].kind = "bucket"
      /\ SentOnce(r.events) /\ Sent(r.events) = r.hits
  BY DEF Streaming
<1>2. r.events \in Seq(SearchEvents) /\ "bucket" \in EventKinds
  BY CallFields DEF SearchEvents, EventKinds
<1>3. q.stage[b] = "merged" /\ \A c \in Buckets \ {b} : q.stage[c] = r.stage[c]
  BY CallFields
<1> OneMore(q.events, r.events, "bucket", rows)
  BY <1>2, StreamAppends
<1>4. /\ n \in Nat /\ Len(q.events) = n + 1
      /\ \A i \in 1..n : q.events[i] = r.events[i]
      /\ q.events[n + 1].kind = "bucket"
  BY DEF OneMore
<1>5. SentOnce(q.events) /\ Sent(q.events) = q.hits
  BY <1>1, <1>2, SentGrows
<1>6. Merged(q) = Merged(r) \cup {b} /\ b \notin Merged(r)
  BY <1>3 DEF Merged
<1>7. IsFiniteSet(Merged(r))
  <2>1. Merged(r) \subseteq Buckets
    BY DEF Merged
  <2>2. QED
    BY <2>1, ColdAssumption, FS_Subset
<1>8. Cardinality(Merged(q)) = Cardinality(Merged(r)) + 1
  <2> DEFINE before == Merged(r)
  <2>1. IsFiniteSet(before) /\ b \notin before /\ Merged(q) = before \cup {b}
    BY <1>6, <1>7
  <2> HIDE DEF before
  <2>2. Cardinality(before \cup {b}) = Cardinality(before) + 1
    BY <2>1, FS_AddElement
  <2>3. QED
    BY <2>1, <2>2 DEF before
<1> HIDE DEF n
<1>9. Cardinality(Merged(r)) \in Nat
  BY <1>7, FS_CardinalityType
<1>10. Len(q.events) = Cardinality(Merged(q)) + 1
  BY <1>1, <1>4, <1>8
<1>11. 1 \in 1..n
  BY <1>1, <1>4, <1>9
<1>12. q.events[1].kind = "local" /\ \A i \in 2..n + 1 : q.events[i].kind = "bucket"
  <2>1. \A i \in 2..n + 1 : i \in 2..n \/ i = n + 1
    BY <1>4
  <2>2. \A i \in 2..n : i \in 1..n
    BY <1>4
  <2>3. QED
    BY <1>1, <1>4, <1>11, <2>1, <2>2
<1>13. \A c \in Buckets : q.stage[c] # "waiting" => c \in q.scope
  BY <1>1, <1>3
<1>14. QED
  BY <1>4, <1>5, <1>10, <1>12, <1>13 DEF Streaming

\* The last event repeats the result.
LEMMA StreamEnds ==
    ASSUME NEW r \in Call, NEW q \in Call, Streaming(r), r.way = "streaming", r.at = "running",
           \A b \in r.scope : r.stage[b] = "merged",
           q.scope = r.scope, q.hits \in Top(r.limit, r.hits), q.limit = r.limit,
           q.events = Append(r.events, Event("complete", q.hits))
    PROVE  AddsUp(q)
<1> DEFINE n == Len(r.events)
<1>1. /\ \A c \in Buckets : r.stage[c] # "waiting" => c \in r.scope
      /\ n = Cardinality(Merged(r)) + 1 /\ r.events[1].kind = "local"
      /\ \A i \in 2..n : r.events[i].kind = "bucket"
      /\ SentOnce(r.events) /\ Sent(r.events) = r.hits
  BY DEF Streaming
<1>2. /\ r.events \in Seq(SearchEvents) /\ "complete" \in EventKinds
      /\ q.hits \in SUBSET Messages
  BY CallFields DEF SearchEvents, EventKinds
<1> OneMore(q.events, r.events, "complete", q.hits)
  BY <1>2, StreamAppends
<1>3. /\ n \in Nat /\ Len(q.events) = n + 1 /\ DOMAIN r.events = 1..n
      /\ \A i \in 1..n : q.events[i] = r.events[i]
      /\ q.events[n + 1].kind = "complete" /\ q.events[n + 1].rows = q.hits
  BY DEF OneMore
<1>4. Merged(r) = r.scope
  BY <1>1, CallFields DEF Merged
<1>5. IsFiniteSet(r.scope)
  BY CallFields, ColdAssumption, FS_Subset
<1>6. Cardinality(r.scope) \in Nat
  BY <1>5, FS_CardinalityType
<1> HIDE DEF n
<1>7. n = Cardinality(r.scope) + 1
  BY <1>1, <1>4
<1>8. 1 \in 1..n /\ n + 1 = Cardinality(q.scope) + 2 /\ (n + 1) - 1 = n
  BY <1>3, <1>6, <1>7
<1>9. \A i \in 2..n : i \in 1..n
  BY <1>3
<1>10. \A i, j \in 1..n : i # j => q.events[i].rows \cap q.events[j].rows = {}
  <2>1. \A i, j \in 1..n : i # j => r.events[i].rows \cap r.events[j].rows = {}
    BY <1>1, <1>3 DEF SentOnce
  <2>2. QED
    BY <1>3, <2>1
<1>11. r.hits = UNION {q.events[i].rows : i \in 1..n}
  BY <1>1, <1>3 DEF Sent
<1>12. /\ q.events[1].kind = "local" /\ q.events[Len(q.events)].kind = "complete"
       /\ \A i \in 2..n : q.events[i].kind = "bucket"
       /\ Len(q.events) = Cardinality(q.scope) + 2
       /\ q.events[Len(q.events)].rows = q.hits /\ Len(q.events) - 1 = n
  BY <1>1, <1>3, <1>8, <1>9
<1>13. QED
  BY <1>10, <1>11, <1>12 DEF AddsUp

LEMMA StreamBegins ==
    ASSUME NEW rows \in SUBSET Messages, NEW ev, ev = Opening(rows)
    PROVE  /\ ev \in Seq(SearchEvents) /\ Len(ev) = 1 /\ ev[1].kind = "local"
           /\ ev[1].rows = rows /\ SentOnce(ev) /\ Sent(ev) = rows
<1>1. <<>> \in Seq(SearchEvents) /\ Len(<<>>) = 0 /\ "local" \in EventKinds
  BY EmptySeq DEF EventKinds
<1> DEFINE none == <<>>
<1>2. /\ none \in Seq(SearchEvents) /\ Len(none) = 0
      /\ ev = Append(none, Event("local", rows))
  BY <1>1 DEF Opening
<1> HIDE DEF none
<1> OneMore(ev, none, "local", rows)
  BY <1>1, <1>2, StreamAppends
<1>3. /\ ev \in Seq(SearchEvents) /\ Len(ev) = Len(none) + 1 /\ DOMAIN ev = 1..Len(none) + 1
      /\ ev[Len(none) + 1].kind = "local" /\ ev[Len(none) + 1].rows = rows
  BY DEF OneMore
<1>4. Len(none) + 1 = 1 /\ 1..Len(none) + 1 = {1}
  BY <1>2
<1>5. DOMAIN ev = {1} /\ Len(ev) = 1 /\ ev[1].kind = "local" /\ ev[1].rows = rows
  BY <1>3, <1>4
<1>6. QED
  BY <1>3, <1>5 DEF SentOnce, Sent

LEMMA StreamStep ==
    ASSUME ColdTypeOK, StreamInv, NEW s \in Searchers, Searching(s)
    PROVE  Streaming(search'[s]) /\ AddsUp(search'[s])
<1> DEFINE r == search[s]
           q == search'[s]
<1>1. r \in Call /\ Streaming(r) /\ AddsUp(r)
  BY DEF ColdTypeOK, StreamInv
<1>2. q \in Call
  BY SearchingFrame
<1>3. ASSUME NEW way \in Ways, Begin(s, way) PROVE Streaming(q) /\ AddsUp(q)
  <2>1. PICK rows \in SUBSET Messages :
           /\ q.at = "running" /\ q.way = way /\ q.stage = [b \in Buckets |-> "waiting"]
           /\ q.hits = rows
           /\ way = "streaming" => q.events = Opening(rows)
    BY <1>3, BeginFields
  <2>2. \A b \in Buckets : q.stage[b] = "waiting"
    BY <2>1
  <2> HIDE DEF q
  <2>3. Merged(q) = {}
    BY <2>2 DEF Merged
  <2>4. Cardinality(Merged(q)) + 1 = 1
    BY <2>3, FS_EmptySet
  <2>5. ASSUME way = "streaming" PROVE Streaming(q)
    <3>1. /\ Len(q.events) = 1 /\ q.events[1].kind = "local"
          /\ SentOnce(q.events) /\ Sent(q.events) = rows
      BY <2>1, <2>5, StreamBegins
    <3>2. \A i \in 2..Len(q.events) : FALSE
      BY <3>1
    <3>3. QED
      BY <2>1, <2>2, <2>4, <3>1, <3>2 DEF Streaming
  <2>6. QED
    BY <2>1, <2>5 DEF Streaming, AddsUp
<1>4. ASSUME NEW way \in Ways, Unlisted(s, way) PROVE Streaming(q) /\ AddsUp(q)
  <2>1. PICK rows \in SUBSET Messages :
           /\ q.at = "done" /\ q.way = way /\ q.hits = rows /\ q.error = TRUE
           /\ rows \in Top(q.limit, rows)
           /\ way = "streaming" => q.events = Append(Opening(rows), Event("complete", rows))
    BY <1>4, UnlistedFields
  <2> DEFINE ev == Opening(rows)
  <2> HIDE DEF q
  <2>6. way = "streaming" => q.events = Append(ev, Event("complete", rows))
    BY <2>1
  <2>2. /\ ev \in Seq(SearchEvents) /\ Len(ev) = 1 /\ ev[1].kind = "local"
        /\ ev[1].rows = rows
    BY StreamBegins
  <2>3. "complete" \in EventKinds
    BY DEF EventKinds
  <2> HIDE DEF ev
  <2>4. ASSUME way = "streaming" PROVE AddsUp(q)
    <3> OneMore(q.events, ev, "complete", rows)
      BY <2>6, <2>2, <2>3, <2>4, StreamAppends
    <3>1. /\ Len(q.events) = Len(ev) + 1 /\ \A i \in 1..Len(ev) : q.events[i] = ev[i]
          /\ q.events[Len(ev) + 1].kind = "complete" /\ q.events[Len(ev) + 1].rows = rows
      BY DEF OneMore
    <3>2. Len(q.events) = 2 /\ 1 \in 1..Len(ev) /\ Len(ev) + 1 = 2
      BY <2>2, <3>1
    <3>3. /\ q.events[1].kind = "local" /\ q.events[1].rows = rows
          /\ q.events[2].kind = "complete" /\ q.events[2].rows = rows
      BY <2>2, <3>1, <3>2
    <3>4. 1..Len(q.events) - 1 = {1} /\ 2..Len(q.events) - 1 = {}
      BY <3>2
    <3>5. QED
      BY <2>1, <3>2, <3>3, <3>4 DEF AddsUp
  <2>5. QED
    BY <2>1, <2>4 DEF Streaming, AddsUp
<1>5. ASSUME NEW b \in Buckets, Within(r, q, b) PROVE Streaming(q) /\ AddsUp(q)
  <2>1. PICK x \in Stages \ {"waiting", "merged"} : q.stage = [r.stage EXCEPT ![b] = x]
    BY <1>5 DEF Within
  <2>2. /\ q.stage[b] \notin {"waiting", "merged"}
        /\ \A c \in Buckets \ {b} : q.stage[c] = r.stage[c]
    BY <1>1, <2>1, CallFields
  <2>3. /\ q.at = "running" /\ r.at = "running" /\ q.way = r.way /\ q.scope = r.scope
        /\ r.stage[b] # "merged" /\ (r.stage[b] = "waiting" => b \in r.scope)
        /\ q.hits = r.hits /\ q.events = r.events
    BY <1>5 DEF Within
  <2> HIDE DEF q, r
  <2>4. Merged(q) = Merged(r)
    BY <2>2, <2>3 DEF Merged
  <2>5. ASSUME q.way = "streaming"
        PROVE  \A c \in Buckets : q.stage[c] # "waiting" => c \in q.scope
    BY <1>1, <2>2, <2>3, <2>5 DEF Streaming
  <2>6. Streaming(q)
    BY <1>1, <2>3, <2>4, <2>5 DEF Streaming
  <2>7. QED
    BY <2>3, <2>6 DEF AddsUp
<1>6. ASSUME NEW b \in Buckets, Merge(s, b) PROVE Streaming(q) /\ AddsUp(q)
  <2> DEFINE found == IF b \in r.broken THEN {} ELSE BucketHits(r.rows[b])
  <2>1. /\ q.at = r.at /\ q.way = r.way /\ q.scope = r.scope
        /\ q.stage = [r.stage EXCEPT ![b] = "merged"] /\ q.hits = r.hits \cup found
        /\ found \in SUBSET Messages
        /\ r.way = "streaming" => q.events = Append(r.events, Event("bucket", found \ r.hits))
    BY <1>6, MergeFields
  <2>2. r.at = "running" /\ r.stage[b] = "fetched"
    BY <1>6 DEF Merge, InStage, Running
  <2> HIDE DEF q, r, found
  <2>3. q.way = "streaming" => Streaming(q)
    <3>1. /\ found \ r.hits \in SUBSET Messages /\ (found \ r.hits) \cap r.hits = {}
          /\ q.hits = r.hits \cup (found \ r.hits)
      BY <2>1
    <3>2. QED
      BY <1>1, <1>2, <2>1, <2>2, <3>1, StreamGrows
  <2>4. QED
    BY <2>1, <2>2, <2>3 DEF Streaming, AddsUp
<1>7. ASSUME NEW b \in Buckets, NEW k \in Kinds, LoadFails(s, b, k)
      PROVE  Streaming(q) /\ AddsUp(q)
  <2>1. /\ q.way = r.way /\ q.scope = r.scope
        /\ r.way = "streaming" =>
              /\ q.at = r.at /\ q.stage = [r.stage EXCEPT ![b] = "merged"]
              /\ q.hits = r.hits /\ q.events = Append(r.events, Event("bucket", {}))
    BY <1>7, FailureFields
  <2>2. r.at = "running" /\ r.stage[b] = Missed(k)
    BY <1>7 DEF LoadFails, InStage, Running
  <2>3. r.stage[b] # "waiting" /\ r.stage[b] # "merged"
    BY <2>2, StageKinds
  <2> HIDE DEF q, r
  <2>4. q.way = "streaming" => Streaming(q) /\ q.at = "running"
    <3>1. {} \in SUBSET Messages /\ {} \cap r.hits = {} /\ r.hits \cup {} = r.hits
      OBVIOUS
    <3>2. QED
      BY <1>1, <1>2, <2>1, <2>2, <2>3, <3>1, StreamGrows
  <2>5. QED
    BY <2>4 DEF Streaming, AddsUp
<1>8. ASSUME Finish(s) PROVE Streaming(q) /\ AddsUp(q)
  <2>1. /\ q.at = "done" /\ q.way = r.way /\ q.scope = r.scope
        /\ q.hits \in Top(r.limit, r.hits) /\ q.limit = r.limit
        /\ r.way = "streaming" => q.events = Append(r.events, Event("complete", q.hits))
    BY <1>8, FinishFields
  <2>2. r.at = "running" /\ \A b \in r.scope : r.stage[b] = "merged"
    BY <1>8 DEF Finish, Running
  <2> HIDE DEF q, r
  <2>3. q.way = "streaming" => AddsUp(q)
    BY <1>1, <1>2, <2>1, <2>2, StreamEnds
  <2>4. QED
    BY <2>1, <2>3 DEF Streaming, AddsUp
<1>9. ASSUME NEW b \in Buckets, NEW k \in Kinds,
              Hit(s, b, k) \/ Miss(s, b, k) \/ Load(s, b, k) \/ Keep(s, b, k)
       PROVE  Streaming(q) /\ AddsUp(q)
  <2>1. Within(r, q, b)
    BY <1>9, HitFields, MissFields, LoadFields, KeepFields
  <2> HIDE DEF q, r
  <2>2. QED
    BY <1>5, <2>1
<1>10. ASSUME NEW b \in Buckets, StartBucket(s, b) PROVE Streaming(q) /\ AddsUp(q)
  <2>1. Within(r, q, b)
    BY <1>10, StartBucketFields
  <2> HIDE DEF q, r
  <2>2. QED
    BY <1>5, <2>1
<1> HIDE DEF q, r
<1>11. QED
  BY <1>3, <1>4, <1>6, <1>7, <1>8, <1>9, <1>10 DEF Searching, Fetch, q

LEMMA StreamInvariant == Spec => []StreamInv
<1>1. Init => StreamInv
  <2> SUFFICES ASSUME Init, NEW s \in Searchers PROVE Streaming(search[s]) /\ AddsUp(search[s])
    BY DEF StreamInv
  <2>1. search[s].at = "idle"
    BY NoSearchTyped DEF Init
  <2>2. QED
    BY <2>1 DEF Streaming, AddsUp
<1>2. AccountsInv /\ StreamInv /\ [Next]_vars => StreamInv'
  <2> SUFFICES ASSUME AccountsInv, StreamInv, [Next]_vars PROVE StreamInv'
    OBVIOUS
  <2>1. ColdTypeOK
    BY DEF AccountsInv
  <2>2. ASSUME NEW s \in Searchers, Searching(s) PROVE StreamInv'
    <3>1. Streaming(search'[s]) /\ AddsUp(search'[s])
      BY <2>1, <2>2, StreamStep
    <3>2. \A u \in Searchers \ {s} : search'[u] = search[u]
      BY <2>1, <2>2, SearchingFrame
    <3>3. \A u \in Searchers : Streaming(search'[u]) /\ AddsUp(search'[u])
      BY <3>1, <3>2 DEF StreamInv
    <3>4. QED
      BY <3>3 DEF StreamInv
  <2>3. CASE search' = search
    BY <2>3 DEF StreamInv
  <2>4. QED
    BY <2>2, <2>3 DEF Next, vars, Arrive, Leave, StartSweep, Warm, UploadHalf, UploadHalfFails
<1>3. QED
  BY <1>1, <1>2, AccountsInvariant, PTL DEF Spec

\* A streaming search's events: the local results first, one delta per bucket
\* in scope, no row twice, and last, once, the result: of what was sent, as
\* much as the limit admits.
THEOREM StreamsAddUp == Spec => []StreamAddsUp
<1>1. StreamInv => StreamAddsUp
  BY DEF StreamInv, AddsUp, StreamAddsUp
<1>2. QED
  BY <1>1, StreamInvariant, PTL
====
