----------------------------- MODULE MediaProofs -----------------------------
(* Where the originals are, for any assets, clouds, viewers, sizes and       *)
(* budgets: the types, the diagram of media_state and, for one migration at  *)
(* a time, that every row resolves.                                          *)
EXTENDS Media, FiniteSetTheorems, TLAPS

-----------------------------------------------------------------------------
(* Types.                                                                   *)

\* A message has a media row from its arrival until its conversation goes.
Lifecycle == \A a \in Assets : state[a] = "none" <=> message[a] = "none"

\* A migrator works on an item of its plan.
Busy(m) == moving[m].at \notin {"idle", "next"}
ItemsPlanned == \A m \in Migrators : Busy(m) => moving[m].item \in moving[m].items

TypeInv == MediaTypeOK /\ Lifecycle /\ ItemsPlanned

LEMMA UnsentIsNoSink == Unsent \notin Sinks
BY MediaAssumption DEF Sinks, Unsent, Backend

LEMMA IndexedTyped ==
    ASSUME NEW a \in Assets
    PROVE  Indexed(a) \subseteq Assets \X {"message", "page"}
BY DEF Indexed

LEMMA TypeInvInit == Init => TypeInv
<1> SUFFICES ASSUME Init PROVE TypeInv
  OBVIOUS
<1>1. other \in Nat
  BY MediaAssumption DEF Init
<1>2. moving \in [Migrators -> Migrations] /\ \A m \in Migrators : moving[m].left = {} /\ ~Busy(m)
  BY DEF Init, NoMigration, Migrations, Sinks, Busy
<1>3. viewing \in [Viewers -> ViewRecords]
  BY DEF Init, ViewRecords
<1>4. QED
  BY <1>1, <1>2, <1>3 DEF Init, TypeInv, MediaTypeOK, Lifecycle, ItemsPlanned, Present

\* What a plan of the budget may take.
LEMMA PlansTakeCandidates ==
    ASSUME NEW target, NEW E \in TieredPlans(target)
    PROVE  E \subseteq Candidates
BY DEF TieredPlans, Plans, Candidates

LEMMA TypeInvMessages ==
    ASSUME TypeInv, NEW a \in Assets, Messages(a)
    PROVE  TypeInv'
<1> USE DEF TypeInv, MediaTypeOK, Lifecycle, ItemsPlanned, Busy, Present, rows, past
<1>1. CASE Send(a)
  BY <1>1, IndexedTyped DEF Send, States
<1>2. CASE Receive(a)
  BY <1>2 DEF Receive, Ingest, States
<1>3. CASE Redeliver(a)
  BY <1>3 DEF Redeliver, Ingest, States
<1>4. CASE Upload(a)
  BY <1>4 DEF Upload
<1>5. CASE Settle(a)
  BY <1>5 DEF Settle, States
<1>6. CASE Delete(a)
  BY <1>6 DEF Delete
<1>7. CASE DeleteConversation(a)
  BY <1>7 DEF DeleteConversation
<1>8. CASE Cool(a) \/ Pin(a)
  BY <1>8 DEF Cool, Pin
<1>9. QED
  BY <1>1, <1>2, <1>3, <1>4, <1>5, <1>6, <1>7, <1>8 DEF Messages

\* A pass of the budget, also one that fails, evicts part of a plan.
LEMMA PassEvictsPart ==
    ASSUME EnforceBudget \/ EnforceBudgetFails
    PROVE  /\ Pressured
           /\ \E E \in TieredPlans(Used - Mark) : \E part \in SUBSET E :
                /\ Evict(part) /\ (EnforceBudget => part = E)
                /\ \A a \in part : InCloud(a) \/ \A b \in E : InCloud(b) => b \in part
<1>1. CASE EnforceBudget
  BY <1>1 DEF EnforceBudget
<1>2. CASE EnforceBudgetFails /\ ~EnforceBudget
  BY <1>2 DEF EnforceBudgetFails
<1>3. QED
  BY <1>1, <1>2

\* What it evicts had its original here.
LEMMA PassEvicts ==
    ASSUME EnforceBudget \/ EnforceBudgetFails
    PROVE  \E E \in SUBSET Candidates : Evict(E)
<1>1. PICK E \in TieredPlans(Used - Mark) : \E part \in SUBSET E : Evict(part)
  BY PassEvictsPart
<1>2. QED
  BY <1>1, PlansTakeCandidates

LEMMA TypeInvBudget ==
    ASSUME TypeInv, Grow \/ EnforceBudget \/ EnforceBudgetFails
    PROVE  TypeInv'
<1> USE DEF TypeInv, MediaTypeOK, Lifecycle, ItemsPlanned, Busy, Present, rows, past
<1>1. CASE Grow
  BY <1>1, MediaAssumption DEF Grow
<1>2. CASE EnforceBudget \/ EnforceBudgetFails
  <2>1. PICK E \in SUBSET Candidates : Evict(E)
    BY <1>2, PassEvicts
  <2>2. \A a \in E : a \in Assets /\ state[a] = "original_local"
    BY <2>1 DEF Candidates
  <2>3. QED
    BY <2>1, <2>2 DEF Evict, States
<1>3. QED
  BY <1>1, <1>2

LEMMA TypeInvView ==
    ASSUME TypeInv, NEW v \in Viewers, View(v)
    PROVE  TypeInv'
<1> USE DEF TypeInv, MediaTypeOK, Lifecycle, ItemsPlanned, Busy, Present, rows, past
<1>1. viewing[v].at # "idle" =>
         /\ viewing[v] \in [at : {"opened", "loaded", "landed"}, asset : Assets,
                            from : {"evicted", "remote_original"}, sink : Sinks \cup {Unsent}]
  BY DEF ViewRecords, Idle
<1>2. ASSUME NEW a \in Assets, Open(v, a) PROVE TypeInv'
  <2>1. [at |-> "opened", asset |-> a, from |-> state[a], sink |-> home[a]] \in ViewRecords
    BY <1>2 DEF Open, ViewRecords
  <2>2. QED
    BY <1>2, <2>1 DEF Open
<1>3. CASE Download(v)
  <2>1. [viewing[v] EXCEPT !.at = "loaded"] \in ViewRecords
    BY <1>1, <1>3 DEF Download, Viewing, ViewRecords
  <2>2. viewing' = [viewing EXCEPT ![v] = [viewing[v] EXCEPT !.at = "loaded"]]
    BY <1>3 DEF Download
  <2>3. viewing' \in [Viewers -> ViewRecords]
    BY <2>1, <2>2
  <2>4. QED
    BY <1>3, <2>3 DEF Download
<1>4. CASE Land(v)
  <2> DEFINE a == viewing[v].asset
  <2>1. /\ a \in Assets /\ viewing[v].from \in {"evicted", "remote_original"}
        /\ [viewing[v] EXCEPT !.at = "landed"] \in ViewRecords
    BY <1>1, <1>4 DEF Land, Viewing, ViewRecords
  <2>2. CASE state[a] = viewing[v].from
    <3>1. /\ state' = [state EXCEPT ![a] = "original_local"] /\ local' = local \cup {a}
          /\ viewing' = [viewing EXCEPT ![v] = [viewing[v] EXCEPT !.at = "landed"]]
          /\ UNCHANGED <<message, home, cold, other, found, objects, past, moving>>
      BY <1>4, <2>2 DEF Land
    <3>2. viewing' \in [Viewers -> ViewRecords]
      BY <2>1, <3>1
    <3> HIDE DEF a
    <3>3. QED
      BY <2>1, <2>2, <3>1, <3>2 DEF States
  <2>3. CASE state[a] # viewing[v].from
    BY <1>4, <2>3 DEF Land, ViewRecords
  <2>4. QED
    BY <2>2, <2>3
<1>5. CASE Index(v)
  <2>1. Indexed(viewing[v].asset) \subseteq Assets \X {"message", "page"}
    BY <1>1, <1>5, IndexedTyped DEF Index, Viewing
  <2>2. QED
    BY <1>5, <2>1 DEF Index, ViewRecords
<1>6. CASE DownloadFails(v)
  BY <1>6 DEF DownloadFails, ViewRecords
<1>7. QED
  BY <1>2, <1>3, <1>4, <1>5, <1>6 DEF View

\* What each step of a migration does to its record.
LEMMA MigratorMoves ==
    ASSUME TypeInv, NEW m \in Migrators, Migrate(m)
    PROVE  \E r \in Migrations :
              /\ moving' = [moving EXCEPT ![m] = r] /\ r.left \subseteq r.items
              /\ r.at \in {"idle", "next"} \/ r.item \in r.items
              /\ \/ \E from, to \in Clouds : PlanMigration(m, from, to)
                 \/ r.items = moving[m].items /\ r.from = moving[m].from /\ r.to = moving[m].to
<1> DEFINE o == moving[m]
           Moved(r) == /\ moving' = [moving EXCEPT ![m] = r] /\ r.left \subseteq r.items
                       /\ r.at \in {"idle", "next"} \/ r.item \in r.items
                       /\ r.items = o.items /\ r.from = o.from /\ r.to = o.to
<1>1. /\ o \in Migrations /\ o.left \subseteq o.items /\ moving \in [Migrators -> Migrations]
      /\ o.at \in {"idle", "next"} \/ o.item \in o.items
  BY DEF TypeInv, MediaTypeOK, ItemsPlanned, Busy
<1>2. ASSUME NEW at \in {"fetched", "copied", "verified", "updated"},
             moving' = [moving EXCEPT ![m].at = at], o.at \notin {"idle", "next"}
      PROVE  \E r \in Migrations : Moved(r)
  <2> DEFINE r == [o EXCEPT !.at = at]
  <2>1. moving' = [moving EXCEPT ![m] = r]
    BY <1>1, <1>2
  <2>2. /\ r \in Migrations /\ r.left = o.left /\ r.items = o.items
        /\ r.from = o.from /\ r.to = o.to /\ r.item = o.item
    BY <1>1, <1>2 DEF Migrations
  <2> HIDE DEF r
  <2>3. QED
    BY <1>1, <1>2, <2>1, <2>2
<1>3. ASSUME Onward(m)
      PROVE  \E r \in Migrations : Moved(r)
  <2> DEFINE r == [o EXCEPT !.at = "next", !.item = "none"]
  <2>1. moving' = [moving EXCEPT ![m] = r]
    BY <1>1, <1>3 DEF Onward
  <2>2. /\ r \in Migrations /\ r.left = o.left /\ r.items = o.items
        /\ r.from = o.from /\ r.to = o.to /\ r.at = "next"
    BY <1>1 DEF Migrations
  <2> HIDE DEF r
  <2>3. QED
    BY <1>1, <2>1, <2>2
<1>4. ASSUME NEW from \in Clouds, NEW to \in Clouds, PlanMigration(m, from, to)
      PROVE  \E r \in Migrations :
                /\ moving' = [moving EXCEPT ![m] = r] /\ r.left \subseteq r.items
                /\ r.at = "idle"
  <2> DEFINE items == {a \in Present : home[a] = from}
             r == [NoMigration EXCEPT !.from = from, !.to = to, !.items = items]
  <2>1. items \subseteq Assets /\ from \in Sinks /\ to \in Sinks
    BY DEF Present, Sinks
  <2>2. moving' = [moving EXCEPT ![m] = r]
    BY <1>4 DEF PlanMigration
  <2> HIDE DEF items
  <2>3. r \in Migrations /\ r.left = {} /\ r.at = "idle"
    BY <2>1 DEF NoMigration, Migrations
  <2>4. QED
    BY <2>2, <2>3
<1>5. CASE Start(m)
  <2>1. PICK fate \in {"kept", "dropped"} :
           moving' = [moving EXCEPT ![m].at = "next", ![m].left = moving[m].items,
                                    ![m].source = fate]
    BY <1>5 DEF Start
  <2> DEFINE r == [o EXCEPT !.at = "next", !.left = o.items, !.source = fate]
  <2>2. moving' = [moving EXCEPT ![m] = r]
    BY <1>1, <2>1
  <2>3. /\ r \in Migrations /\ r.left = o.items /\ r.items = o.items /\ r.from = o.from /\ r.to = o.to
        /\ r.at = "next"
    BY <1>1 DEF Migrations
  <2> HIDE DEF r
  <2>4. QED
    BY <2>2, <2>3
<1>6. CASE Probe(m)
  <2>1. PICK a \in o.left :
           moving' = IF home[a] = moving[m].to
                     THEN [moving EXCEPT ![m].left = @ \ {a}]
                     ELSE [moving EXCEPT ![m].left = @ \ {a}, ![m].item = a, ![m].at = "probed"]
    BY <1>6 DEF Probe
  <2>2. a \in o.items /\ a \in Assets
    BY <1>1, <2>1 DEF Migrations
  <2>3. CASE home[a] = moving[m].to
    <3> DEFINE r == [o EXCEPT !.left = o.left \ {a}]
    <3>1. moving' = [moving EXCEPT ![m] = r]
      BY <1>1, <2>1, <2>3
    <3>2. /\ r \in Migrations /\ r.left = o.left \ {a} /\ r.items = o.items
          /\ r.from = o.from /\ r.to = o.to /\ r.at = "next"
      BY <1>1, <1>6 DEF Probe, Moving, Migrations
    <3> HIDE DEF r
    <3>3. QED
      BY <1>1, <3>1, <3>2
  <2>4. CASE home[a] # moving[m].to
    <3> DEFINE r == [o EXCEPT !.left = o.left \ {a}, !.item = a, !.at = "probed"]
    <3>1. moving' = [moving EXCEPT ![m] = r]
      BY <1>1, <2>1, <2>4
    <3>2. /\ r \in Migrations /\ r.left = o.left \ {a} /\ r.items = o.items
          /\ r.from = o.from /\ r.to = o.to /\ r.item = a
      BY <1>1, <2>2 DEF Migrations
    <3> HIDE DEF r
    <3>3. QED
      BY <1>1, <2>2, <3>1, <3>2
  <2>5. QED
    BY <2>3, <2>4
<1>7. CASE Fetch(m) \/ Copy(m) \/ ReadBack(m)
  <2>1. \E at \in {"fetched", "copied", "verified", "updated"} :
           moving' = [moving EXCEPT ![m].at = at] /\ o.at \notin {"idle", "next"}
    BY <1>7 DEF Moving, Fetch, Copy, ReadBack
  <2>2. QED
    BY <1>2, <2>1
<1>8. CASE Update(m)
  <2>1. o.at \notin {"idle", "next"} /\ (moving' = [moving EXCEPT ![m].at = "updated"] \/ Onward(m))
    BY <1>8 DEF Update, Moving
  <2>2. QED
    BY <1>2, <1>3, <2>1
<1>9. CASE DropSource(m) \/ ItemFails(m)
  BY <1>3, <1>9 DEF DropSource, ItemFails
<1>10. CASE EndMigration(m)
  <2> DEFINE r == [o EXCEPT !.at = "idle", !.source = "kept"]
  <2>1. moving' = [moving EXCEPT ![m] = r]
    BY <1>1, <1>10 DEF EndMigration
  <2>2. /\ r \in Migrations /\ r.left = o.left /\ r.items = o.items
        /\ r.from = o.from /\ r.to = o.to /\ r.at = "idle"
    BY <1>1 DEF Migrations
  <2> HIDE DEF r
  <2>3. QED
    BY <1>1, <2>1, <2>2
<1>11. QED
  BY <1>4, <1>5, <1>6, <1>7, <1>8, <1>9, <1>10 DEF Migrate

LEMMA TypeInvMigrate ==
    ASSUME TypeInv, NEW m \in Migrators, Migrate(m)
    PROVE  TypeInv'
<1>1. PICK r \in Migrations :
         /\ moving' = [moving EXCEPT ![m] = r] /\ r.left \subseteq r.items
         /\ r.at \in {"idle", "next"} \/ r.item \in r.items
  BY MigratorMoves
<1>2. moving' \in [Migrators -> Migrations] /\ ItemsPlanned'
      /\ \A n \in Migrators : moving'[n].left \subseteq moving'[n].items
  BY <1>1 DEF TypeInv, MediaTypeOK, ItemsPlanned, Busy
<1>3. UNCHANGED <<message, state, local, cold, other, found, past, viewing>>
  BY DEF Migrate, PlanMigration, Start, Probe, Fetch, Copy, ReadBack, Update, DropSource,
         ItemFails, EndMigration, rows
<1>4. moving[m] \in Migrations
  BY DEF TypeInv, MediaTypeOK
<1>5. home' \in [Assets -> Sinks \cup {Unsent}]
  <2>1. CASE Update(m)
    BY <1>4, <2>1 DEF Update, TypeInv, MediaTypeOK, Migrations
  <2>2. CASE ~Update(m)
    BY <2>2 DEF Migrate, PlanMigration, Start, Probe, Fetch, Copy, ReadBack, DropSource,
                ItemFails, EndMigration, rows, TypeInv, MediaTypeOK
  <2>3. QED
    BY <2>1, <2>2
<1>6. objects' \subseteq Sinks \X Assets
  <2>1. objects \subseteq Sinks \X Assets
    BY DEF TypeInv, MediaTypeOK
  <2>2. CASE Copy(m)
    <3>1. moving[m].to \in Sinks /\ moving[m].item \in Assets
      BY <1>4, <2>2 DEF Copy, Moving, TypeInv, ItemsPlanned, Busy, Migrations
    <3>2. QED
      BY <2>1, <2>2, <3>1 DEF Copy, Target
  <2>3. CASE ~Copy(m)
    BY <2>1, <2>3 DEF Migrate, PlanMigration, Start, Probe, Fetch, ReadBack, Update,
                      DropSource, ItemFails, EndMigration
  <2>4. QED
    BY <2>2, <2>3
<1>7. QED
  BY <1>2, <1>3, <1>5, <1>6 DEF TypeInv, MediaTypeOK, Lifecycle, Present, past

LEMMA TypeInvCrash ==
    ASSUME TypeInv, Crash \/ UNCHANGED vars
    PROVE  TypeInv'
<1>1. CASE Crash
  <2>1. NoMigration \in Migrations /\ NoMigration.left = {} /\ NoMigration.at = "idle"
    BY DEF NoMigration, Migrations, Sinks
  <2>2. QED
    BY <1>1, <2>1 DEF Crash, rows, past, TypeInv, MediaTypeOK, Lifecycle, ItemsPlanned, Busy,
                      Present, ViewRecords
<1>2. CASE UNCHANGED vars
  BY <1>2 DEF vars, rows, past, TypeInv, MediaTypeOK, Lifecycle, ItemsPlanned, Busy, Present
<1>3. QED
  BY <1>1, <1>2

LEMMA TypeInvStep == TypeInv /\ [Next]_vars => TypeInv'
BY TypeInvMessages, TypeInvBudget, TypeInvView, TypeInvMigrate, TypeInvCrash DEF Next

LEMMA TypesInvariant == Spec => []TypeInv
BY TypeInvInit, TypeInvStep, PTL DEF Spec

\* Type correctness: every variable keeps a value of its kind, for any assets,
\* clouds, viewers, migrators and budgets.
THEOREM MediaTypesCorrect == Spec => []MediaTypeOK
<1>1. TypeInv => MediaTypeOK
  BY DEF TypeInv
<1>2. QED
  BY <1>1, TypesInvariant, PTL

-----------------------------------------------------------------------------
(* The diagram of media_state.                                              *)

\* The raw UPDATE of an eviction, a rehydration that commits late and a
\* migration never take media_state over an edge it does not have.
LEMMA DiagramStep ==
    ASSUME TypeInv, [Next]_vars
    PROVE  \A a \in Assets : state'[a] = state[a] \/ <<state[a], state'[a]>> \in Legal
<1> USE DEF TypeInv, MediaTypeOK, Lifecycle
<1>1. ASSUME NEW b \in Assets, Send(b) \/ Receive(b) \/ Redeliver(b)
      PROVE  \A a \in Assets : state'[a] = state[a] \/ <<state[a], state'[a]>> \in Legal
  BY <1>1 DEF Send, Receive, Redeliver, Ingest, Legal
<1>2. ASSUME NEW b \in Assets, Settle(b) \/ DeleteConversation(b)
      PROVE  \A a \in Assets : state'[a] = state[a] \/ <<state[a], state'[a]>> \in Legal
  BY <1>2 DEF Settle, DeleteConversation, Legal
<1>3. ASSUME NEW v \in Viewers, Land(v)
      PROVE  \A a \in Assets : state'[a] = state[a] \/ <<state[a], state'[a]>> \in Legal
  <2>1. viewing[v].asset \in Assets /\ viewing[v].from \in {"evicted", "remote_original"}
    BY <1>3 DEF Land, Viewing, ViewRecords, Idle
  <2>2. QED
    BY <1>3, <2>1 DEF Land, Legal
<1>4. CASE EnforceBudget \/ EnforceBudgetFails
  <2>1. PICK E \in SUBSET Candidates : Evict(E)
    BY <1>4, PassEvicts
  <2>2. \A a \in E : state[a] = "original_local"
    BY <2>1 DEF Candidates
  <2>3. QED
    BY <2>1, <2>2 DEF Evict, Legal
<1>5. CASE UNCHANGED state
  BY <1>5
<1>6. QED
  BY <1>1, <1>2, <1>3, <1>4, <1>5
     DEF Next, vars, rows, Messages, Upload, Delete, Cool, Pin, Grow, Crash,
         View, Open, Download, Index, DownloadFails,
         Migrate, PlanMigration, Start, Probe, Fetch, Copy, ReadBack, Update, DropSource,
         ItemFails, EndMigration

\* media_state only follows the diagram of MediaState::try_transition, though
\* an eviction writes it without asking and downloads, migrations and
\* deletions overlap, for any number of them.
THEOREM DiagramHolds == Spec => StatesFollowTheDiagram
<1>1. TypeInv /\ [Next]_vars =>
         [\A a \in Assets : state'[a] = state[a] \/ <<state[a], state'[a]>> \in Legal]_vars
  BY DiagramStep
<1>2. QED
  BY <1>1, TypesInvariant, PTL DEF Spec, StatesFollowTheDiagram

-----------------------------------------------------------------------------
(* What a pass of the budget takes.                                         *)

BytesOf(S) == UNION {{a} \X (1..Size[a]) : a \in S}

\* Sizes add up, which plan_eviction's running total relies on.
LEMMA BytesAddUp ==
    ASSUME NEW S \in SUBSET Assets, NEW T \in SUBSET Assets, S \cap T = {}
    PROVE  /\ Bytes(S) \in Nat /\ Bytes(T) \in Nat
           /\ Bytes(S \cup T) = Bytes(S) + Bytes(T)
<1>1. ASSUME NEW U \in SUBSET Assets
      PROVE  IsFiniteSet(BytesOf(U))
  <2>1. IsFiniteSet(U)
    BY MediaAssumption, FS_Subset
  <2>2. \A a \in U : IsFiniteSet({a} \X (1..Size[a]))
    <3>1. ASSUME NEW a \in U PROVE IsFiniteSet({a} \X (1..Size[a]))
      <4>1. Size[a] \in Nat /\ 1 \in Int /\ Size[a] \in Int
        BY MediaAssumption
      <4>2. IsFiniteSet(1..Size[a]) /\ IsFiniteSet({a})
        BY <4>1, FS_Interval, FS_Singleton
      <4>3. QED
        BY <4>2, FS_Product
    <3>2. QED
      BY <3>1
  <2>3. IsFiniteSet({{a} \X (1..Size[a]) : a \in U})
    <3> DEFINE f == [a \in U |-> {a} \X (1..Size[a])]
    <3>1. {{a} \X (1..Size[a]) : a \in U} = {f[a] : a \in U}
      OBVIOUS
    <3>2. f \in Surjection(U, {f[a] : a \in U})
      BY DEF Surjection
    <3>3. QED
      BY <2>1, <3>1, <3>2, FS_Surjection
  <2>4. QED
    BY <2>2, <2>3, FS_UNION DEF BytesOf
<1>2. IsFiniteSet(BytesOf(S)) /\ IsFiniteSet(BytesOf(T))
  BY <1>1
<1>3. BytesOf(S \cup T) = BytesOf(S) \cup BytesOf(T) /\ BytesOf(S) \cap BytesOf(T) = {}
  BY DEF BytesOf
<1>4. Cardinality(BytesOf(S)) \in Nat /\ Cardinality(BytesOf(T)) \in Nat
  BY <1>2, FS_CardinalityType
<1>5. Cardinality(BytesOf(S) \cup BytesOf(T))
         = Cardinality(BytesOf(S)) + Cardinality(BytesOf(T))
  <2> DEFINE X == BytesOf(S)
             Y == BytesOf(T)
  <2>1. /\ IsFiniteSet(X) /\ IsFiniteSet(Y) /\ X \cap Y = {}
        /\ Cardinality(X) \in Nat /\ Cardinality(Y) \in Nat
    BY <1>2, <1>3, <1>4
  <2> HIDE DEF X, Y
  <2>2. Cardinality(X \cup Y) = Cardinality(X) + Cardinality(Y) - Cardinality({})
    BY <2>1, FS_Union
  <2>3. Cardinality(X \cup Y) = Cardinality(X) + Cardinality(Y)
    BY <2>1, <2>2, FS_EmptySet
  <2>4. QED
    BY <2>3 DEF X, Y
<1>6. \A U : Bytes(U) = Cardinality(BytesOf(U))
  BY DEF Bytes, BytesOf
<1>7. QED
  BY <1>3, <1>4, <1>5, <1>6

\* Under pressure there is something to free, and the mark is the highest passed.
LEMMA PressureAsksForBytes ==
    ASSUME TypeInv, Pressured
    PROVE  Used \in Nat /\ Mark \in Nat /\ Used - Mark \in Nat \ {0}
<1>1. local \in SUBSET Assets /\ other \in Nat
  BY DEF TypeInv, MediaTypeOK, Present
<1>2. {} \in SUBSET Assets /\ local \cap {} = {}
  BY <1>1
<1>3. Bytes(local) \in Nat
  BY <1>1, <1>2, BytesAddUp
<1>4. Used \in Nat
  BY <1>1, <1>3 DEF Used
<1>5. Warning \in Nat /\ Critical \in Nat /\ Maximum \in Nat
  BY MediaAssumption
<1>6. Used > Warning
  BY DEF Pressured
<1>7. Mark \in Nat /\ Used > Mark
  BY <1>4, <1>5, <1>6 DEF Mark
<1>8. QED
  BY <1>4, <1>7

\* plan_tiered_eviction: the target is met or nothing is left, the last asset
\* was needed, and the backend comes after the clouds.
LEMMA TieredPlansAreFrugal ==
    ASSUME TypeInv, NEW target \in Nat \ {0}, NEW E \in TieredPlans(target)
    PROVE  /\ Bytes(E) \in Nat
           /\ Bytes(E) >= target \/ E = Candidates
           /\ E # {} => \E last \in E : Bytes(E \ {last}) \in Nat /\ Bytes(E \ {last}) < target
           /\ \A a \in E : InCloud(a) \/ \A b \in Candidates : InCloud(b) => b \in E
<1> DEFINE clouds == {a \in Candidates : InCloud(a)}
           fulls == {a \in Candidates : ~InCloud(a)}
<1>0. PICK cloud \in Plans(clouds, target) :
         \E full \in Plans(fulls, Saturating(target, Bytes(cloud))) : E = cloud \cup full
  BY DEF TieredPlans
<1>1. PICK full \in Plans(fulls, Saturating(target, Bytes(cloud))) : E = cloud \cup full
  BY <1>0
<1> DEFINE rest == Saturating(target, Bytes(cloud))
<1>2. clouds \in SUBSET Assets /\ fulls \in SUBSET Assets /\ clouds \cap fulls = {}
      /\ Candidates = clouds \cup fulls
  <2>1. Candidates \subseteq Assets
    BY DEF Candidates, Present
  <2>2. QED
    BY <2>1
<1>3. \A a \in clouds : InCloud(a)
  OBVIOUS
<1>4. \A b \in Candidates : InCloud(b) => b \in clouds
  OBVIOUS
<1> HIDE DEF clouds, fulls
<1>5. /\ cloud \subseteq clouds
      /\ cloud = clouds \/ Bytes(cloud) >= target
      /\ cloud # {} => \E last \in cloud : Bytes(cloud \ {last}) < target
  BY <1>0 DEF Plans
<1>6. /\ full \subseteq fulls /\ (rest = 0 => full = {})
      /\ rest # 0 => full = fulls \/ Bytes(full) >= rest
      /\ full # {} => \E last \in full : Bytes(full \ {last}) < rest
  BY <1>1 DEF Plans
<1>7. ASSUME NEW S \in SUBSET Assets PROVE Bytes(S) \in Nat
  <2>1. {} \in SUBSET Assets /\ S \cap {} = {}
    OBVIOUS
  <2>2. QED
    BY <2>1, BytesAddUp
<1>8. /\ cloud \in SUBSET Assets /\ full \in SUBSET Assets /\ cloud \cap full = {}
      /\ Bytes(cloud) \in Nat /\ Bytes(full) \in Nat
  BY <1>2, <1>5, <1>6, <1>7
<1>9. Bytes(E) \in Nat /\ Bytes(E) = Bytes(cloud) + Bytes(full)
  BY <1>1, <1>8, <1>7, BytesAddUp
<1>10. CASE Bytes(cloud) >= target
  <2>1. rest = 0
    BY <1>8, <1>10 DEF Saturating
  <2>2. full = {} /\ E = cloud
    BY <1>1, <1>6, <2>1
  <2>3. \A last \in E : Bytes(E \ {last}) \in Nat
    BY <1>7, <1>8, <2>2
  <2>4. E # {} => \E last \in E : Bytes(E \ {last}) \in Nat /\ Bytes(E \ {last}) < target
    BY <1>5, <2>2, <2>3
  <2>5. \A a \in E : InCloud(a)
    BY <1>3, <1>5, <2>2
  <2>6. QED
    BY <1>9, <1>10, <2>2, <2>4, <2>5
<1>11. CASE ~(Bytes(cloud) >= target)
  <2>1. rest = target - Bytes(cloud) /\ rest \in Nat /\ rest # 0 /\ Bytes(cloud) < target
    BY <1>8, <1>11 DEF Saturating
  <2>2. cloud = clouds
    BY <1>5, <1>11
  <2>3. Bytes(E) >= target \/ E = Candidates
    <3>1. CASE full = fulls
      BY <1>1, <1>2, <2>2, <3>1
    <3>2. CASE Bytes(full) >= rest
      <4>1. Bytes(cloud) + Bytes(full) >= target
        BY <1>8, <2>1, <3>2
      <4>2. QED
        BY <1>9, <4>1
    <3>3. QED
      BY <1>6, <2>1, <3>1, <3>2
  <2>4. ASSUME full # {}
        PROVE  \E last \in E : Bytes(E \ {last}) \in Nat /\ Bytes(E \ {last}) < target
    <3>1. PICK last \in full : Bytes(full \ {last}) < rest
      BY <1>6, <2>4
    <3>2. E \ {last} = cloud \cup (full \ {last}) /\ cloud \cap (full \ {last}) = {}
          /\ full \ {last} \in SUBSET Assets /\ last \in E
      BY <1>1, <1>8, <3>1
    <3>3. /\ Bytes(full \ {last}) \in Nat
          /\ Bytes(E \ {last}) = Bytes(cloud) + Bytes(full \ {last})
      BY <1>8, <3>2, BytesAddUp
    <3>4. Bytes(E \ {last}) \in Nat /\ Bytes(E \ {last}) < target
      BY <1>8, <2>1, <3>1, <3>3
    <3>5. QED
      BY <3>2, <3>4
  <2>5. ASSUME full = {}, E # {}
        PROVE  \E last \in E : Bytes(E \ {last}) \in Nat /\ Bytes(E \ {last}) < target
    <3>1. E = cloud
      BY <1>1, <2>5
    <3>2. \A last \in E : Bytes(E \ {last}) \in Nat
      BY <1>7, <1>8, <3>1
    <3>3. QED
      BY <1>5, <2>5, <3>1, <3>2
  <2>6. \A b \in Candidates : InCloud(b) => b \in E
    BY <1>1, <1>4, <2>2
  <2>7. QED
    BY <1>9, <2>3, <2>4, <2>5, <2>6
<1>12. QED
  BY <1>10, <1>11

\* Nothing but a pass of the budget evicts.
LEMMA OnlyTheBudgetEvicts ==
    ASSUME TypeInv, [Next]_vars, NEW a \in Assets,
           state[a] = "original_local", state'[a] = "evicted"
    PROVE  EnforceBudget \/ EnforceBudgetFails
<1> USE DEF TypeInv, MediaTypeOK
<1>1. ASSUME NEW b \in Assets, Send(b) \/ Receive(b) \/ Redeliver(b) PROVE FALSE
  BY <1>1 DEF Send, Receive, Redeliver, Ingest
<1>2. ASSUME NEW b \in Assets, Settle(b) \/ DeleteConversation(b) PROVE FALSE
  BY <1>2 DEF Settle, DeleteConversation
<1>3. ASSUME NEW v \in Viewers, Land(v) PROVE FALSE
  BY <1>3 DEF Land
<1>4. CASE UNCHANGED state
  BY <1>4
<1>5. QED
  BY <1>1, <1>2, <1>3, <1>4
     DEF Next, vars, rows, Messages, Upload, Delete, Cool, Pin, Grow, Crash,
         View, Open, Download, Index, DownloadFails,
         Migrate, PlanMigration, Start, Probe, Fetch, Copy, ReadBack, Update, DropSource,
         ItemFails, EndMigration

\* A subset of a set of assets is no larger.
LEMMA BytesGrow ==
    ASSUME NEW S \in SUBSET Assets, NEW T \in SUBSET S
    PROVE  Bytes(T) \in Nat /\ Bytes(S) \in Nat /\ Bytes(T) <= Bytes(S)
<1>1. T \in SUBSET Assets /\ S \ T \in SUBSET Assets /\ T \cap (S \ T) = {}
      /\ T \cup (S \ T) = S
  OBVIOUS
<1>2. /\ Bytes(T) \in Nat /\ Bytes(S \ T) \in Nat
      /\ Bytes(T \cup (S \ T)) = Bytes(T) + Bytes(S \ T)
  BY <1>1, BytesAddUp
<1>3. Bytes(S) = Bytes(T) + Bytes(S \ T)
  BY <1>1, <1>2, Zenon
<1>4. \A y, z \in Nat : y + z \in Nat /\ y <= y + z
  OBVIOUS
<1>5. QED
  BY <1>2, <1>3, <1>4

\* Part of a plan goes no further than the plan.
LEMMA PartsStopInTime ==
    ASSUME NEW target \in Nat, NEW E \in SUBSET Assets, NEW part \in SUBSET E, part # {},
           NEW last \in E, Bytes(E \ {last}) < target
    PROVE  \E a \in part : Bytes(part \ {a}) \in Nat /\ Bytes(part \ {a}) < target
<1>1. PICK a \in part : part \ {a} \subseteq E \ {last}
  <2>1. CASE last \in part
    BY <2>1
  <2>2. CASE last \notin part
    BY <2>2
  <2>3. QED
    BY <2>1, <2>2
<1>2. E \ {last} \in SUBSET Assets /\ part \ {a} \in SUBSET (E \ {last})
  BY <1>1
<1>3. Bytes(part \ {a}) \in Nat /\ Bytes(E \ {last}) \in Nat
      /\ Bytes(part \ {a}) <= Bytes(E \ {last})
  BY <1>2, BytesGrow
<1>4. QED
  BY <1>1, <1>3

\* A pass of the storage budget gets below the mark it was called for or runs
\* out of candidates unless the storage fails it, and, failed or not, evicts
\* nothing after that, and no backend original while a candidate of a cloud is
\* left, for any sizes, marks and assets.
THEOREM BudgetIsFrugal == Spec => EvictionIsFrugal
<1> DEFINE Taken == {a \in Assets : state[a] = "original_local" /\ state'[a] = "evicted"}
           Frugal(E) ==
              E # {} =>
                /\ EnforceBudget => Used - Bytes(E) <= Mark \/ E = Candidates
                /\ \E last \in E : Used - Bytes(E \ {last}) > Mark
                /\ \A a \in E : InCloud(a) \/ \A b \in Candidates : InCloud(b) => b \in E
<1>1. ASSUME TypeInv, [Next]_vars PROVE Frugal(Taken)
  <2>1. CASE EnforceBudget \/ EnforceBudgetFails
    <3>0. PICK E \in TieredPlans(Used - Mark) : \E part \in SUBSET E :
             /\ Evict(part) /\ (EnforceBudget => part = E)
             /\ \A a \in part : InCloud(a) \/ \A b \in E : InCloud(b) => b \in part
      BY <2>1, PassEvictsPart
    <3>1. PICK part \in SUBSET E :
             /\ Evict(part) /\ (EnforceBudget => part = E)
             /\ \A a \in part : InCloud(a) \/ \A b \in E : InCloud(b) => b \in part
      BY <3>0
    <3>2. E \subseteq Candidates /\ Candidates \subseteq Assets
      BY PlansTakeCandidates DEF Candidates, Present
    <3>3. Taken = part
      BY <3>1, <3>2 DEF Evict, Candidates
    <3> DEFINE used == Used
               mark == Mark
               target == Used - Mark
    <3>4. used \in Nat /\ mark \in Nat /\ target \in Nat \ {0} /\ target = used - mark
      BY <1>1, <2>1, PassEvictsPart, PressureAsksForBytes
    <3> HIDE DEF target
    <3>5. E \in TieredPlans(target)
      BY <3>0 DEF target
    <3>6. /\ Bytes(E) \in Nat
          /\ Bytes(E) >= target \/ E = Candidates
          /\ E # {} => \E last \in E : Bytes(E \ {last}) \in Nat /\ Bytes(E \ {last}) < target
          /\ \A a \in E : InCloud(a) \/ \A b \in Candidates : InCloud(b) => b \in E
      BY <1>1, <3>4, <3>5, TieredPlansAreFrugal
    <3>7. ASSUME part # {}
          PROVE  \E last \in part : Bytes(part \ {last}) \in Nat /\ Bytes(part \ {last}) < target
      <4>1. PICK last \in E : Bytes(E \ {last}) < target
        BY <3>1, <3>6, <3>7
      <4>2. E \in SUBSET Assets /\ target \in Nat
        BY <3>2, <3>4
      <4>3. QED
        BY <3>1, <3>7, <4>1, <4>2, PartsStopInTime
    <3> HIDE DEF used, mark
    <3>8. \A n \in Nat : (n >= target => used - n <= mark) /\ (n < target => used - n > mark)
      BY <3>4
    <3>9. /\ EnforceBudget => used - Bytes(part) <= mark \/ part = Candidates
          /\ part # {} => \E last \in part : used - Bytes(part \ {last}) > mark
      BY <3>1, <3>6, <3>7, <3>8
    <3>10. \A a \in part : InCloud(a) \/ \A b \in Candidates : InCloud(b) => b \in part
      BY <3>1, <3>6
    <3>11. Frugal(part)
      BY <3>9, <3>10 DEF used, mark
    <3> HIDE DEF Frugal
    <3>12. QED
      BY <3>3, <3>11
  <2>2. CASE ~(EnforceBudget \/ EnforceBudgetFails)
    <3>1. Taken = {}
      BY <1>1, <2>2, OnlyTheBudgetEvicts
    <3>2. QED
      BY <3>1
  <2>3. QED
    BY <2>1, <2>2
<1>2. TypeInv /\ [Next]_vars => [Frugal(Taken)]_vars
  BY <1>1
<1>3. QED
  BY <1>2, TypesInvariant, PTL DEF Spec, EvictionIsFrugal

-----------------------------------------------------------------------------
(* Every row resolves, with one migration at a time.                        *)

NoRowNoBlob == \A a \in Assets : state[a] = "none" => home[a] = Unsent

RowsInv == RowsResolve /\ NoRowNoBlob

\* A row that was planned names a blob ever since, or has gone with its
\* conversation; then a delivery can bring it back, and no upload.
PlanOwns(m) ==
    /\ moving[m].items # {} => moving[m].from # moving[m].to /\ moving[m].from \in Clouds
    /\ \A i \in moving[m].items : home[i] # Unsent \/ (state[i] = "none" /\ i \in dropped)

\* What a migrator has achieved so far for the item it works on: the copy is
\* there, and then the row has left the source for good, but for a descriptor
\* that is delivered again.
Achieved(m) ==
    LET a == moving[m].item IN
    /\ moving[m].at \in {"copied", "verified"} => Target(m) \in objects
    /\ moving[m].at = "updated" =>
          home[a] # moving[m].from \/ (a \in dropped /\ home[a] = origin[a])

PlansInv == \A m \in Migrators : PlanOwns(m) /\ Achieved(m)

Inv == TypeInv /\ RowsInv /\ PlansInv

\* What a step may do to a row under a migration: leave its blob, delete it
\* with its conversation, deliver it again, or store its first blob.
Moves(a) ==
    \/ /\ home'[a] = home[a] /\ (a \in dropped => origin'[a] = origin[a])
       /\ state[a] = "none" /\ a \in dropped => state'[a] = "none"
    \/ home'[a] = Unsent /\ state'[a] = "none" /\ a \in dropped'
    \/ a \in dropped /\ home'[a] = origin'[a] /\ home'[a] # Unsent
    \/ /\ home[a] = Unsent /\ (state[a] # "none" \/ a \notin dropped)
       /\ home'[a] # Unsent /\ <<home'[a], a>> \in objects'

\* Such steps keep the rows and the plans.
LEMMA RowsStay ==
    ASSUME Inv, TypeInv', UNCHANGED moving, objects \subseteq objects', dropped \subseteq dropped',
           \A a \in Assets : Moves(a),
           \A a \in Assets :
              /\ state'[a] = "none" => home'[a] = Unsent
              /\ state'[a] \notin {"none", "thumbnail_only"} => home'[a] # Unsent
    PROVE  RowsInv' /\ PlansInv'
<1>1. RowsInv'
  <2>1. ASSUME NEW a \in Assets, home'[a] # Unsent
        PROVE  <<home'[a], a>> \in objects' \/ (a \in dropped' /\ home'[a] = origin'[a])
    <3>1. Moves(a)
      OBVIOUS
    <3>2. home[a] # Unsent => <<home[a], a>> \in objects \/ (a \in dropped /\ home[a] = origin[a])
      BY DEF Inv, RowsInv, RowsResolve
    <3>3. QED
      BY <2>1, <3>1, <3>2 DEF Moves
  <2>2. QED
    BY <2>1 DEF RowsInv, RowsResolve, NoRowNoBlob
<1>2. ASSUME NEW m \in Migrators PROVE PlanOwns(m)' /\ Achieved(m)'
  <2>1. PlanOwns(m) /\ Achieved(m) /\ moving[m] \in Migrations
    BY DEF Inv, PlansInv, TypeInv, MediaTypeOK
  <2>2. ASSUME NEW i \in moving[m].items
        PROVE  home'[i] # Unsent \/ (state'[i] = "none" /\ i \in dropped')
    <3>1. i \in Assets
      BY <2>1 DEF Migrations
    <3>2. Moves(i)
      BY <3>1
    <3>3. home[i] # Unsent \/ (state[i] = "none" /\ i \in dropped)
      BY <2>1 DEF PlanOwns
    <3>4. QED
      BY <3>2, <3>3 DEF Moves
  <2>3. PlanOwns(m)'
    BY <2>1, <2>2 DEF PlanOwns
  <2>4. Achieved(m)'
    <3>1. CASE moving[m].at = "updated"
      <4>1. moving[m].item \in moving[m].items /\ moving[m].from \in Sinks
        BY <2>1, <3>1 DEF Inv, TypeInv, ItemsPlanned, Busy, Migrations
      <4>2. PICK i \in moving[m].items : i = moving[m].item /\ i \in Assets
        BY <2>1, <4>1 DEF Migrations
      <4>3. Moves(i)
        BY <4>2
      <4>4. home[i] # Unsent \/ (state[i] = "none" /\ i \in dropped)
        BY <2>1 DEF PlanOwns
      <4>5. home[i] # moving[m].from \/ (i \in dropped /\ home[i] = origin[i])
        BY <2>1, <3>1, <4>2 DEF Achieved
      <4>6. home'[i] # moving[m].from \/ (i \in dropped' /\ home'[i] = origin'[i])
        BY <4>1, <4>3, <4>4, <4>5, UnsentIsNoSink DEF Moves
      <4>7. QED
        BY <3>1, <4>2, <4>6 DEF Achieved
    <3>2. CASE moving[m].at # "updated"
      BY <2>1, <3>2 DEF Achieved, Target
    <3>3. QED
      BY <3>1, <3>2
  <2>5. QED
    BY <2>3, <2>4
<1>3. QED
  BY <1>1, <1>2 DEF PlansInv

LEMMA RowsMessages ==
    ASSUME Inv, TypeInv', NEW a \in Assets, Messages(a)
    PROVE  RowsInv' /\ PlansInv'
<1> DEFINE Fine ==
      /\ UNCHANGED moving /\ objects \subseteq objects' /\ dropped \subseteq dropped'
      /\ \A b \in Assets : Moves(b)
      /\ \A b \in Assets :
            /\ state'[b] = "none" => home'[b] = Unsent
            /\ state'[b] \notin {"none", "thumbnail_only"} => home'[b] # Unsent
<1> USE DEF Inv, TypeInv, MediaTypeOK, Lifecycle, RowsInv, RowsResolve, NoRowNoBlob, Moves, past
<1>1. CASE Send(a)
  <2>1. Fine
    BY <1>1 DEF Send
  <2>2. QED
    BY <2>1, RowsStay
<1>2. CASE Receive(a)
  <2>1. PICK sink \in Sinks : /\ Ingest(a, sink) /\ origin' = [origin EXCEPT ![a] = sink]
                              /\ objects' = objects \cup {<<sink, a>>}
    BY <1>2 DEF Receive
  <2>2. sink # Unsent /\ a \notin dropped
    BY <1>2, UnsentIsNoSink DEF Receive
  <2>3. Moves(a)
    BY <2>1, <2>2 DEF Ingest
  <2>4. ASSUME NEW b \in Assets, b # a PROVE Moves(b)
    <3>1. UNCHANGED <<state[b], home[b], origin[b], message[b], dropped>> /\ objects \subseteq objects'
      BY <2>1, <2>4 DEF Ingest
    <3>2. QED
      BY <3>1
  <2>5. ASSUME NEW b \in Assets
        PROVE  /\ state'[b] = "none" => home'[b] = Unsent
               /\ state'[b] \notin {"none", "thumbnail_only"} => home'[b] # Unsent
    <3>1. CASE b = a
      <4>1. state'[a] = "thumbnail_only"
        BY <2>1 DEF Ingest
      <4>2. QED
        BY <3>1, <4>1
    <3>2. CASE b # a
      <4>1. state'[b] = state[b] /\ home'[b] = home[b]
        BY <2>1, <3>2 DEF Ingest
      <4>2. /\ state[b] = "none" => home[b] = Unsent
            /\ state[b] \notin {"none", "thumbnail_only"} => home[b] # Unsent
        BY DEF NoRowNoBlob, RowsResolve
      <4>3. QED
        BY <4>1, <4>2
    <3>3. QED
      BY <3>1, <3>2
  <2>6. UNCHANGED moving /\ objects \subseteq objects' /\ dropped \subseteq dropped'
    BY <2>1 DEF Ingest
  <2>7. QED
    BY <2>3, <2>4, <2>5, <2>6, RowsStay
<1>3. CASE Redeliver(a)
  BY <1>3, RowsStay DEF Redeliver, Ingest
<1>4. CASE Upload(a)
  <2>1. PICK sink \in Sinks : /\ home' = [home EXCEPT ![a] = sink]
                              /\ objects' = objects \cup {<<sink, a>>}
    BY <1>4 DEF Upload
  <2>2. sink # Unsent
    BY UnsentIsNoSink
  <2>3. Moves(a)
    BY <1>4, <2>1, <2>2 DEF Upload
  <2>4. ASSUME NEW b \in Assets, b # a PROVE Moves(b)
    <3>1. UNCHANGED <<state[b], home[b], origin[b], message[b], dropped>> /\ objects \subseteq objects'
      BY <1>4, <2>1, <2>4 DEF Upload
    <3>2. QED
      BY <3>1
  <2>5. ASSUME NEW b \in Assets
        PROVE  /\ state'[b] = "none" => home'[b] = Unsent
               /\ state'[b] \notin {"none", "thumbnail_only"} => home'[b] # Unsent
    <3>1. CASE b = a
      <4>1. state'[a] = "thumbnail_only"
        BY <1>4, <2>1 DEF Upload
      <4>2. QED
        BY <3>1, <4>1
    <3>2. CASE b # a
      <4>1. state'[b] = state[b] /\ home'[b] = home[b]
        BY <1>4, <2>1, <3>2 DEF Upload
      <4>2. /\ state[b] = "none" => home[b] = Unsent
            /\ state[b] \notin {"none", "thumbnail_only"} => home[b] # Unsent
        BY DEF NoRowNoBlob, RowsResolve
      <4>3. QED
        BY <4>1, <4>2
    <3>3. QED
      BY <3>1, <3>2
  <2>6. UNCHANGED moving /\ objects \subseteq objects' /\ dropped \subseteq dropped'
    BY <1>4, <2>1 DEF Upload
  <2>7. QED
    BY <2>3, <2>4, <2>5, <2>6, RowsStay
<1>5. CASE Settle(a)
  BY <1>5, RowsStay DEF Settle
<1>6. CASE Delete(a)
  BY <1>6, RowsStay DEF Delete
<1>7. CASE DeleteConversation(a)
  BY <1>7, RowsStay DEF DeleteConversation
<1>8. CASE Cool(a) \/ Pin(a)
  BY <1>8, RowsStay DEF Cool, Pin, rows
<1>9. QED
  BY <1>1, <1>2, <1>3, <1>4, <1>5, <1>6, <1>7, <1>8 DEF Messages

LEMMA RowsBudgetAndViews ==
    ASSUME Inv, TypeInv', Grow \/ EnforceBudget \/ EnforceBudgetFails \/ \E v \in Viewers : View(v)
    PROVE  RowsInv' /\ PlansInv'
<1>1. UNCHANGED <<message, home, objects, past, moving>> /\
      \A a \in Assets : state'[a] = state[a] \/
         (state'[a] \in States \ {"thumbnail_only"} /\ state[a] \in States \ {"thumbnail_only"})
  <2>1. CASE Grow
    BY <2>1 DEF Grow, rows
  <2>2. CASE EnforceBudget \/ EnforceBudgetFails
    <3>1. PICK E \in SUBSET Candidates : Evict(E)
      BY <2>2, PassEvicts
    <3>2. \A a \in E : state[a] = "original_local"
      BY <3>1 DEF Candidates
    <3>3. QED
      BY <3>1, <3>2 DEF Evict, States
  <2>3. ASSUME NEW v \in Viewers, View(v)
        PROVE  UNCHANGED <<message, home, objects, past, moving>> /\
               \A a \in Assets : state'[a] = state[a] \/
           (state'[a] \in States \ {"thumbnail_only"} /\ state[a] \in States \ {"thumbnail_only"})
    <3>1. CASE Land(v)
      <4>1. viewing[v].asset \in Assets /\ viewing[v].from \in {"evicted", "remote_original"}
        BY <3>1 DEF Land, Viewing, ViewRecords, Idle, Inv, TypeInv, MediaTypeOK
      <4>2. QED
        BY <3>1, <4>1 DEF Land, States, Inv, TypeInv, MediaTypeOK
    <3>2. CASE ~Land(v)
      BY <2>3, <3>2 DEF View, Open, Download, Index, DownloadFails, rows
    <3>3. QED
      BY <3>1, <3>2
  <2>4. QED
    BY <2>1, <2>2, <2>3
<1>2. \A a \in Assets : Moves(a)
  BY <1>1 DEF Moves, States, past
<1>3. \A a \in Assets :
         /\ state'[a] = "none" => home'[a] = Unsent
         /\ state'[a] \notin {"none", "thumbnail_only"} => home'[a] # Unsent
  BY <1>1 DEF Inv, RowsInv, RowsResolve, NoRowNoBlob, States
<1>4. QED
  BY <1>1, <1>2, <1>3, RowsStay DEF past

-----------------------------------------------------------------------------
(* The steps of a migration.                                                *)

\* A plan stays sound while no row loses its blob.
LEMMA PlanKept ==
    ASSUME NEW m \in Migrators, PlanOwns(m), UNCHANGED <<state, dropped>>,
           \A a \in moving[m].items : home[a] # Unsent => home'[a] # Unsent,
           moving'[m].items = moving[m].items, moving'[m].from = moving[m].from,
           moving'[m].to = moving[m].to
    PROVE  PlanOwns(m)'
BY DEF PlanOwns

\* A step that starts, skips or ends an item.
LEMMA QuietMigration ==
    ASSUME Inv, NEW m \in Migrators,
           UNCHANGED <<state, home, objects, past>>,
           moving'[m].items = moving[m].items, moving'[m].from = moving[m].from,
           moving'[m].to = moving[m].to,
           moving'[m].at \in {"idle", "next", "probed", "fetched"}
    PROVE  RowsInv' /\ PlanOwns(m)' /\ Achieved(m)'
<1>1. RowsInv'
  BY DEF Inv, RowsInv, RowsResolve, NoRowNoBlob, past
<1>2. PlanOwns(m)'
  BY PlanKept DEF Inv, PlansInv, past
<1>3. Achieved(m)'
  BY DEF Achieved
<1>4. QED
  BY <1>1, <1>2, <1>3

LEMMA MigrationPlanned ==
    ASSUME Inv, NEW m \in Migrators, NEW from \in Clouds, NEW to \in Clouds,
           PlanMigration(m, from, to)
    PROVE  RowsInv' /\ PlanOwns(m)' /\ Achieved(m)'
<1> DEFINE items == {a \in Present : home[a] = from}
           r == [NoMigration EXCEPT !.from = from, !.to = to, !.items = items]
<1>1. moving'[m] = r /\ UNCHANGED <<state, home, objects, past>> /\ from # to
  BY DEF PlanMigration, rows, Inv, TypeInv, MediaTypeOK
<1>2. \A i \in items : home[i] # Unsent
  BY UnsentIsNoSink DEF Sinks
<1> HIDE DEF items
<1>3. r.items = items /\ r.from = from /\ r.to = to /\ r.at = "idle"
  BY DEF NoMigration
<1> HIDE DEF r
<1>4. RowsInv'
  BY <1>1 DEF Inv, RowsInv, RowsResolve, NoRowNoBlob, past
<1>5. PlanOwns(m)'
  BY <1>1, <1>2, <1>3 DEF PlanOwns
<1>6. Achieved(m)'
  BY <1>1, <1>3 DEF Achieved
<1>7. QED
  BY <1>4, <1>5, <1>6

\* The copy is stored, and found when it is read back.
LEMMA MigrationCopied ==
    ASSUME Inv, NEW m \in Migrators, Copy(m) \/ ReadBack(m)
    PROVE  RowsInv' /\ PlanOwns(m)' /\ Achieved(m)'
<1>1. /\ UNCHANGED <<state, home, past>> /\ objects \subseteq objects' /\ Target(m) \in objects'
      /\ moving[m] \in Migrations /\ moving \in [Migrators -> Migrations]
  BY DEF Copy, ReadBack, rows, Inv, TypeInv, MediaTypeOK
<1>2. PICK at \in {"copied", "verified"} : moving' = [moving EXCEPT ![m].at = at]
  BY DEF Copy, ReadBack
<1>3. /\ moving'[m].items = moving[m].items /\ moving'[m].from = moving[m].from
      /\ moving'[m].to = moving[m].to /\ moving'[m].at = at /\ moving'[m].item = moving[m].item
  BY <1>1, <1>2 DEF Migrations
<1>4. RowsInv'
  BY <1>1 DEF Inv, RowsInv, RowsResolve, NoRowNoBlob, past
<1>5. PlanOwns(m)'
  BY <1>1, <1>3, PlanKept DEF Inv, PlansInv, past
<1>6. Achieved(m)'
  BY <1>1, <1>3 DEF Achieved, Target
<1>7. QED
  BY <1>4, <1>5, <1>6

\* The row, if it is there, takes the copy.
LEMMA MigrationUpdates ==
    ASSUME Inv, NEW m \in Migrators, Update(m)
    PROVE  RowsInv' /\ PlanOwns(m)' /\ Achieved(m)'
<1> DEFINE a == moving[m].item
           to == moving[m].to
<1>1. /\ moving[m] \in Migrations /\ moving \in [Migrators -> Migrations]
      /\ moving[m].at = "verified" /\ home \in [Assets -> Sinks \cup {Unsent}]
      /\ PlanOwns(m) /\ Achieved(m) /\ RowsInv
  BY DEF Inv, PlansInv, TypeInv, MediaTypeOK, Update, Moving
<1>2. a \in moving[m].items /\ a \in Assets
  <2>1. a \in moving[m].items
    BY <1>1 DEF Inv, TypeInv, ItemsPlanned, Busy
  <2>2. QED
    BY <1>1, <2>1 DEF Migrations
<1>3. /\ <<to, a>> \in objects /\ to \in Sinks /\ to # Unsent
      /\ moving[m].from # to /\ moving[m].from \in Clouds /\ moving[m].from \in Sinks
  BY <1>1, <1>2, UnsentIsNoSink DEF Achieved, PlanOwns, Target, Migrations
<1>4. /\ UNCHANGED <<state, objects, past>>
      /\ home' = IF state[a] = "none" THEN home ELSE [home EXCEPT ![a] = to]
  BY DEF Update
<1>5. /\ moving'[m].items = moving[m].items /\ moving'[m].from = moving[m].from
      /\ moving'[m].to = moving[m].to
      /\ moving'[m].at = "next" \/ (moving'[m].at = "updated" /\ moving'[m].item = a)
  <2>1. CASE moving' = [moving EXCEPT ![m].at = "updated"]
    BY <1>1, <2>1 DEF Migrations
  <2>2. CASE Onward(m)
    BY <1>1, <2>2 DEF Onward, Migrations
  <2>3. QED
    BY <2>1, <2>2 DEF Update
<1> HIDE DEF a, to
<1>6. \A b \in Assets : home'[b] = IF b = a /\ state[a] # "none" THEN to ELSE home[b]
  BY <1>1, <1>4
<1>7. RowsInv'
  BY <1>1, <1>3, <1>4, <1>6 DEF RowsInv, RowsResolve, NoRowNoBlob, past
<1>8. PlanOwns(m)'
  <2>1. \A b \in moving[m].items : b \in Assets
    BY <1>1 DEF Migrations
  <2>2. \A b \in moving[m].items : home[b] # Unsent => home'[b] # Unsent
    BY <1>3, <1>6, <2>1
  <2>3. QED
    BY <1>1, <1>4, <1>5, <2>2, PlanKept DEF past
<1>9. home'[a] # moving[m].from
  <2>1. CASE state[a] = "none"
    BY <1>1, <1>2, <1>3, <1>6, <2>1, UnsentIsNoSink DEF RowsInv, NoRowNoBlob
  <2>2. CASE state[a] # "none"
    BY <1>2, <1>3, <1>6, <2>2
  <2>3. QED
    BY <2>1, <2>2
<1>10. Achieved(m)'
  BY <1>5, <1>9 DEF Achieved
<1>11. QED
  BY <1>7, <1>8, <1>10

\* The source is deleted when no row names it any more, but for a descriptor
\* that was delivered again.
LEMMA MigrationDrops ==
    ASSUME Inv, NEW m \in Migrators, DropSource(m)
    PROVE  RowsInv' /\ PlanOwns(m)' /\ Achieved(m)'
<1>1. /\ moving[m] \in Migrations /\ moving \in [Migrators -> Migrations]
      /\ moving[m].at = "updated" /\ PlanOwns(m) /\ Achieved(m) /\ RowsInv
  BY DEF Inv, PlansInv, TypeInv, MediaTypeOK, DropSource, Moving
<1>2. /\ UNCHANGED <<state, home, past>> /\ objects' \in {objects, objects \ {Source(m)}}
      /\ Onward(m)
  BY DEF DropSource, rows
<1>3. /\ moving'[m].items = moving[m].items /\ moving'[m].from = moving[m].from
      /\ moving'[m].to = moving[m].to /\ moving'[m].at = "next"
  BY <1>1, <1>2 DEF Onward, Migrations
<1>4. RowsInv'
  <2>1. ASSUME NEW b \in Assets, home[b] # Unsent
        PROVE  <<home[b], b>> \in objects' \/ (b \in dropped /\ home[b] = origin[b])
    <3>1. <<home[b], b>> \in objects \/ (b \in dropped /\ home[b] = origin[b])
      BY <1>1, <2>1 DEF RowsInv, RowsResolve
    <3>2. CASE <<home[b], b>> = Source(m)
      <4>1. home[b] = moving[m].from /\ b = moving[m].item
        BY <3>2 DEF Source
      <4>2. QED
        BY <1>1, <4>1 DEF Achieved
    <3>3. CASE <<home[b], b>> # Source(m)
      BY <1>2, <3>1, <3>3
    <3>4. QED
      BY <3>2, <3>3
  <2>2. QED
    BY <1>1, <1>2, <2>1 DEF RowsInv, RowsResolve, NoRowNoBlob, past
<1>5. PlanOwns(m)'
  BY <1>1, <1>2, <1>3, PlanKept DEF past
<1>6. Achieved(m)'
  BY <1>3 DEF Achieved
<1>7. QED
  BY <1>4, <1>5, <1>6

LEMMA RowsMigrate ==
    ASSUME Inv, NEW m \in Migrators, Migrate(m), \A n \in Migrators : n = m
    PROVE  RowsInv' /\ PlansInv'
<1> SUFFICES RowsInv' /\ PlanOwns(m)' /\ Achieved(m)'
  BY DEF PlansInv
<1>0. moving[m] \in Migrations /\ moving \in [Migrators -> Migrations]
  BY DEF Inv, TypeInv, MediaTypeOK
<1>1. CASE \E from \in Clouds, to \in Clouds : PlanMigration(m, from, to)
  BY <1>1, MigrationPlanned
<1>2. CASE Start(m) \/ Probe(m) \/ Fetch(m) \/ ItemFails(m) \/ EndMigration(m)
  <2>1. /\ moving'[m].items = moving[m].items /\ moving'[m].from = moving[m].from
        /\ moving'[m].to = moving[m].to
        /\ moving'[m].at \in {"idle", "next", "probed", "fetched"}
    <3>1. CASE Start(m)
      <4>1. PICK fate \in {"kept", "dropped"} :
               moving' = [moving EXCEPT ![m].at = "next", ![m].left = moving[m].items,
                                        ![m].source = fate]
        BY <3>1 DEF Start
      <4>2. QED
        BY <1>0, <4>1 DEF Migrations
    <3>2. CASE Probe(m)
      <4>1. PICK b \in moving[m].left :
               moving' = IF home[b] = moving[m].to
                         THEN [moving EXCEPT ![m].left = @ \ {b}]
                         ELSE [moving EXCEPT ![m].left = @ \ {b}, ![m].item = b,
                                             ![m].at = "probed"]
        BY <3>2 DEF Probe
      <4>2. moving[m].at = "next"
        BY <3>2 DEF Probe, Moving
      <4>3. QED
        BY <1>0, <4>1, <4>2 DEF Migrations
    <3>3. CASE Fetch(m) \/ EndMigration(m)
      BY <1>0, <3>3 DEF Fetch, EndMigration, Migrations
    <3>4. CASE ItemFails(m)
      BY <1>0, <3>4 DEF ItemFails, Onward, Migrations
    <3>5. QED
      BY <1>2, <3>1, <3>2, <3>3, <3>4
  <2>2. UNCHANGED <<state, home, objects, past>>
    BY <1>2 DEF Start, Probe, Fetch, ItemFails, EndMigration, rows
  <2>3. QED
    BY <2>1, <2>2, QuietMigration
<1>3. CASE Copy(m) \/ ReadBack(m)
  BY <1>3, MigrationCopied
<1>4. CASE Update(m)
  BY <1>4, MigrationUpdates
<1>5. CASE DropSource(m)
  BY <1>5, MigrationDrops
<1>6. QED
  BY <1>1, <1>2, <1>3, <1>4, <1>5 DEF Migrate

LEMMA RowsInit == Init => RowsInv /\ PlansInv
<1> SUFFICES ASSUME Init PROVE RowsInv /\ PlansInv
  OBVIOUS
<1>1. RowsInv
  BY DEF Init, RowsInv, RowsResolve, NoRowNoBlob
<1>2. NoMigration.items = {} /\ NoMigration.at = "idle"
  BY DEF NoMigration
<1>3. PlansInv
  BY <1>2 DEF Init, PlansInv, PlanOwns, Achieved
<1>4. QED
  BY <1>1, <1>3

LEMMA RowsStep ==
    ASSUME Inv, [Next]_vars, \A m, n \in Migrators : m = n
    PROVE  Inv'
<1>1. TypeInv'
  BY TypeInvStep DEF Inv
<1>2. CASE \E a \in Assets : Messages(a)
  BY <1>1, <1>2, RowsMessages DEF Inv
<1>3. CASE Grow \/ EnforceBudget \/ EnforceBudgetFails \/ \E v \in Viewers : View(v)
  BY <1>1, <1>3, RowsBudgetAndViews DEF Inv
<1>4. CASE \E m \in Migrators : Migrate(m)
  BY <1>1, <1>4, RowsMigrate DEF Inv
<1>5. CASE Crash
  <2>1. UNCHANGED <<message, state, home, objects, past>>
        /\ moving' = [m \in Migrators |-> NoMigration]
    BY <1>5 DEF Crash, rows
  <2>2. RowsInv'
    BY <2>1 DEF Inv, RowsInv, RowsResolve, NoRowNoBlob, past
  <2>3. NoMigration.items = {} /\ NoMigration.at = "idle"
    BY DEF NoMigration
  <2>4. PlansInv'
    BY <2>1, <2>3 DEF PlansInv, PlanOwns, Achieved
  <2>5. QED
    BY <1>1, <2>2, <2>4 DEF Inv
<1>6. CASE UNCHANGED vars
  <2>1. RowsInv'
    BY <1>6 DEF vars, rows, past, Inv, RowsInv, RowsResolve, NoRowNoBlob
  <2>2. PlansInv'
    BY <1>6 DEF vars, rows, past, Inv, PlansInv, PlanOwns, Achieved, Target
  <2>3. QED
    BY <1>1, <2>1, <2>2 DEF Inv
<1>7. QED
  BY <1>2, <1>3, <1>4, <1>5, <1>6 DEF Next

\* No original is lost: with at most one migration at a time, every row that
\* has left thumbnail_only names a blob, and the blob exists unless the row was
\* delivered again and still names what its sender stored, whatever is evicted,
\* fetched, deleted, copied, dropped at the source, retried from an old plan or
\* cut short by a crash.
THEOREM OriginalsResolve ==
    (\A m, n \in Migrators : m = n) => (Spec => []RowsResolve)
<1> SUFFICES ASSUME \A m, n \in Migrators : m = n PROVE Spec => []RowsResolve
  OBVIOUS
<1>1. Init => Inv
  BY TypeInvInit, RowsInit DEF Inv
<1>2. Inv /\ [Next]_vars => Inv'
  BY RowsStep
<1>3. Inv => RowsResolve
  BY DEF Inv, RowsInv
<1>4. QED
  BY <1>1, <1>2, <1>3, PTL DEF Spec
====
