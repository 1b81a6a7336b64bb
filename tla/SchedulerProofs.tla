--------------------------- MODULE SchedulerProofs ---------------------------
(***************************************************************************)
(* For every number of tasks, callers, workers and one-offs: a live worker *)
(* can always be found and joined, and an accepted one-off is in exactly   *)
(* one place. The typing invariant, which says what a caller may hold at   *)
(* each stage of a call, is inductive; the two others are inductive        *)
(* relative to it.                                                         *)
(***************************************************************************)
EXTENDS Scheduler, TLAPS

USE SchedulerAssumption

-----------------------------------------------------------------------------
(* Typing *)

\* A caller that goes on to a stage with what it needs stays well typed.
LEMMA GotoTyped ==
    ASSUME CallersTyped, NEW c \in Callers, NEW stage \in Stages, NEW what \in HeldType,
           Goto(c, stage, what),
           stage = "scheduling" => what.task \in Tasks,
           stage \in {"signalling", "joining"} => what.worker \in what.drained,
           what.drained # {} => stage \in {"cancelling", "signalling", "joining"},
           what.ready # {} => stage \in {"running", "returning"}
    PROVE  CallersTyped'
<1>1. /\ pc' = [pc EXCEPT ![c] = stage] /\ held' = [held EXCEPT ![c] = what]
      /\ pc \in [Callers -> Stages] /\ held \in [Callers -> HeldType]
  BY DEF Goto, CallersTyped
<1>2. pc' \in [Callers -> Stages] /\ held' \in [Callers -> HeldType]
  BY <1>1, Zenon
<1>3. ASSUME NEW d \in Callers
      PROVE  /\ pc'[d] = IF d = c THEN stage ELSE pc[d]
             /\ held'[d] = IF d = c THEN what ELSE held[d]
  BY <1>1
<1>4. QED
  BY <1>2, <1>3 DEF CallersTyped

LEMMA NothingTyped ==
    Nothing \in HeldType /\ Nothing.drained = {} /\ Nothing.ready = {}
  BY DEF Nothing, HeldType

\* A caller that returns holds nothing, which is all an idle caller needs.
LEMMA DoneTyped ==
    ASSUME CallersTyped, NEW c \in Callers, Done(c)
    PROVE  CallersTyped'
<1>1. "idle" \in Stages
  BY DEF Stages
<1>2. QED
  BY <1>1, NothingTyped, GotoTyped DEF Done

\* A worker's thread changes its phase and stays a thread.
LEMMA BecomeTyped ==
    ASSUME thread \in [Workers -> ThreadType], NEW w \in Workers, NEW phase \in Phases,
           Become(w, phase)
    PROVE  /\ thread' \in [Workers -> ThreadType]
           /\ \A v \in Workers : /\ thread'[v].task = thread[v].task
                                 /\ v # w => thread'[v] = thread[v]
           /\ thread'[w].phase = phase
  BY DEF Become, ThreadType

LEMMA TypeInit == Init => TypeOK
<1>. SUFFICES ASSUME Init PROVE TypeOK
  OBVIOUS
<1>1. workers \in [Tasks -> Workers \cup {None}] /\ runs \in [OneOffs -> Nat]
  BY DEF Init
<1>2. thread \in [Workers -> ThreadType]
  BY DEF Init, ThreadType, Phases
<1>3. pc \in [Callers -> Stages] /\ held \in [Callers -> HeldType]
  BY NothingTyped DEF Init, Stages
<1>4. \A c \in Callers : pc[c] = "idle" /\ held[c] = Nothing
  BY DEF Init
<1>5. CallersTyped
  BY <1>3, <1>4, NothingTyped DEF CallersTyped
<1>6. QED
  BY <1>1, <1>2, <1>5 DEF Init, TypeOK

\* Every step keeps the typing invariant.
LEMMA TypeNext == TypeOK /\ [Next]_vars => TypeOK'
<1>. SUFFICES ASSUME TypeOK, [Next]_vars PROVE TypeOK'
  OBVIOUS
<1>t. CallersTyped /\ pc \in [Callers -> Stages] /\ held \in [Callers -> HeldType]
  BY DEF TypeOK, CallersTyped
<1>1. ASSUME NEW c \in Callers, NEW t \in Tasks, SetHandler(c, t) PROVE TypeOK'
  BY <1>1 DEF SetHandler, TypeOK, CallersTyped, oneoff, callers
<1>2. ASSUME NEW c \in Callers, NEW t \in Tasks, Lookup(c, t) PROVE TypeOK'
  <2>. DEFINE what == [Nothing EXCEPT !.task = t, !.handler = t \in handlers]
  <2>1. /\ what \in HeldType /\ what.task = t /\ what.drained = {} /\ what.ready = {}
        /\ "scheduling" \in Stages /\ Goto(c, "scheduling", what)
    <3>1. \A h \in BOOLEAN :
            LET it == [Nothing EXCEPT !.task = t, !.handler = h]
            IN  it \in HeldType /\ it.task = t /\ it.drained = {} /\ it.ready = {}
      BY DEF Nothing, HeldType
    <3>2. (t \in handlers) \in BOOLEAN
      OBVIOUS
    <3>3. what \in HeldType /\ what.task = t /\ what.drained = {} /\ what.ready = {}
      BY <3>1, <3>2, Zenon
    <3>. QED  BY <1>2, <3>3 DEF Lookup, Stages
  <2>2. CallersTyped'
    <3>. HIDE DEF what
    <3>. QED  BY <1>t, <2>1, GotoTyped
  <2>. QED  BY <1>2, <2>2 DEF Lookup, TypeOK, recurring, oneoff
<1>3. ASSUME NEW c \in Callers, Spawn(c) PROVE TypeOK'
  <2>1. CallersTyped'
    BY <1>3, <1>t, DoneTyped DEF Spawn
  <2>2. CASE UNCHANGED <<workers, thread>>
    BY <1>3, <2>1, <2>2 DEF Spawn, TypeOK, oneoff
  <2>3. ASSUME NEW w \in Workers, StartWorker(w, held[c].task, held[c].handler),
               pc[c] = "scheduling"
        PROVE  /\ workers' \in [Tasks -> Workers \cup {None}]
               /\ thread' \in [Workers -> ThreadType]
    <3>1. held[c].task \in Tasks /\ held[c].handler \in BOOLEAN
      BY <1>t, <2>3 DEF CallersTyped, HeldType
    <3>2. [task |-> held[c].task, handler |-> held[c].handler, shutdown |-> FALSE,
           phase |-> "awake"] \in ThreadType
      BY <3>1 DEF ThreadType, Phases
    <3>. QED  BY <2>3, <3>1, <3>2 DEF StartWorker, TypeOK
  <2>. QED  BY <1>3, <2>1, <2>2, <2>3 DEF Spawn, TypeOK, oneoff
<1>4. ASSUME NEW w \in Workers, Check(w) PROVE TypeOK'
  <2>1. PICK phase \in Phases : Become(w, phase)
    BY <1>4 DEF Check, Phases
  <2>. QED
    BY <1>4, <2>1, BecomeTyped DEF Check, TypeOK, CallersTyped, oneoff, callers
<1>5. ASSUME NEW w \in Workers, Timeout(w) PROVE TypeOK'
  <2>1. PICK phase \in Phases : Become(w, phase)
    BY <1>5 DEF Timeout, Phases
  <2>. QED
    BY <1>5, <2>1, BecomeTyped DEF Timeout, TypeOK, CallersTyped, oneoff, callers
<1>6. ASSUME NEW w \in Workers, HandlerEnds(w) PROVE TypeOK'
  <2>1. PICK phase \in Phases : Become(w, phase)
    BY <1>6 DEF HandlerEnds, Phases
  <2>. QED
    BY <1>6, <2>1, BecomeTyped DEF HandlerEnds, TypeOK, CallersTyped, oneoff, callers
<1>7. ASSUME NEW c \in Callers, CancelDrain(c) PROVE TypeOK'
  <2>1. CASE Registered = {}
    BY <1>7, <1>t, <2>1, DoneTyped DEF CancelDrain, TypeOK, oneoff
  <2>2. CASE Registered # {}
    <3>. DEFINE what == [Nothing EXCEPT !.drained = Registered]
    <3>1. Registered \subseteq Workers
      BY DEF Registered, TypeOK
    <3>2. /\ what \in HeldType /\ what.ready = {}
          /\ "cancelling" \in Stages /\ Goto(c, "cancelling", what)
      BY <1>7, <2>2, <3>1 DEF CancelDrain, Nothing, HeldType, Stages
    <3>3. CallersTyped'
      <4>. HIDE DEF what
      <4>. QED  BY <1>t, <3>2, GotoTyped
    <3>. QED  BY <1>7, <3>3 DEF CancelDrain, TypeOK, oneoff
  <2>. QED  BY <2>1, <2>2
<1>8. ASSUME NEW c \in Callers, CancelFlag(c) PROVE TypeOK'
  <2>1. PICK w \in held[c].drained :
            /\ thread' = [thread EXCEPT ![w].shutdown = TRUE]
            /\ Goto(c, "signalling", [held[c] EXCEPT !.worker = w])
    BY <1>8 DEF CancelFlag
  <2>. DEFINE what == [held[c] EXCEPT !.worker = w]
  <2>2. held[c] \in HeldType /\ held[c].ready = {}
    BY <1>8, <1>t DEF CancelFlag, CallersTyped
  <2>3. /\ what \in HeldType /\ what.ready = {} /\ what.worker \in what.drained
        /\ w \in Workers /\ "signalling" \in Stages
    BY <2>1, <2>2 DEF HeldType, Stages
  <2>4. CallersTyped'
    <3>1. Goto(c, "signalling", what)
      BY <2>1
    <3>. HIDE DEF what
    <3>. QED  BY <1>t, <2>3, <3>1, GotoTyped
  <2>5. thread' \in [Workers -> ThreadType]
    BY <2>1, <2>3 DEF TypeOK, ThreadType
  <2>. QED  BY <1>8, <2>4, <2>5 DEF CancelFlag, TypeOK, oneoff
<1>9. ASSUME NEW c \in Callers, CancelNotify(c) PROVE TypeOK'
  <2>1. /\ held[c] \in HeldType /\ held[c].ready = {} /\ held[c].worker \in held[c].drained
        /\ held[c].worker \in Workers /\ "joining" \in Stages /\ "awake" \in Phases
    BY <1>9, <1>t DEF CancelNotify, CallersTyped, HeldType, Stages, Phases
  <2>2. CallersTyped'
    BY <1>9, <1>t, <2>1, GotoTyped DEF CancelNotify
  <2>3. thread' \in [Workers -> ThreadType]
    BY <1>9, <2>1, BecomeTyped DEF CancelNotify, TypeOK
  <2>. QED  BY <1>9, <2>2, <2>3 DEF CancelNotify, TypeOK, oneoff
<1>10. ASSUME NEW c \in Callers, CancelJoin(c) PROVE TypeOK'
  <2>1. CASE held[c].drained = {held[c].worker}
    BY <1>10, <1>t, <2>1, DoneTyped DEF CancelJoin, TypeOK, recurring, oneoff
  <2>2. CASE held[c].drained # {held[c].worker}
    <3>. DEFINE what == [held[c] EXCEPT !.drained = @ \ {held[c].worker}, !.worker = None]
    <3>1. held[c] \in HeldType /\ held[c].ready = {}
      BY <1>10, <1>t DEF CancelJoin, CallersTyped
    <3>2. what \in HeldType /\ what.ready = {} /\ "cancelling" \in Stages
      BY <3>1 DEF HeldType, Stages
    <3>3. Goto(c, "cancelling", what)
      BY <1>10, <2>2 DEF CancelJoin
    <3>4. CallersTyped'
      <4>. HIDE DEF what
      <4>. QED  BY <1>t, <3>2, <3>3, GotoTyped
    <3>. QED  BY <1>10, <3>4 DEF CancelJoin, TypeOK, recurring, oneoff
  <2>. QED  BY <2>1, <2>2
<1>11. ASSUME NEW c \in Callers, SetOneOffHandler(c) PROVE TypeOK'
  BY <1>11 DEF SetOneOffHandler, TypeOK, CallersTyped, recurring, callers
<1>12. ASSUME NEW c \in Callers, NEW o \in OneOffs, Enqueue(c, o) PROVE TypeOK'
  BY <1>12 DEF Enqueue, TypeOK, CallersTyped, recurring, callers
<1>13. ASSUME NEW c \in Callers, ReadOneOffHandler(c) PROVE TypeOK'
  <2>. DEFINE what == [Nothing EXCEPT !.handler = offHandler]
  <2>1. /\ what \in HeldType /\ what.drained = {} /\ what.ready = {}
        /\ "draining" \in Stages /\ Goto(c, "draining", what)
    BY <1>13 DEF ReadOneOffHandler, Nothing, HeldType, Stages, TypeOK
  <2>2. CallersTyped'
    <3>. HIDE DEF what
    <3>. QED  BY <1>t, <2>1, GotoTyped
  <2>. QED  BY <1>13, <2>2 DEF ReadOneOffHandler, TypeOK, recurring, oneoff
<1>14. ASSUME NEW c \in Callers, Partition(c) PROVE TypeOK'
  <2>1. PICK ready \in SUBSET queue :
            /\ queue' = queue \ ready
            /\ IF ready = {}
               THEN Done(c)
               ELSE Goto(c, IF held[c].handler THEN "running" ELSE "returning",
                         [held[c] EXCEPT !.ready = ready])
    BY <1>14 DEF Partition
  <2>. DEFINE what == [held[c] EXCEPT !.ready = ready]
              stage == IF held[c].handler THEN "running" ELSE "returning"
  <2>2. held[c] \in HeldType /\ held[c].drained = {}
    BY <1>14, <1>t DEF Partition, CallersTyped
  <2>3. what \in HeldType /\ what.drained = {}
    BY <2>2 DEF HeldType, TypeOK
  <2>4. stage \in Stages /\ stage \in {"running", "returning"}
    BY DEF Stages
  <2>5. CallersTyped'
    <3>1. CASE ready = {}
      BY <1>t, <2>1, <3>1, DoneTyped
    <3>2. CASE ready # {}
      <4>1. Goto(c, stage, what)
        BY <2>1, <3>2
      <4>. HIDE DEF what, stage
      <4>. QED  BY <1>t, <2>3, <2>4, <4>1, GotoTyped
    <3>. QED  BY <3>1, <3>2
  <2>. QED  BY <1>14, <2>1, <2>5 DEF Partition, TypeOK, recurring
<1>15. ASSUME NEW c \in Callers, RunOneOff(c) PROVE TypeOK'
  <2>1. PICK o \in held[c].ready :
          LET rest == held[c].ready \ {o}
          IN  /\ runs' = [runs EXCEPT ![o] = @ + 1]
              /\ \/ /\ IF rest = {} THEN Done(c)
                                   ELSE Goto(c, "running", [held[c] EXCEPT !.ready = rest])
                    /\ UNCHANGED dropped
                 \/ Done(c) /\ dropped' = dropped \cup rest
    BY <1>15 DEF RunOneOff
  <2>. DEFINE rest == held[c].ready \ {o}
              what == [held[c] EXCEPT !.ready = rest]
  <2>2. held[c] \in HeldType /\ held[c].drained = {}
    BY <1>15, <1>t DEF RunOneOff, CallersTyped
  <2>3. /\ what \in HeldType /\ what.drained = {} /\ "running" \in Stages
        /\ o \in OneOffs /\ rest \subseteq OneOffs
    BY <2>2 DEF HeldType, Stages
  <2>4. Done(c) \/ Goto(c, "running", what)
    BY <2>1
  <2>5. CallersTyped'
    <3>. HIDE DEF what
    <3>. QED  BY <1>t, <2>3, <2>4, GotoTyped, DoneTyped
  <2>6. runs' \in [OneOffs -> Nat] /\ dropped' \subseteq OneOffs
    BY <2>1, <2>3 DEF TypeOK
  <2>. QED  BY <1>15, <2>5, <2>6 DEF RunOneOff, TypeOK, recurring
<1>16. ASSUME NEW c \in Callers, PushBack(c) PROVE TypeOK'
  <2>1. CallersTyped'
    BY <1>16, <1>t, DoneTyped DEF PushBack
  <2>2. held[c].ready \subseteq OneOffs
    BY <1>t DEF HeldType
  <2>. QED  BY <1>16, <2>1, <2>2 DEF PushBack, TypeOK, recurring
<1>17. CASE UNCHANGED vars
  BY <1>17 DEF vars, recurring, oneoff, callers, TypeOK, CallersTyped
<1>. QED
  BY <1>1, <1>2, <1>3, <1>4, <1>5, <1>6, <1>7, <1>8, <1>9, <1>10, <1>11, <1>12,
     <1>13, <1>14, <1>15, <1>16, <1>17 DEF Next

\* Each variable keeps its type and a caller holds what its stage needs.
THEOREM SchedulerTyped == Spec => []TypeOK
  BY TypeInit, TypeNext, PTL DEF Spec

-----------------------------------------------------------------------------
(* Workers can be found *)

\* What each caller holds after one of them went on.
LEMMA GotoHolds ==
    ASSUME CallersTyped, NEW c \in Callers, NEW stage, NEW what, Goto(c, stage, what)
    PROVE  \A d \in Callers : held'[d] = IF d = c THEN what ELSE held[d]
  BY DEF Goto, CallersTyped

\* No worker comes to life, and no handle is given up.
LEMMA ReachFrame ==
    ASSUME WorkersAreReachable, UNCHANGED workers,
           \A w \in Workers : /\ thread'[w].task = thread[w].task
                              /\ Alive(w)' => Alive(w),
           \A w \in Workers, c \in Callers :
               Alive(w) /\ w \in held[c].drained => w \in held'[c].drained \/ ~Alive(w)'
    PROVE  WorkersAreReachable'
  BY DEF WorkersAreReachable

LEMMA ReachInit == Init => WorkersAreReachable
  BY DEF Init, WorkersAreReachable, Alive

\* Steps that leave the threads alone, made by a caller that drained nothing.
LEMMA ReachIdle ==
    ASSUME TypeOK, WorkersAreReachable, UNCHANGED <<workers, thread>>,
           NEW c \in Callers, NEW stage, NEW what, Goto(c, stage, what),
           pc[c] \notin {"cancelling", "signalling", "joining"}
    PROVE  WorkersAreReachable'
<1>1. held[c].drained = {}
  BY DEF TypeOK, CallersTyped
<1>2. \A d \in Callers : held'[d] = IF d = c THEN what ELSE held[d]
  BY GotoHolds DEF TypeOK
<1>3. QED
  BY <1>1, <1>2, ReachFrame DEF Alive

LEMMA ReachNext == TypeOK /\ WorkersAreReachable /\ [Next]_vars => WorkersAreReachable'
<1>. SUFFICES ASSUME TypeOK, WorkersAreReachable, [Next]_vars PROVE WorkersAreReachable'
  OBVIOUS
<1>t. CallersTyped /\ thread \in [Workers -> ThreadType]
  BY DEF TypeOK
<1>1. ASSUME NEW c \in Callers, NEW t \in Tasks, SetHandler(c, t) PROVE WorkersAreReachable'
  BY <1>1, ReachFrame DEF SetHandler, callers, Alive
<1>2. ASSUME NEW c \in Callers, NEW t \in Tasks, Lookup(c, t) PROVE WorkersAreReachable'
  BY <1>2, ReachIdle DEF Lookup, recurring
<1>3. ASSUME NEW c \in Callers, Spawn(c) PROVE WorkersAreReachable'
  <2>1. CASE UNCHANGED <<workers, thread>>
    BY <1>3, <2>1, ReachIdle DEF Spawn, Done
  <2>2. ASSUME workers[held[c].task] = None,
               NEW w \in Workers, StartWorker(w, held[c].task, held[c].handler)
        PROVE  WorkersAreReachable'
    <3>. DEFINE t == held[c].task
    <3>1. t \in Tasks
      BY <1>3, <1>t DEF Spawn, CallersTyped
    <3>2. /\ thread'[w].task = t
          /\ \A v \in Workers : v # w => thread'[v] = thread[v]
          /\ workers'[t] = w
          /\ \A u \in Tasks : u # t => workers'[u] = workers[u]
      BY <1>t, <2>2, <3>1 DEF StartWorker, TypeOK
    <3>3. held[c].drained = {}
      BY <1>3, <1>t DEF Spawn, CallersTyped
    <3>4. \A d \in Callers : d # c => held'[d] = held[d]
      BY <1>3, <1>t, GotoHolds DEF Spawn, Done
    <3>5. ASSUME NEW v \in Workers, v # w, Alive(v)
          PROVE  \/ thread[v].task \in Tasks \ {t} /\ workers[thread[v].task] = v
                 \/ \E d \in Callers \ {c} : v \in held[d].drained
      BY <2>2, <3>3, <3>5 DEF WorkersAreReachable
    <3>. QED  BY <3>1, <3>2, <3>4, <3>5 DEF WorkersAreReachable, Alive
  <2>. QED  BY <1>3, <2>1, <2>2 DEF Spawn
<1>4. ASSUME NEW w \in Workers, Check(w) PROVE WorkersAreReachable'
  <2>1. PICK phase \in Phases : Become(w, phase)
    BY <1>4 DEF Check, Phases
  <2>. QED  BY <1>4, <1>t, <2>1, BecomeTyped, ReachFrame DEF Check, callers, Alive
<1>5. ASSUME NEW w \in Workers, Timeout(w) PROVE WorkersAreReachable'
  <2>1. PICK phase \in Phases : Become(w, phase)
    BY <1>5 DEF Timeout, Phases
  <2>. QED  BY <1>5, <1>t, <2>1, BecomeTyped, ReachFrame DEF Timeout, callers, Alive
<1>6. ASSUME NEW w \in Workers, HandlerEnds(w) PROVE WorkersAreReachable'
  <2>1. PICK phase \in Phases : Become(w, phase)
    BY <1>6 DEF HandlerEnds, Phases
  <2>. QED  BY <1>6, <1>t, <2>1, BecomeTyped, ReachFrame DEF HandlerEnds, callers, Alive
<1>7. ASSUME NEW c \in Callers, CancelDrain(c) PROVE WorkersAreReachable'
  <2>1. held[c].drained = {}
    BY <1>7, <1>t DEF CancelDrain, CallersTyped
  <2>2. \A d \in Callers : d # c => held'[d] = held[d]
    BY <1>7, <1>t, GotoHolds DEF CancelDrain, Done
  <2>3. held'[c].drained = Registered
    BY <1>7, <1>t, GotoHolds DEF CancelDrain, Done, Nothing
  <2>4. \A t \in Tasks, w \in Workers : workers[t] = w => w \in Registered
    BY DEF Registered
  <2>. QED  BY <1>7, <2>1, <2>2, <2>3, <2>4 DEF CancelDrain, WorkersAreReachable, Alive
<1>8. ASSUME NEW c \in Callers, CancelFlag(c) PROVE WorkersAreReachable'
  <2>1. PICK w \in held[c].drained :
            /\ thread' = [thread EXCEPT ![w].shutdown = TRUE]
            /\ Goto(c, "signalling", [held[c] EXCEPT !.worker = w])
    BY <1>8 DEF CancelFlag
  <2>2. held[c] \in HeldType
    BY <1>t DEF CallersTyped
  <2>3. \A d \in Callers : held'[d].drained = held[d].drained
    BY <1>t, <2>1, <2>2, GotoHolds DEF HeldType
  <2>4. \A v \in Workers : thread'[v].task = thread[v].task /\ thread'[v].phase = thread[v].phase
    BY <1>t, <2>1 DEF ThreadType
  <2>. QED  BY <1>8, <2>3, <2>4, ReachFrame DEF CancelFlag, Alive
<1>9. ASSUME NEW c \in Callers, CancelNotify(c) PROVE WorkersAreReachable'
  <2>1. held[c].worker \in Workers /\ "awake" \in Phases
    BY <1>9, <1>t DEF CancelNotify, CallersTyped, HeldType, Phases
  <2>2. \A d \in Callers : held'[d] = held[d]
    BY <1>9, <1>t, GotoHolds DEF CancelNotify
  <2>3. \A v \in Workers : thread'[v].task = thread[v].task /\ (Alive(v)' => Alive(v))
    BY <1>9, <1>t, <2>1, BecomeTyped DEF CancelNotify, Alive
  <2>. QED  BY <1>9, <2>2, <2>3, ReachFrame DEF CancelNotify
<1>10. ASSUME NEW c \in Callers, CancelJoin(c) PROVE WorkersAreReachable'
  <2>1. ~Alive(held[c].worker)
    BY <1>10 DEF CancelJoin, Alive
  <2>2. held[c] \in HeldType
    BY <1>t DEF CallersTyped
  <2>3. \A d \in Callers : d # c => held'[d] = held[d]
    BY <1>10, <1>t, GotoHolds DEF CancelJoin, Done
  <2>4. held'[c].drained = held[c].drained \ {held[c].worker}
    <3>1. CASE held[c].drained = {held[c].worker}
      <4>1. held'[c] = Nothing
        BY <1>10, <1>t, <3>1, GotoHolds DEF CancelJoin, Done
      <4>. QED  BY <3>1, <4>1, NothingTyped
    <3>2. CASE held[c].drained # {held[c].worker}
      <4>1. held'[c] = [held[c] EXCEPT !.drained = @ \ {held[c].worker}, !.worker = None]
        BY <1>10, <1>t, <3>2, GotoHolds DEF CancelJoin
      <4>. QED  BY <2>2, <4>1 DEF HeldType
    <3>. QED  BY <3>1, <3>2
  <2>. QED  BY <1>10, <2>1, <2>3, <2>4, ReachFrame DEF CancelJoin, recurring, Alive
<1>11. ASSUME NEW c \in Callers, SetOneOffHandler(c) PROVE WorkersAreReachable'
  BY <1>11, ReachFrame DEF SetOneOffHandler, recurring, callers, Alive
<1>12. ASSUME NEW c \in Callers, NEW o \in OneOffs, Enqueue(c, o) PROVE WorkersAreReachable'
  BY <1>12, ReachFrame DEF Enqueue, recurring, callers, Alive
<1>13. ASSUME NEW c \in Callers, ReadOneOffHandler(c) PROVE WorkersAreReachable'
  BY <1>13, ReachIdle DEF ReadOneOffHandler, recurring
<1>14. ASSUME NEW c \in Callers, Partition(c) PROVE WorkersAreReachable'
  BY <1>14, ReachIdle DEF Partition, Done, recurring
<1>15. ASSUME NEW c \in Callers, RunOneOff(c) PROVE WorkersAreReachable'
  BY <1>15, ReachIdle DEF RunOneOff, Done, recurring
<1>16. ASSUME NEW c \in Callers, PushBack(c) PROVE WorkersAreReachable'
  BY <1>16, ReachIdle DEF PushBack, Done, recurring
<1>17. CASE UNCHANGED vars
  BY <1>17, ReachFrame DEF vars, recurring, oneoff, callers, Alive
<1>. QED
  BY <1>1, <1>2, <1>3, <1>4, <1>5, <1>6, <1>7, <1>8, <1>9, <1>10, <1>11, <1>12,
     <1>13, <1>14, <1>15, <1>16, <1>17 DEF Next

\* No interleaving of schedule_* and cancel_all orphans a live worker.
THEOREM NoWorkerIsOrphaned == Spec => []WorkersAreReachable
<1>1. TypeOK /\ WorkersAreReachable /\ [Next]_vars => (TypeOK /\ WorkersAreReachable)'
  BY TypeNext, ReachNext
<1>. QED  BY <1>1, TypeInit, ReachInit, PTL DEF Spec

-----------------------------------------------------------------------------
(* Each one-off is in one place *)

\* No one-off moves.
LEMMA OneOffsFrame ==
    ASSUME OneOffsRunOnce, UNCHANGED oneoff,
           \A c \in Callers : held'[c].ready = held[c].ready
    PROVE  OneOffsRunOnce'
  BY DEF OneOffsRunOnce, Holders, oneoff

LEMMA OneOffsInit == Init => OneOffsRunOnce
<1>. SUFFICES ASSUME Init PROVE OneOffsRunOnce
  OBVIOUS
<1>1. \A c \in Callers : held[c].ready = {}
  BY NothingTyped DEF Init
<1>2. queue = {} /\ enqueued = {} /\ dropped = {} /\ \A o \in OneOffs : runs[o] = 0
  BY DEF Init
<1>. QED  BY <1>1, <1>2 DEF OneOffsRunOnce, Holders

\* Steps of a call that is not about one-offs.
LEMMA OneOffsIdle ==
    ASSUME TypeOK, OneOffsRunOnce, UNCHANGED oneoff,
           NEW c \in Callers, NEW stage, NEW what, Goto(c, stage, what),
           what.ready = {},
           pc[c] \notin {"running", "returning"}
    PROVE  OneOffsRunOnce'
<1>1. held[c].ready = {}
  BY DEF TypeOK, CallersTyped
<1>2. \A d \in Callers : held'[d] = IF d = c THEN what ELSE held[d]
  BY GotoHolds DEF TypeOK
<1>. QED  BY <1>1, <1>2, OneOffsFrame

\* A caller whose call ended holds nothing, the others what they held.
LEMMA DoneHolds ==
    ASSUME CallersTyped, NEW c \in Callers, Done(c)
    PROVE  \A d \in Callers : held'[d].ready = IF d = c THEN {} ELSE held[d].ready
  BY GotoHolds, NothingTyped DEF Done

LEMMA OneOffsNext == TypeOK /\ OneOffsRunOnce /\ [Next]_vars => OneOffsRunOnce'
<1>. SUFFICES ASSUME TypeOK, OneOffsRunOnce, [Next]_vars PROVE OneOffsRunOnce'
  OBVIOUS
<1>t. CallersTyped /\ runs \in [OneOffs -> Nat] /\ \A c \in Callers : held[c] \in HeldType
  BY DEF TypeOK, CallersTyped
<1>1. ASSUME NEW c \in Callers, NEW t \in Tasks, SetHandler(c, t) PROVE OneOffsRunOnce'
  BY <1>1, OneOffsFrame DEF SetHandler, callers
<1>2. ASSUME NEW c \in Callers, NEW t \in Tasks, Lookup(c, t) PROVE OneOffsRunOnce'
  <2>1. [Nothing EXCEPT !.task = t, !.handler = t \in handlers].ready = {}
    BY DEF Nothing
  <2>. QED  BY <1>2, <2>1, OneOffsIdle DEF Lookup
<1>3. ASSUME NEW c \in Callers, Spawn(c) PROVE OneOffsRunOnce'
  BY <1>3, NothingTyped, OneOffsIdle DEF Spawn, Done
<1>4. ASSUME NEW w \in Workers, Check(w) \/ Timeout(w) \/ HandlerEnds(w) PROVE OneOffsRunOnce'
  BY <1>4, OneOffsFrame DEF Check, Timeout, HandlerEnds, callers
<1>5. ASSUME NEW c \in Callers, CancelDrain(c) PROVE OneOffsRunOnce'
  <2>1. [Nothing EXCEPT !.drained = Registered].ready = {}
    BY DEF Nothing
  <2>. QED  BY <1>5, <2>1, NothingTyped, OneOffsIdle DEF CancelDrain, Done
<1>6. ASSUME NEW c \in Callers, CancelFlag(c) PROVE OneOffsRunOnce'
  <2>1. PICK w : Goto(c, "signalling", [held[c] EXCEPT !.worker = w])
    BY <1>6 DEF CancelFlag
  <2>2. [held[c] EXCEPT !.worker = w].ready = {}
    BY <1>6, <1>t DEF CancelFlag, CallersTyped, HeldType
  <2>. QED  BY <1>6, <2>1, <2>2, OneOffsIdle DEF CancelFlag
<1>7. ASSUME NEW c \in Callers, CancelNotify(c) PROVE OneOffsRunOnce'
  <2>1. held[c].ready = {}
    BY <1>7, <1>t DEF CancelNotify, CallersTyped
  <2>. QED  BY <1>7, <2>1, OneOffsIdle DEF CancelNotify
<1>8. ASSUME NEW c \in Callers, CancelJoin(c) PROVE OneOffsRunOnce'
  <2>1. [held[c] EXCEPT !.drained = @ \ {held[c].worker}, !.worker = None].ready = {}
    BY <1>8, <1>t DEF CancelJoin, CallersTyped, HeldType
  <2>. QED  BY <1>8, <2>1, NothingTyped, OneOffsIdle DEF CancelJoin, Done
<1>9. ASSUME NEW c \in Callers, SetOneOffHandler(c) PROVE OneOffsRunOnce'
  BY <1>9 DEF SetOneOffHandler, callers, OneOffsRunOnce, Holders
<1>10. ASSUME NEW c \in Callers, NEW o \in OneOffs, Enqueue(c, o) PROVE OneOffsRunOnce'
  <2>1. \A p \in OneOffs : Holders(p)' = Holders(p)
    BY <1>10 DEF Enqueue, callers, Holders
  <2>2. o \notin queue /\ o \notin dropped /\ Holders(o) = {} /\ runs[o] = 0
    BY <1>10 DEF Enqueue, OneOffsRunOnce
  <2>. QED  BY <1>10, <2>1, <2>2 DEF Enqueue, OneOffsRunOnce
<1>11. ASSUME NEW c \in Callers, ReadOneOffHandler(c) PROVE OneOffsRunOnce'
  <2>1. [Nothing EXCEPT !.handler = offHandler].ready = {}
    BY DEF Nothing
  <2>. QED  BY <1>11, <2>1, OneOffsIdle DEF ReadOneOffHandler
<1>12. ASSUME NEW c \in Callers, Partition(c) PROVE OneOffsRunOnce'
  <2>1. PICK ready \in SUBSET queue :
            /\ queue' = queue \ ready
            /\ IF ready = {}
               THEN Done(c)
               ELSE Goto(c, IF held[c].handler THEN "running" ELSE "returning",
                         [held[c] EXCEPT !.ready = ready])
    BY <1>12 DEF Partition
  <2>2. held[c].ready = {}
    BY <1>12, <1>t DEF Partition, CallersTyped
  <2>3. \A d \in Callers : held'[d].ready = IF d = c THEN ready ELSE held[d].ready
    <3>1. CASE ready = {}
      BY <1>t, <2>1, <3>1, DoneHolds
    <3>2. CASE ready # {}
      BY <1>t, <2>1, <3>2, GotoHolds DEF HeldType
    <3>. QED  BY <3>1, <3>2
  <2>4. \A o \in OneOffs : Holders(o)' = IF o \in ready THEN {c} ELSE Holders(o)
    <3>1. \A o \in ready : Holders(o) = {}
      BY DEF OneOffsRunOnce, TypeOK
    <3>. QED  BY <2>2, <2>3, <3>1 DEF Holders
  <2>. QED  BY <1>12, <2>1, <2>4 DEF Partition, OneOffsRunOnce
<1>13. ASSUME NEW c \in Callers, RunOneOff(c) PROVE OneOffsRunOnce'
  <2>1. PICK o \in held[c].ready :
          LET rest == held[c].ready \ {o}
          IN  /\ runs' = [runs EXCEPT ![o] = @ + 1]
              /\ \/ /\ IF rest = {} THEN Done(c)
                                   ELSE Goto(c, "running", [held[c] EXCEPT !.ready = rest])
                    /\ UNCHANGED dropped
                 \/ Done(c) /\ dropped' = dropped \cup rest
    BY <1>13 DEF RunOneOff
  <2>. DEFINE rest == held[c].ready \ {o}
  <2>2. o \in OneOffs /\ rest \subseteq OneOffs
    BY <1>t DEF HeldType
  <2>3. \A p \in held[c].ready : /\ Holders(p) = {c} /\ p \notin queue /\ p \notin dropped
                                 /\ p \in enqueued /\ runs[p] = 0
    BY <2>2 DEF OneOffsRunOnce, Holders
  <2>4. \A p \in OneOffs : runs'[p] = IF p = o THEN 1 ELSE runs[p]
    BY <1>t, <2>1, <2>2, <2>3
  <2>5. CASE Done(c) /\ dropped' = dropped \cup rest
    <3>1. \A p \in OneOffs : Holders(p)' = IF p \in held[c].ready THEN {} ELSE Holders(p)
      BY <1>t, <2>3, <2>5, DoneHolds DEF Holders
    <3>. QED  BY <1>13, <2>2, <2>3, <2>4, <2>5, <3>1 DEF RunOneOff, OneOffsRunOnce
  <2>6. CASE /\ IF rest = {} THEN Done(c)
                             ELSE Goto(c, "running", [held[c] EXCEPT !.ready = rest])
             /\ UNCHANGED dropped
    <3>1. \A d \in Callers : held'[d].ready = IF d = c THEN rest ELSE held[d].ready
      <4>1. CASE rest = {}
        BY <1>t, <2>6, <4>1, DoneHolds
      <4>2. CASE rest # {}
        <5>1. \A d \in Callers :
                 held'[d] = IF d = c THEN [held[c] EXCEPT !.ready = rest] ELSE held[d]
          BY <1>t, <2>6, <4>2, GotoHolds
        <5>2. [held[c] EXCEPT !.ready = rest].ready = rest
          BY <1>t DEF HeldType
        <5>. QED  BY <5>1, <5>2
      <4>. QED  BY <4>1, <4>2
    <3>2. \A p \in OneOffs : Holders(p)' = IF p = o THEN {} ELSE Holders(p)
      BY <2>3, <3>1 DEF Holders
    <3>. QED  BY <1>13, <2>2, <2>3, <2>4, <2>6, <3>2 DEF RunOneOff, OneOffsRunOnce
  <2>. QED  BY <2>1, <2>5, <2>6
<1>14. ASSUME NEW c \in Callers, PushBack(c) PROVE OneOffsRunOnce'
  <2>1. \A d \in Callers : held'[d].ready = IF d = c THEN {} ELSE held[d].ready
    BY <1>14, <1>t, DoneHolds DEF PushBack
  <2>2. \A p \in held[c].ready : /\ Holders(p) = {c} /\ p \notin queue /\ p \notin dropped
                                 /\ p \in enqueued /\ runs[p] = 0
    BY <1>t DEF OneOffsRunOnce, Holders, HeldType
  <2>3. \A p \in OneOffs : Holders(p)' = IF p \in held[c].ready THEN {} ELSE Holders(p)
    BY <2>1, <2>2 DEF Holders
  <2>. QED  BY <1>14, <2>2, <2>3 DEF PushBack, OneOffsRunOnce
<1>15. CASE UNCHANGED vars
  BY <1>15, OneOffsFrame DEF vars, callers
<1>. QED
  BY <1>1, <1>2, <1>3, <1>4, <1>5, <1>6, <1>7, <1>8, <1>9, <1>10,
     <1>11, <1>12, <1>13, <1>14, <1>15 DEF Next

\* An accepted one-off is never lost and never run twice.
THEOREM OneOffsAreNeverLostNorRepeated == Spec => []OneOffsRunOnce
<1>1. TypeOK /\ OneOffsRunOnce /\ [Next]_vars => (TypeOK /\ OneOffsRunOnce)'
  BY TypeNext, OneOffsNext
<1>. QED  BY <1>1, TypeInit, OneOffsInit, PTL DEF Spec
=============================================================================
