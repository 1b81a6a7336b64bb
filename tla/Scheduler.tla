----------------------------- MODULE Scheduler -----------------------------
(***************************************************************************)
(* The in-process background scheduler: one worker thread per recurring    *)
(* task that sleeps on a condition variable between runs of its handler,   *)
(* cancel_all, which signals and joins the workers, and the queue of       *)
(* one-off tasks that waits for the device to satisfy their constraints.   *)
(*                                                                         *)
(* Every lock the code takes (handlers, workers, a worker's own state, the *)
(* one-off queue and its handler) is held for one step. Time is not kept:  *)
(* an interval may elapse at any moment, or never.                         *)
(***************************************************************************)
EXTENDS Naturals

CONSTANTS
    Tasks,      \* TaskTypes that are scheduled
    Callers,    \* threads of the host that call the scheduler
    Workers,    \* bound: worker threads the process ever spawns
    OneOffs,    \* bound: one-off tasks the host ever enqueues, all distinct
    None        \* no worker, no task

ASSUME SchedulerAssumption == None \notin Workers \cup Tasks

VARIABLES
    handlers,   \* tasks with a registered TaskHandler
    workers,    \* [Tasks -> the WorkerHandle in the map, or None]
    thread,     \* [Workers -> the worker thread and its TaskState]
    queue,      \* one_offs
    offHandler, \* whether one_off_handler is set
    enqueued,   \* the one-offs schedule_one_off_task has accepted
    runs,       \* [OneOffs -> how often its handler was invoked]
    dropped,    \* history: one-offs that went down with a panic of another's handler
    pc, held    \* where each caller is in its call, and what it holds

recurring == <<handlers, workers, thread>>
oneoff == <<queue, offHandler, enqueued, runs, dropped>>
callers == <<pc, held>>
vars == <<recurring, oneoff, callers>>

Phases == {"unborn", "awake", "asleep", "running", "exited"}
Stages == {"idle", "scheduling", "cancelling", "signalling", "joining",
           "draining", "running", "returning"}

Nothing == [task |-> None, handler |-> FALSE, drained |-> {}, worker |-> None, ready |-> {}]

Goto(c, stage, what) ==
    /\ pc' = [pc EXCEPT ![c] = stage]
    /\ held' = [held EXCEPT ![c] = what]
Done(c) == Goto(c, "idle", Nothing)

Init ==
    /\ handlers = {}
    /\ workers = [t \in Tasks |-> None]
    /\ thread = [w \in Workers |->
          [task |-> None, handler |-> FALSE, shutdown |-> FALSE, phase |-> "unborn"]]
    /\ queue = {}
    /\ offHandler = FALSE
    /\ enqueued = {}
    /\ runs = [o \in OneOffs |-> 0]
    /\ dropped = {}
    /\ pc = [c \in Callers |-> "idle"]
    /\ held = [c \in Callers |-> Nothing]

-----------------------------------------------------------------------------
(* Scheduling a recurring task *)

SetHandler(c, t) ==
    /\ pc[c] = "idle"
    /\ handlers' = handlers \cup {t}
    /\ UNCHANGED <<workers, thread, oneoff, callers>>

\* The handler is looked up, and its lock released, before the workers lock is taken.
Lookup(c, t) ==
    /\ pc[c] = "idle"
    /\ Goto(c, "scheduling", [Nothing EXCEPT !.task = t, !.handler = t \in handlers])
    /\ UNCHANGED <<recurring, oneoff>>

StartWorker(w, task, handler) ==
    /\ thread[w].phase = "unborn"
    /\ thread' = [thread EXCEPT ![w] =
          [task |-> task, handler |-> handler, shutdown |-> FALSE, phase |-> "awake"]]
    /\ workers' = [workers EXCEPT ![task] = w]

\* Mutant: the duplicate check is made before the workers lock is taken.
SpawnUnchecked(c) ==
    /\ pc[c] = "scheduling"
    /\ \E w \in Workers : StartWorker(w, held[c].task, held[c].handler)
    /\ Done(c)
    /\ UNCHANGED <<handlers, oneoff>>

\* The duplicate check, the spawn and the insert happen under the workers lock.
\* The call also ends here when a worker is there already, or the spawn fails.
Spawn(c) ==
    /\ pc[c] = "scheduling"
    /\ \/ UNCHANGED <<workers, thread>>
       \/ /\ workers[held[c].task] = None
          /\ \E w \in Workers : StartWorker(w, held[c].task, held[c].handler)
    /\ Done(c)
    /\ UNCHANGED <<handlers, oneoff>>

-----------------------------------------------------------------------------
(* A worker's loop *)

Become(w, phase) == thread' = [thread EXCEPT ![w].phase = phase]

\* Mutant: the loop waits before it looks at the flag.
CheckAfterWaiting(w) ==
    /\ thread[w].phase = "awake"
    /\ \/ Become(w, "asleep")
       \/ Become(w, IF thread[w].shutdown THEN "exited" ELSE "running")
    /\ UNCHANGED <<handlers, workers, oneoff, callers>>

\* Under its state lock: shut down, or wait for the deadline, or find it passed.
\* Waiting releases the lock in the same step.
Check(w) ==
    /\ thread[w].phase = "awake"
    /\ IF thread[w].shutdown
       THEN Become(w, "exited")
       ELSE \/ Become(w, "asleep")
            \/ Become(w, IF thread[w].handler THEN "running" ELSE "awake")
    /\ UNCHANGED <<handlers, workers, oneoff, callers>>

\* The wait times out, or wakes for no reason.
Timeout(w) ==
    /\ thread[w].phase = "asleep"
    /\ Become(w, "awake")
    /\ UNCHANGED <<handlers, workers, oneoff, callers>>

\* The handler returns, with or without an error, or panics and takes the
\* thread with it.
HandlerEnds(w) ==
    /\ thread[w].phase = "running"
    /\ Become(w, "awake") \/ Become(w, "exited")
    /\ UNCHANGED <<handlers, workers, oneoff, callers>>

-----------------------------------------------------------------------------
(* cancel_all *)

\* Mutant: tasks without a worker are drained too.
EveryEntry == {workers[t] : t \in Tasks}

Registered == {workers[t] : t \in Tasks} \ {None}

\* The map is emptied under its lock; the rest of the call goes without it.
CancelDrain(c) ==
    /\ pc[c] = "idle"
    /\ workers' = [t \in Tasks |-> None]
    /\ IF Registered = {} THEN Done(c)
                          ELSE Goto(c, "cancelling", [Nothing EXCEPT !.drained = Registered])
    /\ UNCHANGED <<handlers, thread, oneoff>>

\* The map is drained in no particular order. The flag is set under the lock of
\* the worker's state, which is released before the worker is woken.
CancelFlag(c) ==
    /\ pc[c] = "cancelling"
    /\ \E w \in held[c].drained :
          /\ thread' = [thread EXCEPT ![w].shutdown = TRUE]
          /\ Goto(c, "signalling", [held[c] EXCEPT !.worker = w])
    /\ UNCHANGED <<handlers, workers, oneoff>>

CancelNotify(c) ==
    /\ pc[c] = "signalling"
    /\ IF thread[held[c].worker].phase = "asleep"
       THEN Become(held[c].worker, "awake")
       ELSE UNCHANGED thread
    /\ Goto(c, "joining", held[c])
    /\ UNCHANGED <<handlers, workers, oneoff>>

CancelJoin(c) ==
    /\ pc[c] = "joining"
    /\ thread[held[c].worker].phase = "exited"
    /\ IF held[c].drained = {held[c].worker}
       THEN Done(c)
       ELSE Goto(c, "cancelling", [held[c] EXCEPT !.drained = @ \ {held[c].worker},
                                                   !.worker = None])
    /\ UNCHANGED <<recurring, oneoff>>

-----------------------------------------------------------------------------
(* One-off tasks *)

SetOneOffHandler(c) ==
    /\ pc[c] = "idle"
    /\ offHandler' = TRUE
    /\ UNCHANGED <<recurring, queue, enqueued, runs, dropped, callers>>

Enqueue(c, o) ==
    /\ pc[c] = "idle"
    /\ o \notin enqueued
    /\ queue' = queue \cup {o}
    /\ enqueued' = enqueued \cup {o}
    /\ UNCHANGED <<recurring, offHandler, runs, dropped, callers>>

\* run_pending_one_off_tasks reads the handler, then partitions the queue.
ReadOneOffHandler(c) ==
    /\ pc[c] = "idle"
    /\ Goto(c, "draining", [Nothing EXCEPT !.handler = offHandler])
    /\ UNCHANGED <<recurring, oneoff>>

\* Which tasks the device can run now depends on their constraints and the
\* probe, so any subset of the queue may be ready.
Partition(c) ==
    /\ pc[c] = "draining"
    /\ \E ready \in SUBSET queue :
          /\ queue' = queue \ ready
          /\ IF ready = {}
             THEN Done(c)
             ELSE Goto(c, IF held[c].handler THEN "running" ELSE "returning",
                       [held[c] EXCEPT !.ready = ready])
    /\ UNCHANGED <<recurring, offHandler, enqueued, runs, dropped>>

\* A task that fails is not run again. A handler that panics takes the call
\* down, and the ready tasks it has not come to with it.
RunOneOff(c) ==
    /\ pc[c] = "running"
    /\ \E o \in held[c].ready :
          LET rest == held[c].ready \ {o}
          IN  /\ runs' = [runs EXCEPT ![o] = @ + 1]
              /\ \/ /\ IF rest = {} THEN Done(c)
                                   ELSE Goto(c, "running", [held[c] EXCEPT !.ready = rest])
                    /\ UNCHANGED dropped
                 \/ Done(c) /\ dropped' = dropped \cup rest
    /\ UNCHANGED <<recurring, queue, offHandler, enqueued>>

\* Mutant: the tasks pushed back replace the queue instead of joining it.
PushBackSnapshot(c) ==
    /\ pc[c] = "returning"
    /\ queue' = held[c].ready
    /\ Done(c)
    /\ UNCHANGED <<recurring, offHandler, enqueued, runs, dropped>>

\* Without a handler the ready tasks go back.
PushBack(c) ==
    /\ pc[c] = "returning"
    /\ queue' = queue \cup held[c].ready
    /\ Done(c)
    /\ UNCHANGED <<recurring, offHandler, enqueued, runs, dropped>>

-----------------------------------------------------------------------------
Cancel(c) == CancelFlag(c) \/ CancelNotify(c) \/ CancelJoin(c)

Next ==
    \/ \E c \in Callers :
          \/ \E t \in Tasks : SetHandler(c, t) \/ Lookup(c, t)
          \/ \E o \in OneOffs : Enqueue(c, o)
          \/ Spawn(c)
          \/ CancelDrain(c) \/ CancelFlag(c) \/ CancelNotify(c) \/ CancelJoin(c)
          \/ SetOneOffHandler(c) \/ ReadOneOffHandler(c) \/ Partition(c)
          \/ RunOneOff(c) \/ PushBack(c)
    \/ \E w \in Workers : Check(w) \/ Timeout(w) \/ HandlerEnds(w)

Spec == Init /\ [][Next]_vars

\* Threads that can go on do, and handlers end. No interval need ever elapse,
\* and nobody has to call the scheduler.
FairSpec ==
    /\ Spec
    /\ \A c \in Callers : WF_vars(Cancel(c))
    /\ \A w \in Workers : WF_vars(Check(w)) /\ WF_vars(HandlerEnds(w))
-----------------------------------------------------------------------------
(* Properties *)

\* Each variable has its type, and a caller holds what its stage of a call
\* needs and no more: a task to schedule, a worker among those cancel_all
\* drained, the one-offs it took from the queue.
HeldType == [task : Tasks \cup {None}, handler : BOOLEAN, drained : SUBSET Workers,
             worker : Workers \cup {None}, ready : SUBSET OneOffs]
ThreadType == [task : Tasks \cup {None}, handler : BOOLEAN, shutdown : BOOLEAN,
               phase : Phases]
CallersTyped ==
    /\ pc \in [Callers -> Stages]
    /\ held \in [Callers -> HeldType]
    /\ \A c \in Callers :
          /\ pc[c] = "scheduling" => held[c].task \in Tasks
          /\ pc[c] \in {"signalling", "joining"} => held[c].worker \in held[c].drained
          /\ held[c].drained # {} => pc[c] \in {"cancelling", "signalling", "joining"}
          /\ held[c].ready # {} => pc[c] \in {"running", "returning"}
TypeOK ==
    /\ handlers \subseteq Tasks
    /\ workers \in [Tasks -> Workers \cup {None}]
    /\ thread \in [Workers -> ThreadType]
    /\ queue \subseteq OneOffs /\ enqueued \subseteq OneOffs /\ dropped \subseteq OneOffs
    /\ offHandler \in BOOLEAN
    /\ runs \in [OneOffs -> Nat]
    /\ CallersTyped

Alive(w) == thread[w].phase \notin {"unborn", "exited"}

\* A worker that is still alive can be found: it is in the map under its own
\* task, or one cancel_all that has not returned holds its handle. So no
\* interleaving of schedule_* and cancel_all calls orphans a thread, and when
\* the map is empty and no cancel_all is under way no worker runs.
WorkersAreReachable ==
    \A w \in Workers : Alive(w) =>
        \/ thread[w].task \in Tasks /\ workers[thread[w].task] = w
        \/ \E c \in Callers : w \in held[c].drained

Holders(o) == {c \in Callers : o \in held[c].ready}

\* Whatever calls to schedule_one_off_task and run_pending_one_off_tasks
\* overlap, an accepted one-off is never lost and never run twice: it waits in
\* the queue, or is held by exactly one call, or was run once, or went down
\* with a panic.
OneOffsRunOnce ==
    \A o \in OneOffs :
        LET Waits == o \in queue
            IsHeld == Holders(o) # {}
            HasRun == runs[o] = 1
            WasDropped == o \in dropped
        IN  /\ o \in enqueued <=> (Waits \/ IsHeld \/ HasRun \/ WasDropped)
            /\ Waits => ~IsHeld /\ ~WasDropped
            /\ IsHeld => ~WasDropped
            /\ \A c, d \in Holders(o) : c = d
            /\ runs[o] = IF Waits \/ IsHeld \/ WasDropped \/ o \notin enqueued THEN 0 ELSE 1

\* cancel_all returns, however long the intervals are: a worker never sleeps
\* through the wake-up, whether the flag is set while it sleeps, runs its
\* handler or is about to wait.
CancelReturns ==
    \A c \in Callers :
        pc[c] \in {"cancelling", "signalling", "joining"} ~> pc[c] = "idle"
=============================================================================
