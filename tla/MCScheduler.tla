----------------------------- MODULE MCScheduler -----------------------------
(* The scheduler with a few threads, tasks and one-offs. *)
EXTENDS Scheduler
=============================================================================
