----------------------------- MODULE MCScheduler -----------------------------
(* Instances of Scheduler for TLC; the .cfg files choose threads and jobs. *)
EXTENDS Scheduler

CONSTANTS w1   \* the worker that tasks are pinned to

NoPins == {AnyThread}
PinToWorker == {AnyThread, w1}
=============================================================================
