---------------------------- MODULE MCIOScheduler ----------------------------
(* Instances of IOScheduler for TLC.                                         *)
EXTENDS IOScheduler

CONSTANTS w1   \* the worker that tasks are pinned to

NoPins == {AnyThread}
PinToWorker == {AnyThread, w1}
=============================================================================
