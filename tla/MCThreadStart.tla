---------------------------- MODULE MCThreadStart ----------------------------
(* An instance of ThreadStart for TLC. *)
EXTENDS ThreadStart

CONSTANTS w1   \* the worker that tasks are pinned to

PinToWorker == {AnyThread, w1}
=============================================================================
