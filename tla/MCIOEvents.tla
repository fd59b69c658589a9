----------------------------- MODULE MCIOEvents -----------------------------
(* Instances of IOEvents for TLC.  CounterSpan is just enough to count the   *)
(* events of one descriptor.                                                 *)
EXTENDS IOEvents
=============================================================================
