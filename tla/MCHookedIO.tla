----------------------------- MODULE MCHookedIO -----------------------------
(* Instances of HookedIO for TLC.                                            *)
EXTENDS HookedIO
=============================================================================
