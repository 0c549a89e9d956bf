------------------------ MODULE MCAdaptiveExecutor ------------------------
(* The executor for TLC: see the .cfg file for the constants. *)
EXTENDS AdaptiveExecutor
=============================================================================
