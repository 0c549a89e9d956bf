---------------------------- MODULE MCDurableRun ----------------------------
(* One run ID for TLC: see the .cfg files for the constants. *)
EXTENDS DurableRun, TLC

\* Processes are interchangeable.
Symmetry == Permutations(Processes)
=============================================================================
