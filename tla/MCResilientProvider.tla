------------------------ MODULE MCResilientProvider ------------------------
(* The wrapped provider for TLC: see the .cfg files for the constants. *)
EXTENDS ResilientProvider
=============================================================================
