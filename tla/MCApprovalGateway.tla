------------------------- MODULE MCApprovalGateway -------------------------
(* One parked action for TLC: see the .cfg files for the constants. *)
EXTENDS ApprovalGateway
============================================================================
