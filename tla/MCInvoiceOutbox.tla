-------------------------- MODULE MCInvoiceOutbox --------------------------
(* The outbox for TLC: the .cfg files give the constants their values.  No   *)
(* run declares symmetry, since each checks a temporal property or has one   *)
(* event only.                                                               *)
EXTENDS InvoiceOutbox
=============================================================================
