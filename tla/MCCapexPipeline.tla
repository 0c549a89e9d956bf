-------------------------- MODULE MCCapexPipeline --------------------------
(* The pipeline for TLC: every ZIP of a run holds the same invoice, which is *)
(* what makes ZIPs compete for a package.                                    *)
EXTENDS CapexPipeline, TLC

CONSTANT theInvoice
SameInvoice == [s \in Sources |-> theInvoice]

\* Invocations are interchangeable, ZIPs of one invoice, and task codes too.
Symmetry == Permutations(Handlers) \union Permutations(Sources)
            \union Permutations(Codes)
=============================================================================
