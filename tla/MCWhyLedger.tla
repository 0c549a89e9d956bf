----------------------------- MODULE MCWhyLedger -----------------------------
(* An instance of WhyLedger: three nodes, two processes on the first, two    *)
(* imports under way.                                                        *)
EXTENDS WhyLedger, TLC

CONSTANTS n1, n2, n3, w1, w2, w3, i1, i2

MCHostOf == w1 :> n1 @@ w2 :> n1

\* The readers n2 and n3 are alike, as are the processes and the imports.
Relabelling ==
    {p @@ q @@ r : p \in Permutations(Import), q \in Permutations({n2, n3}),
                   r \in Permutations(Writer)}
=============================================================================
