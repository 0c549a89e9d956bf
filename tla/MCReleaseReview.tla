---------------------------- MODULE MCReleaseReview ----------------------------
(* An instance of ReleaseReview: one release of two contents, two reviewers *)
(* who decide alone or together.                                            *)
EXTENDS ReleaseReview, TLC

CONSTANTS k1, finance, risk, d1, d2

MCContracts ==
    {[reviewers |-> {finance, risk}, quorum |-> 2], [reviewers |-> {finance}, quorum |-> 1]}

MCLifetimes == {1}

Symmetry == Permutations({d1, d2})
=============================================================================
