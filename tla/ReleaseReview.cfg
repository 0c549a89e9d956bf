\* Two contents of one release, two reviewers, two reviews.
SPECIFICATION ReviewSpec
CONSTANTS
    finance = finance
    risk = risk
    d1 = d1
    d2 = d2
    Forever = Forever
    Key = {k1}
    k1 = k1
    Digest = {d1, d2}
    Reviewer = {finance, risk}
    MaxTime = 2
    MaxReviews = 2
    MaxComments = 1
    Contracts <- MCContracts
    Lifetimes <- MCLifetimes
SYMMETRY Symmetry
CHECK_DEADLOCK FALSE
INVARIANTS
    OneActiveReview
    ReleaseIsBacked
    AuditTrailIsLawful
