\* Four subtasks, up to two at a time, with a ceiling that any two of them pass:
\* all orders of check and charge, and an exception anywhere.  An orchestration
\* that has ended does nothing more.
SPECIFICATION Spec
CONSTANTS
    N = 4
    Plans <- MCPlans
    MaxParallel = 2
    Limit = 3
    Cost <- MCCost
    Own <- MCOwn
CHECK_DEADLOCK FALSE
INVARIANTS
    DependenciesFirst
    SpendIsBounded
PROPERTIES
    PlanEnds
