\* Three nodes that merge each other's bundles; one row is damaged or one store pruned.
SPECIFICATION Spec
CONSTANTS
    n1 = n1
    n2 = n2
    n3 = n3
    w1 = w1
    w2 = w2
    w3 = w3
    i1 = i1
    i2 = i2
    Node = {n1, n2, n3}
    Writer = {w1, w2}
    Import = {i1, i2}
    MaxRecords = 2
    MaxDamage = 1
    HostOf <- MCHostOf
SYMMETRY Relabelling
CHECK_DEADLOCK FALSE
INVARIANTS
    ChainsBreakForCause
    AlterationsStayHome
    MergesAreComplete
