\* The request that parks the action, one vote and one overrule.
SPECIFICATION Spec
CONSTANTS
    Threads = {t1, t2, t3}
    Voters = {ann}
    Quorums = {1}
CHECK_DEADLOCK FALSE
PROPERTIES
    OverruleDecides
