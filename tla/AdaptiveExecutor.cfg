\* Three tasks on three threads: items wait, back off and overtake one another.
\* One retry and one throttle per task, up to two tasks at a time.
SPECIFICATION FairSpec
CONSTANTS
    Tasks = {t1, t2, t3}
    Workers = {w1, w2, w3}
    MaxAttempts = 2
    MaxThrottle = 1
    Start = 1
    MinActive = 1
    MaxActive = 2
    NoItem = NoItem
CHECK_DEADLOCK FALSE
INVARIANTS
    TasksAreConserved
    TriesAreBounded
PROPERTIES
    ImplementsBatch
    RunReturns
