\* Two threads and one permit: a call that waits for the permit or backs off
\* while the other opens the circuit, recovers and closes it.
SPECIFICATION FairSpec
CONSTANTS
    Threads = {t1, t2}
    MaxAttempts = 2
    MaxThrottle = 1
    MaxConcurrency = 1
    Threshold = 2
    HalfOpenMax = 1
INVARIANTS
    TrialsAreHeld
PROPERTIES
    Recovers
    CallsEnd
