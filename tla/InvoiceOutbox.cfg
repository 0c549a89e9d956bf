\* Two events and two overlapping jobs.  In ticks of 300 s: a claim is stale after
\* one, retries back off 1 and 2, a job is killed after 1, the broker forgets after 1.
SPECIFICATION FairSpec
CONSTANTS
    Events = {e1, e2}
    Dispatchers = {d1, d2}
    MaxAttempts = 2
    LockTimeout = 1
    BaseRetry = 1
    MaxRetry = 2
    MaxMessages = 2
    JobTimeout = 1
    DupWindow = 1
    OverdueCap = 1
    NoEvent = NoEvent
INVARIANTS
    AttemptsAreExclusive
PROPERTIES
    EventsSettle
    ImplementsDelivery
