-------------------------- MODULE AdaptiveExecutor --------------------------
(***************************************************************************)
(* AdaptiveExecutor.run (autarch/resilience.py): a batch of tasks run by a *)
(* pool of threads under one condition variable.  A worker takes an item   *)
(* only below the ceiling, which widens on success and narrows when a task *)
(* is throttled; a failed item is put back after a backoff that is slept   *)
(* outside the lock; a terminal failure is recorded and stops nobody.      *)
(*                                                                         *)
(* Every step below is one critical section.  The ceiling is a float in    *)
(* the code; only its integer part is compared, so the model keeps that    *)
(* part and lets a success leave or raise it, a throttle leave or lower    *)
(* it: all recover_step and backoff_factor values are covered.             *)
(***************************************************************************)
EXTENDS Integers, FiniteSets, Sequences

CONSTANTS
    Tasks,
    Workers,
    MaxAttempts,  \* RetryPolicy.max_attempts
    MaxThrottle,  \* max_throttle_waits
    Start,        \* start
    MinActive,    \* min_concurrency
    MaxActive,    \* max_concurrency; the number of tasks when it is None
    NoItem

ASSUME ExecutorAssumption ==
    /\ IsFiniteSet(Tasks) /\ Tasks # {}
    /\ IsFiniteSet(Workers) /\ Workers # {}
    /\ MaxAttempts \in Nat \ {0}
    /\ MaxThrottle \in Nat
    /\ Start \in Nat \ {0}
    /\ MinActive \in Nat \ {0}
    /\ MaxActive \in Nat \ {0}
    /\ NoItem \notin [task : Tasks, attempts : 0..MaxAttempts,
                      throttles : 0..MaxThrottle]

VARIABLES
    queue,      \* state.queue, of items (index, attempts, throttles)
    worker,     \* worker[w]: where thread w is and the item it holds
    active,     \* state.active
    remaining,  \* state.remaining
    ceiling,    \* int(state.ceiling)
    outcome,    \* state.outcomes
    tries       \* tries[t]: how often task t was called (not in the code)

vars == <<queue, worker, active, remaining, ceiling, outcome, tries>>

-----------------------------------------------------------------------------
Items == [task : Tasks, attempts : 0..(MaxAttempts - 1),
          throttles : 0..MaxThrottle]

Smaller(a, b) == IF a < b THEN a ELSE b
Larger(a, b)  == IF a > b THEN a ELSE b

\* _effective_max(n)
EffectiveMax == Larger(MinActive, Smaller(MaxActive, Cardinality(Tasks)))

\* The limit _next_item compares active with.
Limit == Larger(MinActive, Smaller(EffectiveMax, ceiling))

Resting == [phase |-> "waiting", item |-> NoItem]

\* The deque holds the tasks in some order of their indices: any will do.
Orders == {q \in [1..Cardinality(Tasks) -> Tasks] :
              \A i, j \in DOMAIN q : q[i] = q[j] => i = j}

Init ==
    /\ \E q \in Orders :
          queue = [i \in DOMAIN q |->
                     [task |-> q[i], attempts |-> 0, throttles |-> 0]]
    /\ worker = [w \in Workers |-> Resting]
    /\ active = 0
    /\ remaining = Cardinality(Tasks)
    /\ ceiling = Smaller(Start, EffectiveMax)
    /\ outcome = [t \in Tasks |-> "none"]
    /\ tries = [t \in Tasks |-> 0]

\* _next_item takes the first item and calls its task.
Take(w) ==
    /\ worker[w].phase = "waiting"
    /\ remaining # 0
    /\ queue # <<>>
    /\ active < Limit
    /\ queue' = Tail(queue)
    /\ active' = active + 1
    /\ worker' = [worker EXCEPT ![w] =
                     [phase |-> "running", item |-> Head(queue)]]
    /\ tries' = [tries EXCEPT ![Head(queue).task] = @ + 1]
    /\ UNCHANGED <<remaining, ceiling, outcome>>

\* _next_item returns None, and the thread ends.
Exit(w) ==
    /\ worker[w].phase = "waiting"
    /\ remaining = 0
    /\ worker' = [worker EXCEPT ![w].phase = "exited"]
    /\ UNCHANGED <<queue, active, remaining, ceiling, outcome, tries>>

\* A variant that forgets to count the outcome.
UncountedRecord(w, result) ==
    /\ active' = active - 1
    /\ outcome' = [outcome EXCEPT ![worker[w].item.task] = result]
    /\ worker' = [worker EXCEPT ![w] = Resting]
    /\ UNCHANGED <<queue, tries, remaining>>

Record(w, result) ==
    /\ active' = active - 1
    /\ remaining' = remaining - 1
    /\ outcome' = [outcome EXCEPT ![worker[w].item.task] = result]
    /\ worker' = [worker EXCEPT ![w] = Resting]
    /\ UNCHANGED <<queue, tries>>

\* The task returned.
Succeed(w) ==
    /\ worker[w].phase = "running"
    /\ Record(w, "ok")
    /\ ceiling' \in Smaller(ceiling, EffectiveMax)..EffectiveMax

\* A variant of a backoff that puts the item back before the sleep as well.
EagerBackOff(w, item) ==
    /\ active' = active - 1
    /\ queue' = Append(queue, item)
    /\ worker' = [worker EXCEPT ![w] = [phase |-> "backoff", item |-> item]]
    /\ UNCHANGED <<remaining, outcome, tries>>

\* The worker gives its place up and sleeps with the item in its hands.
BackOff(w, item) ==
    /\ active' = active - 1
    /\ worker' = [worker EXCEPT ![w] = [phase |-> "backoff", item |-> item]]
    /\ UNCHANGED <<queue, remaining, outcome, tries>>

\* The task was throttled, within its throttle budget.
Throttled(w) ==
    /\ worker[w].phase = "running"
    /\ worker[w].item.throttles < MaxThrottle
    /\ BackOff(w, [worker[w].item EXCEPT !.throttles = @ + 1])
    /\ ceiling' \in MinActive..Larger(MinActive, ceiling)

\* A variant that allows a retry after the last attempt.
LateRetry(w) ==
    /\ worker[w].phase = "running"
    /\ worker[w].item.attempts < MaxAttempts
    /\ BackOff(w, [worker[w].item EXCEPT !.attempts = @ + 1])
    /\ UNCHANGED ceiling

\* The task failed for a transient reason, within its attempt budget.
Retry(w) ==
    /\ worker[w].phase = "running"
    /\ worker[w].item.attempts + 1 < MaxAttempts
    /\ BackOff(w, [worker[w].item EXCEPT !.attempts = @ + 1])
    /\ UNCHANGED ceiling

\* The backoff is over.
Requeue(w) ==
    /\ worker[w].phase = "backoff"
    /\ queue' = Append(queue, worker[w].item)
    /\ worker' = [worker EXCEPT ![w] = Resting]
    /\ UNCHANGED <<active, remaining, ceiling, outcome, tries>>

\* The failure is terminal, or a budget is used up.
Fail(w) ==
    /\ worker[w].phase = "running"
    /\ Record(w, "failed")
    /\ UNCHANGED ceiling

WorkerStep(w) ==
    \/ Take(w) \/ Exit(w) \/ Succeed(w) \/ Throttled(w)
    \/ Retry(w) \/ Requeue(w) \/ Fail(w)

Next == \E w \in Workers : WorkerStep(w)

Spec == Init /\ [][Next]_vars

\* Threads run: a worker that waits polls (cv.wait with a timeout), and a task
\* that was called returns or raises.
FairSpec == Spec /\ \A w \in Workers : WF_vars(WorkerStep(w))

-----------------------------------------------------------------------------
Running == {w \in Workers : worker[w].phase = "running"}
Undone  == {t \in Tasks : outcome[t] = "none"}
Holds(w) == worker[w].phase \in {"running", "backoff"}

\* The executor's state holds values of its kind, and no item exceeds a budget.
TypeOK ==
    /\ queue \in Seq(Items)
    /\ worker \in [Workers -> [phase : {"waiting", "running", "backoff",
                                        "exited"},
                               item : Items \union {NoItem}]]
    /\ \A w \in Workers : Holds(w) <=> worker[w].item # NoItem
    /\ active \in Nat
    /\ remaining \in Nat
    /\ ceiling \in Nat \ {0}
    /\ outcome \in [Tasks -> {"none", "ok", "failed"}]
    /\ tries \in [Tasks -> Nat]

\* No task is lost and none runs twice at once, whatever fails and backs off: a
\* task without an outcome is in the queue once or in one worker's hands, and a
\* task with an outcome is nowhere.
Queued(t) == {i \in DOMAIN queue : queue[i].task = t}
Holders(t) == {w \in Workers : Holds(w) /\ worker[w].item.task = t}
TasksAreConserved ==
    \A t \in Tasks :
        Cardinality(Queued(t)) + Cardinality(Holders(t))
            = IF outcome[t] = "none" THEN 1 ELSE 0

\* The counters that gate admission and termination never drift from what they
\* count, although a task's start, backoff and end are critical sections of
\* their own; so the fleet is never wider than max_concurrency allows.
CountersAgree ==
    /\ active <= EffectiveMax
    /\ active = Cardinality(Running)
    /\ remaining = Cardinality(Undone)

\* A worker that ends leaves no task behind, not even one that is asleep in
\* another worker's backoff: run returns a full list.
ReturnsComplete ==
    \A w \in Workers : worker[w].phase = "exited"
        => \A t \in Tasks : outcome[t] # "none"

\* Throttles and transient failures are bounded together: a task is called no
\* more often than its attempt budget and its throttle budget add up to.
TriesAreBounded ==
    \A t \in Tasks : tries[t] <= MaxAttempts + MaxThrottle

\* The executor implements the promise of a batch, its completion included.
Batch == INSTANCE TaskBatch WITH result <- outcome
ImplementsBatch == Batch!Spec

\* run comes back: every thread ends.
RunReturns == <>(\A w \in Workers : worker[w].phase = "exited")
=============================================================================
