-------------------------------- MODULE Fleet --------------------------------
(***************************************************************************)
(* One Orchestrator.run (autarch/orchestration.py): the plan's subtasks in *)
(* dependency waves, a wave one by one or on a thread pool, each subtask a *)
(* child agent that asks the economic kernel (economy.py), executes and is *)
(* charged.  would_exceed and charge each take the budget's lock, but      *)
(* nothing holds it from the one to the other.                             *)
(*                                                                         *)
(* What a planner answers is one of Plans.  What child.run decides without *)
(* the budget (no motion, gate, policy, presiding, adapter) is open, and   *)
(* so is where it raises.  One meter of the budget stands for all.         *)
(***************************************************************************)
EXTENDS Integers, FiniteSets

CONSTANTS
    N,            \* number of subtasks of the plan, 1..N in the plan's order
    Plans,        \* depends_on of each subtask, as a planner may answer
    MaxParallel,  \* max_parallel
    Limit,        \* the master's ceiling on the meter
    Cost,         \* CostModel.estimate of the action of each subtask
    Own           \* the ceiling of its own (Subtask.budget), or Shared

Tasks == 1..N

Shared == -1    \* the child draws from the master's budget
Dangling == 0   \* the id of no subtask

ASSUME FleetAssumption ==
    /\ N \in Nat
    /\ Plans \subseteq [Tasks -> SUBSET (Tasks \cup {Dangling})]
    /\ MaxParallel \in Nat \ {0}
    /\ Limit \in Nat
    /\ Cost \in [Tasks -> Nat]
    /\ Own \in [Tasks -> Nat \cup {Shared}]

VARIABLES
    run,        \* where Orchestrator.run is
    deps,       \* the plan: depends_on of each subtask
    remaining,  \* the subtasks that Plan.waves has put in no wave yet
    done,       \* the subtasks of earlier waves
    wave,       \* the subtasks of this wave
    child,      \* child[t]: where the child of subtask t is
    cancelled,  \* pool.map has cancelled what had not started
    spent,      \* what is charged to the shared budget
    latest      \* the child that the shared budget last let pass, or 0 (not in
                \* the code)

schedule == <<run, deps, remaining, done, wave, cancelled>>
budget == <<spent, latest>>
vars == <<schedule, child, budget>>

-----------------------------------------------------------------------------
Init ==
    /\ run = "idle"
    /\ deps \in Plans
    /\ remaining = Tasks /\ done = {} /\ wave = {}
    /\ child = [t \in Tasks |-> "absent"]
    /\ cancelled = FALSE
    /\ spent = 0 /\ latest = 0

Running == {t \in Tasks : child[t] \in {"started", "passed", "charged"}}

Pooled == MaxParallel > 1 /\ Cardinality(wave) > 1

\* _guard: without its guarantees the orchestration is refused.
Begin ==
    /\ run = "idle"
    /\ run' \in {"running", "raised"}
    /\ UNCHANGED <<deps, remaining, done, wave, cancelled, child, budget>>

\* A variant that only asks for one of the prerequisites.
AnyReady == {t \in remaining : deps[t] = {} \/ deps[t] \cap done # {}}

\* Those whose prerequisites are all in earlier waves.
Ready == {t \in remaining : deps[t] \subseteq done}

\* A variant that waits for a subtask that gets ready.
PatientBeginWave ==
    /\ run = "running" /\ wave = {} /\ Ready # {}
    /\ wave' = Ready
    /\ remaining' = remaining \ wave'
    /\ UNCHANGED <<run, deps, done, cancelled, child, budget>>

\* Plan.waves: the next wave, or in one last wave all that wait for each other
\* or for a subtask that is not there.
BeginWave ==
    /\ run = "running" /\ wave = {} /\ remaining # {}
    /\ wave' = IF Ready = {} THEN remaining ELSE Ready
    /\ remaining' = remaining \ wave'
    /\ UNCHANGED <<run, deps, done, cancelled, child, budget>>

\* The last wave is over: synthesize.
Synthesize ==
    /\ run = "running" /\ wave = {} /\ remaining = {}
    /\ run' = "answered"
    /\ UNCHANGED <<deps, remaining, done, wave, cancelled, child, budget>>

\* The wave is over, whether its children executed or were refused.
EndWave ==
    /\ run = "running" /\ wave # {}
    /\ \A t \in wave : child[t] = "complete"
    /\ done' = done \cup wave
    /\ wave' = {}
    /\ UNCHANGED <<run, deps, remaining, cancelled, child, budget>>

\* What raised is met when the results before it are in; the pool then cancels
\* what it has not begun.
MeetException ==
    /\ run = "running" /\ ~cancelled
    /\ \E t \in wave : /\ child[t] = "raised"
                       /\ \A u \in wave : u < t => child[u] = "complete"
    /\ cancelled' = TRUE
    /\ UNCHANGED <<run, deps, remaining, done, wave, child, budget>>

\* The pool is shut down when its last child has ended.
Abort ==
    /\ run = "running" /\ cancelled
    /\ Running = {}
    /\ run' = "raised"
    /\ UNCHANGED <<deps, remaining, done, wave, cancelled, child, budget>>

-----------------------------------------------------------------------------
(* The child of subtask t. *)

Becomes(t, state) == child' = [child EXCEPT ![t] = state]

\* provision and the child's run up to its budget check.  The pool takes the
\* subtasks of a wave in their order, on min(max_parallel, |wave|) threads;
\* without a pool each waits for the one before it.
Start(t) ==
    /\ run = "running" /\ ~cancelled
    /\ t \in wave /\ child[t] = "absent"
    /\ \A u \in wave : u < t =>
           IF Pooled THEN child[u] # "absent" ELSE child[u] = "complete"
    /\ Cardinality(Running) < MaxParallel
    /\ Becomes(t, "started")
    /\ UNCHANGED <<schedule, budget>>

\* A variant that asks whether the ceiling is already passed.
LaxAffordable(t) ==
    IF Own[t] = Shared THEN spent <= Limit ELSE Cost[t] <= Own[t]

\* EconomicKernel.authorize: what is spent so far, with this.
Affordable(t) ==
    IF Own[t] = Shared THEN spent + Cost[t] <= Limit ELSE Cost[t] <= Own[t]

\* The action is affordable and nothing else blocks it.
Pass(t) ==
    /\ child[t] = "started"
    /\ Affordable(t)
    /\ Becomes(t, "passed")
    /\ latest' = IF Own[t] = Shared THEN t ELSE latest
    /\ UNCHANGED <<schedule, spent>>

\* There is no motion, or the gate, a policy, the presider or the budget
\* refuses it; or the adapter is missing or reports a failure.
Refuse(t) ==
    /\ child[t] \in {"started", "passed"}
    /\ Becomes(t, "complete")
    /\ UNCHANGED <<schedule, budget>>

\* The adapter has executed the action, and the budget is charged.
Charge(t) ==
    /\ child[t] = "passed"
    /\ spent' = IF Own[t] = Shared THEN spent + Cost[t] ELSE spent
    /\ Becomes(t, "charged")
    /\ UNCHANGED <<schedule, latest>>

\* The outcome is recorded and returned.
Complete(t) ==
    /\ child[t] = "charged"
    /\ Becomes(t, "complete")
    /\ UNCHANGED <<schedule, budget>>

\* Providers, adapters and stores may raise; nothing in child.run catches it.
Raise(t) ==
    /\ child[t] \in {"started", "passed", "charged"}
    /\ Becomes(t, "raised")
    /\ UNCHANGED <<schedule, budget>>

-----------------------------------------------------------------------------
Step(t) ==
    Start(t) \/ Pass(t) \/ Refuse(t) \/ Charge(t) \/ Complete(t) \/ Raise(t)

Master ==
    Begin \/ BeginWave \/ EndWave \/ Synthesize \/ MeetException \/ Abort

Next == Master \/ \E t \in Tasks : Step(t)

\* A child that has begun ends, one way or the other, and the master goes on.
Fairness == WF_vars(Master) /\ \A t \in Tasks : WF_vars(Step(t))

Spec == Init /\ [][Next]_vars /\ Fairness

-----------------------------------------------------------------------------
(* Properties. *)

\* The schedule's parts are subtasks, and no more children run at a time than
\* max_parallel allows.
TypeOK ==
    /\ run \in {"idle", "running", "answered", "raised"}
    /\ deps \in [Tasks -> SUBSET (Tasks \cup {Dangling})]
    /\ remaining \in SUBSET Tasks /\ done \in SUBSET Tasks
    /\ wave \in SUBSET Tasks
    /\ child \in [Tasks ->
           {"absent", "started", "passed", "charged", "complete", "raised"}]
    /\ Cardinality(Running) <= MaxParallel
    /\ cancelled \in BOOLEAN
    /\ spent \in Nat
    /\ latest \in Tasks \cup {0}

\* The subtasks that can never have all their prerequisites: those of a set of
\* which each needs another of the set, or one that does not exist.
Stuck ==
    UNION {S \in SUBSET Tasks :
               \A t \in S : deps[t] \cap (S \cup {Dangling}) # {}}

\* Whatever the plan, a subtask that can have its prerequisites starts after all
\* of them are complete, and the others start after all that can (Plan.waves and
\* the order of the waves in Orchestrator.run).
DependenciesFirst ==
    \A t \in Tasks : child[t] # "absent" =>
        IF t \in Stuck THEN \A u \in Tasks \ Stuck : child[u] = "complete"
        ELSE \A d \in deps[t] : child[d] = "complete"

\* The children that draw from the master's budget.
Payers == {t \in Tasks : Own[t] = Shared}

\* The check and the charge of a child are apart, so siblings that run at the
\* same time may pass the ceiling together: by no more than the largest cost for
\* each of them but one, and not at all if they run one by one.
SpendIsBounded ==
    \A m \in {Cost[t] : t \in Payers} :
        (\A t \in Payers : Cost[t] <= m) => spent <= Limit + (MaxParallel - 1) * m

\* An orchestration ends, with an answer or an exception, whatever the plan and
\* wherever a child raises: a cycle in the plan does not make it hang.
PlanEnds == run = "running" ~> run \in {"answered", "raised"}
==============================================================================
