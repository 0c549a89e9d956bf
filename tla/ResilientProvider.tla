------------------------- MODULE ResilientProvider -------------------------
(***************************************************************************)
(* Resilient._call with its circuit breaker and concurrency gate           *)
(* (autarch/resilience.py): threads that share one wrapped provider, each  *)
(* in a retry loop of breaker.allow, limiter.enter, the call itself,       *)
(* limiter.leave and breaker.settle.  The breaker and the gate have locks  *)
(* of their own, so the threads interleave between any two of these.       *)
(*                                                                         *)
(* The backoff is slept inside the try block, before leave and settle: a   *)
(* thread in "leaving" may stay there as long as its backoff lasts.  The   *)
(* quota of the limiter only delays a call and is left out here.           *)
(***************************************************************************)
EXTENDS Integers, FiniteSets

CONSTANTS
    Threads,
    MaxAttempts,     \* RetryPolicy.max_attempts
    MaxThrottle,     \* RetryPolicy.max_throttle_waits
    MaxConcurrency,  \* RateLimit.max_concurrency
    Threshold,       \* CircuitBreaker.failure_threshold
    HalfOpenMax      \* CircuitBreaker.half_open_max

ASSUME ProviderAssumption ==
    /\ IsFiniteSet(Threads)
    /\ MaxAttempts \in Nat \ {0}
    /\ MaxThrottle \in Nat
    /\ MaxConcurrency \in Nat \ {0}
    /\ Threshold \in Nat \ {0}
    /\ HalfOpenMax \in Nat \ {0}

VARIABLES
    circuit,   \* _state of the breaker
    failures,  \* _failures; Threshold stands for every larger count
    cooled,    \* whether the cooldown since _opened_at is over
    trials,    \* _half_open
    slots,     \* permits of the semaphore in use
    call,      \* call[t]: the call thread t is making
    healthy    \* the provider answers every call (external)

vars == <<circuit, failures, cooled, trials, slots, call, healthy>>
breaker == <<circuit, failures, cooled, trials>>

-----------------------------------------------------------------------------
\* onTrial: allow counted this round as a trial of the present recovery.
NoCall == [phase |-> "idle", attempt |-> 0, throttles |-> 0,
           outcome |-> "ignored", again |-> FALSE, onTrial |-> FALSE]

Init ==
    /\ circuit = "closed" /\ failures = 0 /\ cooled = FALSE /\ trials = 0
    /\ slots = 0
    /\ call = [t \in Threads |-> NoCall]
    /\ healthy \in BOOLEAN

StartCall(t) ==
    /\ call[t].phase = "idle"
    /\ call' = [call EXCEPT ![t].phase = "loop"]
    /\ UNCHANGED <<breaker, slots, healthy>>

\* allow: the first call after the cooldown begins a recovery, and its trials.
BeginRecovery(t) ==
    /\ call[t].phase = "loop"
    /\ circuit = "open" /\ cooled
    /\ circuit' = "half_open" /\ trials' = 1
    /\ call' = [u \in Threads |->
                  IF u = t THEN [call[u] EXCEPT !.phase = "admitted",
                                                !.onTrial = TRUE]
                  ELSE [call[u] EXCEPT !.onTrial = FALSE]]
    /\ UNCHANGED <<failures, cooled, slots, healthy>>

AdmitTrial(t) ==
    /\ call[t].phase = "loop"
    /\ circuit = "half_open" /\ trials < HalfOpenMax
    /\ trials' = trials + 1
    /\ call' = [call EXCEPT ![t].phase = "admitted", ![t].onTrial = TRUE]
    /\ UNCHANGED <<circuit, failures, cooled, slots, healthy>>

Admit(t) ==
    /\ call[t].phase = "loop"
    /\ circuit = "closed"
    /\ call' = [call EXCEPT ![t].phase = "admitted"]
    /\ UNCHANGED <<breaker, slots, healthy>>

\* allow raises CircuitOpen, and with it the call.
FailFast(t) ==
    /\ call[t].phase = "loop"
    /\ \/ circuit = "open" /\ ~cooled
       \/ circuit = "half_open" /\ trials >= HalfOpenMax
    /\ call' = [call EXCEPT ![t] = NoCall]
    /\ UNCHANGED <<breaker, slots, healthy>>

\* The quota has room and the semaphore a permit.
Enter(t) ==
    /\ call[t].phase = "admitted"
    /\ slots < MaxConcurrency
    /\ slots' = slots + 1
    /\ call' = [call EXCEPT ![t].phase = "calling"]
    /\ UNCHANGED <<breaker, healthy>>

\* do() has ended: what settle will be told, and whether the loop goes on.
Ends(t, outcome, again) ==
    call' = [call EXCEPT ![t].phase = "leaving", ![t].outcome = outcome,
                         ![t].again = again]

Succeed(t) ==
    /\ call[t].phase = "calling"
    /\ Ends(t, "success", FALSE)
    /\ UNCHANGED <<breaker, slots, healthy>>

\* A terminal error is raised at once, and says nothing about the provider.
FailTerminally(t) ==
    /\ call[t].phase = "calling" /\ ~healthy
    /\ Ends(t, "ignored", FALSE)
    /\ UNCHANGED <<breaker, slots, healthy>>

\* A variant of a rate-limited call that waits without counting.

UncountedThrottled(t) ==
    /\ call[t].phase = "calling" /\ ~healthy
    /\ Ends(t, "ignored", TRUE)
    /\ UNCHANGED <<breaker, slots, healthy>>

\* Rate limited: the call waits and goes on, or gives up.
Throttled(t) ==
    /\ call[t].phase = "calling" /\ ~healthy
    /\ LET waits == call[t].throttles + 1
       IN  call' = [call EXCEPT ![t].phase = "leaving",
                                ![t].outcome = "ignored",
                                ![t].throttles = waits,
                                ![t].again = waits <= MaxThrottle]
    /\ UNCHANGED <<breaker, slots, healthy>>

\* A transient failure: the call backs off and goes on, or gives up.
FailTransiently(t) ==
    /\ call[t].phase = "calling" /\ ~healthy
    /\ LET tried == call[t].attempt + 1
       IN  call' = [call EXCEPT ![t].phase = "leaving",
                                ![t].outcome = "failure",
                                ![t].attempt = tried,
                                ![t].again = tried < MaxAttempts]
    /\ UNCHANGED <<breaker, slots, healthy>>

Leave(t) ==
    /\ call[t].phase = "leaving"
    /\ slots' = slots - 1
    /\ call' = [call EXCEPT ![t].phase = "settling"]
    /\ UNCHANGED <<breaker, healthy>>

-----------------------------------------------------------------------------
(* settle: its three outcomes, under the breaker's lock.                   *)

TrialEnds ==
    trials' = IF circuit = "half_open" /\ trials > 0 THEN trials - 1 ELSE trials

SettleSuccess ==
    /\ TrialEnds
    /\ circuit' = "closed" /\ failures' = 0
    /\ UNCHANGED cooled

Reopen == circuit' = "open" /\ cooled' = FALSE

CountedFailures == IF failures < Threshold THEN failures + 1 ELSE Threshold

SettleFailure ==
    /\ TrialEnds
    /\ IF circuit = "half_open"
       THEN Reopen /\ UNCHANGED failures
       ELSE /\ failures' = CountedFailures
            /\ IF CountedFailures >= Threshold /\ circuit = "closed"
               THEN Reopen
               ELSE UNCHANGED <<circuit, cooled>>

\* A variant that leaves the trial slot taken when a call says nothing.
LeakySettleIgnored == UNCHANGED breaker

SettleIgnored ==
    /\ TrialEnds
    /\ UNCHANGED <<circuit, failures, cooled>>

\* Once more round the loop, with the budgets spent so far.
NextRound(t) ==
    [phase |-> "loop", attempt |-> call[t].attempt,
     throttles |-> call[t].throttles, outcome |-> "ignored", again |-> FALSE,
     onTrial |-> FALSE]

Settle(t) ==
    /\ call[t].phase = "settling"
    /\ \/ call[t].outcome = "success" /\ SettleSuccess
       \/ call[t].outcome = "failure" /\ SettleFailure
       \/ call[t].outcome = "ignored" /\ SettleIgnored
    /\ call' = [call EXCEPT ![t] =
                  IF call[t].again THEN NextRound(t) ELSE NoCall]
    /\ UNCHANGED <<slots, healthy>>

\* The cooldown passes.
CoolDown ==
    /\ circuit = "open" /\ ~cooled
    /\ cooled' = TRUE
    /\ UNCHANGED <<circuit, failures, trials, slots, call, healthy>>

\* External: the provider breaks down or comes back.
ProviderChanges ==
    /\ healthy' \in BOOLEAN
    /\ UNCHANGED <<breaker, slots, call>>

Allow(t) == BeginRecovery(t) \/ AdmitTrial(t) \/ Admit(t) \/ FailFast(t)
Respond(t) ==
    Succeed(t) \/ FailTerminally(t) \/ Throttled(t) \/ FailTransiently(t)

Next ==
    \/ \E t \in Threads :
          StartCall(t) \/ Allow(t) \/ Enter(t) \/ Respond(t) \/ Leave(t)
          \/ Settle(t)
    \/ CoolDown
    \/ ProviderChanges

Spec == Init /\ [][Next]_vars

\* Threads run, the provider answers or times out, the cooldown passes, callers
\* go on calling, and the semaphore does not pass the same thread over for ever.
FairSpec ==
    /\ Spec
    /\ WF_vars(CoolDown)
    /\ \A t \in Threads :
          /\ WF_vars(StartCall(t)) /\ WF_vars(Allow(t)) /\ SF_vars(Enter(t))
          /\ WF_vars(Respond(t)) /\ WF_vars(Leave(t)) /\ WF_vars(Settle(t))

-----------------------------------------------------------------------------
InFlight == {t \in Threads :
               call[t].phase \in {"admitted", "calling", "leaving", "settling"}}
OnTrial  == {t \in InFlight : call[t].onTrial}
Inside   == {t \in Threads : call[t].phase \in {"calling", "leaving"}}

Calls == [phase : {"idle", "loop", "admitted", "calling", "leaving",
                   "settling"},
          attempt : 0..MaxAttempts, throttles : 0..(MaxThrottle + 1),
          outcome : {"success", "failure", "ignored"},
          again : BOOLEAN, onTrial : BOOLEAN]

\* The breaker and the calls hold values of their kind, and no call exceeds its
\* budgets of attempts and of throttle waits.
TypeOK ==
    /\ circuit \in {"closed", "open", "half_open"}
    /\ failures \in 0..Threshold
    /\ cooled \in BOOLEAN
    /\ trials \in 0..HalfOpenMax
    /\ slots \in 0..MaxConcurrency
    /\ call \in [Threads -> Calls]
    /\ healthy \in BOOLEAN

\* A trial slot that is taken is held by a call that will give it back, however
\* calls of earlier recoveries and of the closed circuit settle in between:
\* otherwise every later call would fail fast, for ever.
TrialsAreHeld ==
    circuit = "half_open" => trials <= Cardinality(OnTrial)

\* The semaphore's permits are exactly those of the calls inside it.
PermitsAreHeld == slots = Cardinality(Inside)

\* Too many failures in a row never leave the circuit closed, also when they
\* are settled by threads that were let in before it opened.
ClosedIsBelowThreshold == circuit = "closed" => failures < Threshold

\* Once the provider answers again, the circuit closes again and again, and
\* does not stay half-open with its trials used up.
Recovers == <>[]healthy => []<>(circuit = "closed")

\* Every call returns or raises.
CallsEnd == \A t \in Threads : call[t].phase # "idle" ~> call[t].phase = "idle"
=============================================================================
