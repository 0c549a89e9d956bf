---------------------- MODULE ResilientProviderProofs ----------------------
(***************************************************************************)
(* Proofs about the breaker and the concurrency gate, for every number of  *)
(* threads and every setting of the retry policy, the gate and the breaker.*)
(***************************************************************************)
EXTENDS ResilientProvider, FiniteSetTheorems, TLAPS

\* A call that may still go round has budget for another failure and another
\* throttle wait: an exhausted one is already told to stop.
BudgetsLast ==
    \A t \in Threads :
       call[t].phase \notin {"leaving", "settling"} \/ call[t].again =>
          call[t].attempt < MaxAttempts /\ call[t].throttles <= MaxThrottle

IInv ==
    /\ TypeOK
    /\ BudgetsLast
    /\ PermitsAreHeld
    /\ TrialsAreHeld
    /\ ClosedIsBelowThreshold

\* The sets the counters stand for are finite.
LEMMA CountedSets ==
    /\ IsFiniteSet(Inside) /\ Cardinality(Inside) \in Nat
    /\ IsFiniteSet(OnTrial) /\ Cardinality(OnTrial) \in Nat
  <1>1. Inside \in SUBSET Threads /\ OnTrial \in SUBSET Threads
    BY DEF Inside, OnTrial, InFlight
  <1>2. IsFiniteSet(Inside) /\ IsFiniteSet(OnTrial)
    BY <1>1, FS_Subset, ProviderAssumption
  <1>3. QED BY <1>2, FS_CardinalityType

\* The invariant holds before the first call.
LEMMA InitIInv == Init => IInv
  <1>1. SUFFICES ASSUME Init PROVE IInv
    OBVIOUS
  <1>2. NoCall \in Calls
    BY ProviderAssumption DEF NoCall, Calls
  <1>3. TypeOK
    <2>1. call \in [Threads -> Calls]
      BY <1>1, <1>2 DEF Init
    <2>2. failures \in 0..Threshold /\ trials \in 0..HalfOpenMax
          /\ slots \in 0..MaxConcurrency
      BY <1>1, ProviderAssumption DEF Init
    <2>3. circuit \in {"closed", "open", "half_open"}
          /\ cooled \in BOOLEAN /\ healthy \in BOOLEAN
      BY <1>1 DEF Init
    <2>4. QED BY <2>1, <2>2, <2>3 DEF TypeOK
  <1>4. \A t \in Threads : call[t].phase = "idle" /\ call[t].attempt = 0
                           /\ call[t].throttles = 0
    BY <1>1 DEF Init, NoCall
  <1>5. BudgetsLast
    BY <1>4, ProviderAssumption DEF BudgetsLast
  <1>6. Inside = {}
    BY <1>4 DEF Inside
  <1>7. PermitsAreHeld
    BY <1>1, <1>6, FS_EmptySet DEF Init, PermitsAreHeld
  <1>8. TrialsAreHeld /\ ClosedIsBelowThreshold
    BY <1>1, ProviderAssumption
    DEF Init, TrialsAreHeld, ClosedIsBelowThreshold
  <1>9. QED BY <1>3, <1>5, <1>7, <1>8 DEF IInv

-----------------------------------------------------------------------------
(* Types and budgets. *)

\* Letting a call in, or not, leaves types and budgets as they were.
LEMMA AllowType ==
    ASSUME TypeOK, BudgetsLast, NEW t \in Threads, Allow(t)
    PROVE  TypeOK' /\ BudgetsLast'
  <1>1. CASE BeginRecovery(t)
    <2>1. ASSUME NEW u \in Threads PROVE call'[u] \in Calls
      <3>1. CASE u = t
        <4>1. call'[u] = [call[u] EXCEPT !.phase = "admitted",
                                         !.onTrial = TRUE]
          BY <1>1, <3>1 DEF BeginRecovery
        <4>2. QED BY <4>1 DEF TypeOK, Calls
      <3>2. CASE u # t
        <4>1. call'[u] = [call[u] EXCEPT !.onTrial = FALSE]
          BY <1>1, <3>2 DEF BeginRecovery
        <4>2. QED BY <4>1 DEF TypeOK, Calls
      <3>3. QED BY <3>1, <3>2
    <2>2. call' \in [Threads -> Calls]
      BY <1>1, <2>1 DEF BeginRecovery
    <2>3. trials' = 1 /\ circuit' = "half_open"
          /\ UNCHANGED <<failures, cooled, slots, healthy>>
      BY <1>1, Zenon DEF BeginRecovery
    <2>4. trials' \in 0..HalfOpenMax
      BY <2>3, ProviderAssumption
    <2>5. TypeOK'
      BY <2>2, <2>3, <2>4 DEF TypeOK
    <2>6. ASSUME NEW u \in Threads
          PROVE  /\ call'[u].attempt = call[u].attempt
                 /\ call'[u].throttles = call[u].throttles
                 /\ call'[u].again = call[u].again
                 /\ call'[u].phase =
                       IF u = t THEN "admitted" ELSE call[u].phase
      BY <1>1 DEF TypeOK, Calls, BeginRecovery
    <2>7. call[t].phase = "loop"
      BY <1>1 DEF BeginRecovery
    <2>8. BudgetsLast'
      BY <2>6, <2>7 DEF BudgetsLast
    <2>9. QED BY <2>5, <2>8
  <1>2. CASE AdmitTrial(t)
    <2>1. call' \in [Threads -> Calls]
      <3>1. ASSUME NEW u \in Threads PROVE call'[u] \in Calls
        <4>1. CASE u = t
          <5>1. call'[u] = [call[u] EXCEPT !.phase = "admitted",
                                           !.onTrial = TRUE]
            BY <1>2, <4>1 DEF TypeOK, AdmitTrial
          <5>2. QED BY <5>1 DEF TypeOK, Calls
        <4>2. CASE u # t
          <5>1. call'[u] = call[u]
            BY <1>2, <4>2 DEF TypeOK, AdmitTrial
          <5>2. QED BY <5>1 DEF TypeOK
        <4>3. QED BY <4>1, <4>2
      <3>2. QED BY <1>2, <3>1 DEF TypeOK, AdmitTrial
    <2>2. trials' \in 0..HalfOpenMax
      BY <1>2, ProviderAssumption DEF TypeOK, AdmitTrial
    <2>3. ASSUME NEW u \in Threads
          PROVE  /\ call'[u].attempt = call[u].attempt
                 /\ call'[u].throttles = call[u].throttles
                 /\ call'[u].again = call[u].again
                 /\ call'[u].phase =
                       IF u = t THEN "admitted" ELSE call[u].phase
      BY <1>2 DEF TypeOK, Calls, AdmitTrial
    <2>4. call[t].phase = "loop"
      BY <1>2 DEF AdmitTrial
    <2>5. BudgetsLast'
      BY <2>3, <2>4 DEF BudgetsLast
    <2>6. QED BY <1>2, <2>1, <2>2, <2>5 DEF TypeOK, AdmitTrial
  <1>3. CASE Admit(t)
    BY <1>3 DEF TypeOK, Calls, BudgetsLast, Admit, breaker
  <1>4. CASE FailFast(t)
    <2>1. NoCall \in Calls
      BY ProviderAssumption DEF NoCall, Calls
    <2>2. TypeOK'
      BY <1>4, <2>1 DEF TypeOK, FailFast, breaker
    <2>3. BudgetsLast'
      BY <1>4, ProviderAssumption
      DEF TypeOK, BudgetsLast, FailFast, NoCall
    <2>4. QED BY <2>2, <2>3
  <1>5. QED BY <1>1, <1>2, <1>3, <1>4 DEF Allow

\* Whatever a call is told, it stays a call within its budgets.
LEMMA RespondType ==
    ASSUME TypeOK, BudgetsLast, NEW t \in Threads, Respond(t)
    PROVE  TypeOK' /\ BudgetsLast'
  <1>1. CASE Succeed(t) \/ FailTerminally(t)
    BY <1>1 DEF TypeOK, Calls, BudgetsLast, Succeed, FailTerminally, Ends,
                breaker
  <1>2. CASE Throttled(t)
    BY <1>2, ProviderAssumption
    DEF TypeOK, Calls, BudgetsLast, Throttled, breaker
  <1>3. CASE FailTransiently(t)
    BY <1>3, ProviderAssumption
    DEF TypeOK, Calls, BudgetsLast, FailTransiently, breaker
  <1>4. QED BY <1>1, <1>2, <1>3 DEF Respond

\* Settling a call leaves the breaker and the call in range.
LEMMA SettleType ==
    ASSUME TypeOK, BudgetsLast, NEW t \in Threads, Settle(t)
    PROVE  TypeOK' /\ BudgetsLast'
  <1>1. trials' \in 0..HalfOpenMax
    BY ProviderAssumption
    DEF Settle, SettleSuccess, SettleFailure, SettleIgnored, TrialEnds, TypeOK
  <1>2. failures' \in 0..Threshold
    BY ProviderAssumption
    DEF Settle, SettleSuccess, SettleFailure, SettleIgnored, CountedFailures,
        TypeOK
  <1>3. circuit' \in {"closed", "open", "half_open"} /\ cooled' \in BOOLEAN
    BY DEF Settle, SettleSuccess, SettleFailure, SettleIgnored, Reopen, TypeOK
  <1>4. call' \in [Threads -> Calls] /\ BudgetsLast'
    <2>1. CASE call[t].again
      <3>1. call' = [call EXCEPT ![t] = NextRound(t)]
        <4>1. call' = [call EXCEPT ![t] = IF call[t].again THEN NextRound(t)
                                          ELSE NoCall]
          BY DEF Settle
        <4>2. QED BY <2>1, <4>1, Zenon
      <3>2. call[t].attempt < MaxAttempts /\ call[t].throttles <= MaxThrottle
        BY <2>1 DEF BudgetsLast
      <3>3. call' \in [Threads -> Calls]
        BY <3>1 DEF NextRound, TypeOK, Calls
      <3>4. BudgetsLast'
        BY <3>1, <3>2 DEF NextRound, TypeOK, BudgetsLast
      <3>5. QED BY <3>3, <3>4
    <2>2. CASE ~call[t].again
      <3>1. call' = [call EXCEPT ![t] = NoCall]
        BY <2>2 DEF Settle
      <3>2. NoCall \in Calls
        BY ProviderAssumption DEF NoCall, Calls
      <3>3. call' \in [Threads -> Calls]
        BY <3>1, <3>2 DEF TypeOK
      <3>4. BudgetsLast'
        BY <3>1, ProviderAssumption DEF TypeOK, BudgetsLast, NoCall
      <3>5. QED BY <3>3, <3>4
    <2>3. QED BY <2>1, <2>2
  <1>5. QED BY <1>1, <1>2, <1>3, <1>4 DEF Settle, TypeOK

\* Every step keeps values of their kind and budgets unspent.
LEMMA StepType ==
    ASSUME TypeOK, BudgetsLast, PermitsAreHeld, Next
    PROVE  TypeOK' /\ BudgetsLast'
  <1>1. ASSUME NEW t \in Threads, StartCall(t) PROVE TypeOK' /\ BudgetsLast'
    BY <1>1 DEF StartCall, TypeOK, Calls, BudgetsLast, breaker
  <1>2. ASSUME NEW t \in Threads, Enter(t) PROVE TypeOK' /\ BudgetsLast'
    <2>1. call' \in [Threads -> Calls] /\ BudgetsLast'
      BY <1>2 DEF Enter, TypeOK, Calls, BudgetsLast
    <2>2. slots' \in 0..MaxConcurrency
      BY <1>2, ProviderAssumption DEF Enter, TypeOK
    <2>3. QED BY <1>2, <2>1, <2>2 DEF Enter, TypeOK, breaker
  <1>3. ASSUME NEW t \in Threads, Leave(t) PROVE TypeOK' /\ BudgetsLast'
    <2>1. call' \in [Threads -> Calls] /\ BudgetsLast'
      BY <1>3 DEF Leave, TypeOK, Calls, BudgetsLast
    <2>2. t \in Inside
      BY <1>3 DEF Leave, Inside
    <2>3. slots # 0
      BY <2>2, CountedSets, FS_EmptySet DEF PermitsAreHeld
    <2>4. slots' \in 0..MaxConcurrency
      BY <1>3, <2>3, ProviderAssumption DEF Leave, TypeOK
    <2>5. QED BY <1>3, <2>1, <2>4 DEF Leave, TypeOK, breaker
  <1>4. CASE CoolDown
    BY <1>4 DEF CoolDown, TypeOK, BudgetsLast
  <1>5. CASE ProviderChanges
    BY <1>5 DEF ProviderChanges, TypeOK, BudgetsLast, breaker
  <1>6. QED
    BY <1>1, <1>2, <1>3, <1>4, <1>5, AllowType, RespondType, SettleType DEF Next

-----------------------------------------------------------------------------
(* The semaphore. *)

\* A permit is taken with the entry into the set of calls inside, and given
\* back with the exit from it.
LEMMA StepPermits ==
    ASSUME TypeOK, PermitsAreHeld, Next
    PROVE  PermitsAreHeld'
  <1>1. ASSUME NEW t \in Threads, Enter(t) PROVE PermitsAreHeld'
    <2>1. Inside' = Inside \cup {t} /\ t \notin Inside
      BY <1>1 DEF Enter, Inside, TypeOK, Calls
    <2>2. Cardinality(Inside') = Cardinality(Inside) + 1
      BY <2>1, CountedSets, FS_AddElement
    <2>3. QED BY <1>1, <2>2 DEF Enter, PermitsAreHeld
  <1>2. ASSUME NEW t \in Threads, Leave(t) PROVE PermitsAreHeld'
    <2>1. Inside' = Inside \ {t} /\ t \in Inside
      BY <1>2 DEF Leave, Inside, TypeOK, Calls
    <2>2. Cardinality(Inside') = Cardinality(Inside) - 1
      BY <2>1, CountedSets, FS_RemoveElement
    <2>3. QED BY <1>2, <2>2 DEF Leave, PermitsAreHeld
  <1>3. ASSUME NEW t \in Threads,
               StartCall(t) \/ Allow(t) \/ Respond(t) \/ Settle(t)
        PROVE  PermitsAreHeld'
    <2>1. CASE StartCall(t)
      BY <2>1 DEF StartCall, PermitsAreHeld, Inside, TypeOK, Calls
    <2>2. CASE BeginRecovery(t)
      <3>1. call[t].phase = "loop" /\ slots' = slots
        BY <2>2 DEF BeginRecovery
      <3>2. \A u \in Threads :
               call'[u].phase = IF u = t THEN "admitted" ELSE call[u].phase
        BY <2>2 DEF BeginRecovery, TypeOK, Calls
      <3>3. Inside' = Inside
        BY <3>1, <3>2 DEF Inside
      <3>4. QED BY <3>1, <3>3 DEF PermitsAreHeld
    <2>3. CASE AdmitTrial(t) \/ Admit(t)
      <3>1. call[t].phase = "loop" /\ slots' = slots
        BY <2>3 DEF AdmitTrial, Admit
      <3>2. \A u \in Threads :
               call'[u].phase = IF u = t THEN "admitted" ELSE call[u].phase
        BY <2>3 DEF AdmitTrial, Admit, TypeOK, Calls
      <3>3. Inside' = Inside
        BY <3>1, <3>2 DEF Inside
      <3>4. QED BY <3>1, <3>3 DEF PermitsAreHeld
    <2>4. CASE FailFast(t)
      BY <2>4 DEF FailFast, NoCall, PermitsAreHeld, Inside, TypeOK, Calls
    <2>5. CASE Respond(t)
      <3>1. slots' = slots /\ call[t].phase = "calling"
        BY <2>5 DEF Respond, Succeed, FailTerminally, Throttled,
                    FailTransiently
      <3>2. \A u \in Threads :
               call'[u].phase = IF u = t THEN "leaving" ELSE call[u].phase
        BY <2>5 DEF Respond, Succeed, FailTerminally, Ends, Throttled,
                    FailTransiently, TypeOK, Calls
      <3>3. Inside' = Inside
        BY <3>1, <3>2 DEF Inside
      <3>4. QED BY <3>1, <3>3 DEF PermitsAreHeld
    <2>6. CASE Settle(t)
      <3>1. slots' = slots /\ call[t].phase = "settling"
        BY <2>6 DEF Settle
      <3>2. \A u \in Threads \ {t} : call'[u] = call[u]
        BY <2>6 DEF Settle, TypeOK
      <3>3. call'[t].phase \in {"idle", "loop"}
        BY <2>6 DEF Settle, NextRound, NoCall, TypeOK
      <3>4. Inside' = Inside
        BY <3>1, <3>2, <3>3 DEF Inside
      <3>5. QED BY <3>1, <3>4 DEF PermitsAreHeld
    <2>7. QED
      BY <1>3, <2>1, <2>2, <2>3, <2>4, <2>5, <2>6 DEF Allow
  <1>4. CASE CoolDown \/ ProviderChanges
    BY <1>4 DEF CoolDown, ProviderChanges, PermitsAreHeld, Inside
  <1>5. QED BY <1>1, <1>2, <1>3, <1>4 DEF Next

-----------------------------------------------------------------------------
(* The breaker. *)

\* A trial slot is taken together with the call that holds it, and given back
\* no later than by that call.
LEMMA StepTrials ==
    ASSUME TypeOK, TrialsAreHeld, Next
    PROVE  TrialsAreHeld'
  <1>1. ASSUME NEW t \in Threads, BeginRecovery(t) PROVE TrialsAreHeld'
    <2>1. trials' = 1
      BY <1>1, Zenon DEF BeginRecovery
    <2>2. call'[t].phase = "admitted" /\ call'[t].onTrial
      BY <1>1 DEF BeginRecovery, TypeOK, Calls
    <2>3. t \in OnTrial'
      BY <2>2 DEF OnTrial, InFlight
    <2>4. OnTrial' \in SUBSET Threads
      BY DEF OnTrial, InFlight
    <2>5. IsFiniteSet(OnTrial') /\ Cardinality(OnTrial') \in Nat
      BY <2>4, FS_Subset, FS_CardinalityType, ProviderAssumption
    <2>6. Cardinality(OnTrial') # 0
      BY <2>3, <2>5, FS_EmptySet
    <2>7. QED BY <2>1, <2>5, <2>6 DEF TrialsAreHeld
  <1>2. ASSUME NEW t \in Threads, AdmitTrial(t) PROVE TrialsAreHeld'
    <2>1. OnTrial' = OnTrial \cup {t} /\ t \notin OnTrial
      BY <1>2 DEF AdmitTrial, OnTrial, InFlight, TypeOK, Calls
    <2>2. Cardinality(OnTrial') = Cardinality(OnTrial) + 1
      BY <2>1, CountedSets, FS_AddElement
    <2>3. circuit = "half_open" /\ trials' = trials + 1
      BY <1>2 DEF AdmitTrial
    <2>4. QED BY <2>2, <2>3, CountedSets DEF TrialsAreHeld, TypeOK
  <1>3. ASSUME NEW t \in Threads,
               StartCall(t) \/ FailFast(t) \/ Enter(t) \/ Respond(t)
               \/ Leave(t)
        PROVE  TrialsAreHeld'
    <2>1. circuit' = circuit /\ trials' = trials
      BY <1>3 DEF StartCall, FailFast, Enter, Respond, Succeed, FailTerminally,
                  Throttled, FailTransiently, Leave, breaker
    <2>2. \A u \in Threads \ {t} : call'[u] = call[u]
      BY <1>3 DEF StartCall, FailFast, Enter, Respond, Succeed, FailTerminally,
                  Ends, Throttled, FailTransiently, Leave, TypeOK
    <2>3. CASE StartCall(t) \/ FailFast(t)
      <3>1. call[t].phase \in {"idle", "loop"}
            /\ call'[t].phase \in {"idle", "loop"}
        BY <2>3 DEF StartCall, FailFast, NoCall, TypeOK, Calls
      <3>2. OnTrial' = OnTrial
        BY <2>2, <3>1 DEF OnTrial, InFlight
      <3>3. QED BY <2>1, <3>2 DEF TrialsAreHeld
    <2>4. CASE Enter(t) \/ Respond(t) \/ Leave(t)
      <3>1. call[t].phase \in {"admitted", "calling", "leaving"}
        BY <2>4 DEF Enter, Respond, Succeed, FailTerminally, Throttled,
                    FailTransiently, Leave
      <3>2. call'[t].phase \in {"calling", "leaving", "settling"}
            /\ call'[t].onTrial = call[t].onTrial
        BY <2>4 DEF Enter, Respond, Succeed, FailTerminally, Ends, Throttled,
                    FailTransiently, Leave, TypeOK, Calls
      <3>3. OnTrial' = OnTrial
        BY <2>2, <3>1, <3>2 DEF OnTrial, InFlight
      <3>4. QED BY <2>1, <3>3 DEF TrialsAreHeld
    <2>5. QED BY <1>3, <2>3, <2>4
  <1>4. ASSUME NEW t \in Threads, Settle(t) PROVE TrialsAreHeld'
    <2>1. SUFFICES ASSUME circuit' = "half_open"
                   PROVE  trials' <= Cardinality(OnTrial')
      BY DEF TrialsAreHeld
    <2>2. /\ circuit = "half_open"
          /\ trials' = IF trials > 0 THEN trials - 1 ELSE trials
      BY <1>4, <2>1 DEF Settle, SettleSuccess, SettleFailure, SettleIgnored,
                        Reopen, TrialEnds
    <2>3. \A u \in Threads \ {t} : call'[u] = call[u]
      BY <1>4 DEF Settle, TypeOK
    <2>4. call'[t].phase \in {"idle", "loop"}
      BY <1>4 DEF Settle, NextRound, NoCall, TypeOK
    <2>5. OnTrial' = OnTrial \ {t}
      BY <2>3, <2>4 DEF OnTrial, InFlight
    <2>6. CASE t \in OnTrial
      <3>1. Cardinality(OnTrial') = Cardinality(OnTrial) - 1
        BY <2>5, <2>6, CountedSets, FS_RemoveElement
      <3>2. Cardinality(OnTrial) # 0
        BY <2>6, CountedSets, FS_EmptySet
      <3>3. QED BY <2>2, <3>1, <3>2, CountedSets DEF TrialsAreHeld, TypeOK
    <2>7. CASE t \notin OnTrial
      <3>1. OnTrial' = OnTrial
        BY <2>5, <2>7
      <3>2. QED BY <2>2, <3>1, CountedSets DEF TrialsAreHeld, TypeOK
    <2>8. QED BY <2>6, <2>7
  <1>5. ASSUME NEW t \in Threads, Admit(t) PROVE TrialsAreHeld'
    BY <1>5 DEF Admit, TrialsAreHeld, breaker
  <1>6. CASE CoolDown
    BY <1>6 DEF CoolDown, TrialsAreHeld
  <1>7. CASE ProviderChanges
    BY <1>7 DEF ProviderChanges, TrialsAreHeld, OnTrial, InFlight, breaker
  <1>8. QED
    BY <1>1, <1>2, <1>3, <1>4, <1>5, <1>6, <1>7 DEF Next, Allow

\* Only settling counts failures, and it opens the circuit at the threshold.
LEMMA StepThreshold ==
    ASSUME TypeOK, ClosedIsBelowThreshold, Next
    PROVE  ClosedIsBelowThreshold'
  <1>1. ASSUME NEW t \in Threads, Settle(t) PROVE ClosedIsBelowThreshold'
    <2>1. CASE SettleSuccess
      BY <2>1, ProviderAssumption DEF SettleSuccess, ClosedIsBelowThreshold
    <2>2. CASE SettleFailure
      BY <2>2, ProviderAssumption
      DEF SettleFailure, Reopen, CountedFailures, ClosedIsBelowThreshold,
          TypeOK
    <2>3. CASE SettleIgnored
      BY <2>3 DEF SettleIgnored, ClosedIsBelowThreshold
    <2>4. QED BY <1>1, <2>1, <2>2, <2>3 DEF Settle
  <1>2. ASSUME NEW t \in Threads, BeginRecovery(t)
        PROVE  ClosedIsBelowThreshold'
    <2>1. circuit' = "half_open"
      BY <1>2, Zenon DEF BeginRecovery
    <2>2. QED BY <2>1 DEF ClosedIsBelowThreshold
  <1>3. ASSUME NEW t \in Threads,
               StartCall(t) \/ AdmitTrial(t) \/ Admit(t) \/ FailFast(t)
               \/ Enter(t) \/ Respond(t) \/ Leave(t)
        PROVE  ClosedIsBelowThreshold'
    <2>1. circuit' = circuit /\ failures' = failures
      BY <1>3 DEF StartCall, AdmitTrial, Admit, FailFast, Enter, Respond,
                  Succeed, FailTerminally, Throttled, FailTransiently, Leave,
                  breaker
    <2>2. QED BY <2>1 DEF ClosedIsBelowThreshold
  <1>4. CASE CoolDown \/ ProviderChanges
    BY <1>4 DEF CoolDown, ProviderChanges, ClosedIsBelowThreshold, breaker
  <1>5. QED BY <1>1, <1>2, <1>3, <1>4 DEF Next, Allow

-----------------------------------------------------------------------------
(* The theorems. *)

LEMMA StepIInv == IInv /\ [Next]_vars => IInv'
  <1>1. SUFFICES ASSUME IInv, [Next]_vars PROVE IInv'
    OBVIOUS
  <1>2. CASE Next
    BY <1>1, <1>2, StepType, StepPermits, StepTrials, StepThreshold DEF IInv
  <1>3. CASE UNCHANGED vars
    BY <1>1, <1>3
    DEF IInv, TypeOK, Calls, BudgetsLast, PermitsAreHeld, Inside,
        TrialsAreHeld, OnTrial, InFlight, ClosedIsBelowThreshold, vars
  <1>4. QED BY <1>1, <1>2, <1>3

LEMMA ProviderInvariant == Spec => []IInv
  BY InitIInv, StepIInv, PTL DEF Spec

\* No interleaving of calls takes the breaker out of range, or lets a call try
\* or wait more often than its retry policy allows.
THEOREM ProviderTyped == Spec => []TypeOK
  BY ProviderInvariant, PTL DEF IInv

\* The semaphore loses and invents no permit: those in use are held by the calls
\* between enter and leave (_Limiter).
THEOREM NoPermitLeaks == Spec => []PermitsAreHeld
  BY ProviderInvariant, PTL DEF IInv

\* A half-open circuit never counts a trial that no call will give back
\* (_Breaker.allow and settle), so that recovery cannot be locked out.
THEOREM NoTrialLeaks == Spec => []TrialsAreHeld
  BY ProviderInvariant, PTL DEF IInv

\* The circuit is never closed with failure_threshold failures in a row counted.
THEOREM ThresholdOpens == Spec => []ClosedIsBelowThreshold
  BY ProviderInvariant, PTL DEF IInv
=============================================================================
