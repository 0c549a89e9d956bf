---------------------------- MODULE FleetProofs ----------------------------
(***************************************************************************)
(* What holds of the fleet for every plan, every budget and any number of  *)
(* workers.                                                                *)
(***************************************************************************)
EXTENDS Fleet, FiniteSetTheorems, TLAPS

\* A wave takes from what remains, so nothing is lost between the two.
Covered == remaining \cup wave \cup done = Tasks

\* Only the subtasks of a wave get a child; those of earlier waves are over.
InWaves ==
    /\ \A t \in Tasks : child[t] # "absent" => t \in wave \cup done
    /\ \A t \in done : child[t] = "complete"

\* A subtask that can have its prerequisites is in a wave behind them, and those
\* that cannot are in no wave before all that can are in one.
Layered ==
    /\ \A t \in (wave \cup done) \ Stuck : deps[t] \subseteq done
    /\ (wave \cup done) \cap Stuck # {} => Tasks \ Stuck \subseteq done

WaveInv == TypeOK /\ Covered /\ InWaves /\ Layered

-----------------------------------------------------------------------------
(* Type correctness. *)

LEMMA Constants ==
    /\ N \in Nat /\ MaxParallel \in Nat /\ MaxParallel > 0 /\ Limit \in Nat
    /\ \A t \in Tasks : Cost[t] \in Nat
BY FleetAssumption DEF FleetAssumption

LEMMA RunningFinite ==
    ASSUME TypeOK
    PROVE  IsFiniteSet(Running) /\ Cardinality(Running) \in Nat
<1>1. IsFiniteSet(Tasks)
  BY Constants, FS_Interval DEF Tasks
<1>2. Running \subseteq Tasks
  BY DEF Running
<1> QED
  BY <1>1, <1>2, FS_Subset, FS_CardinalityType

\* A child that goes from one place to another leaves the others where they are.
LEMMA OneMoves ==
    ASSUME TypeOK, NEW t \in Tasks, NEW state, Becomes(t, state)
    PROVE  /\ child'[t] = state
           /\ \A u \in Tasks : u # t => child'[u] = child[u]
BY DEF TypeOK, Becomes

\* Only Start adds to the children that run.
LEMMA RunningShrinks ==
    ASSUME TypeOK, NEW t \in Tasks, NEW state, Becomes(t, state),
           t \in Running
    PROVE  Cardinality(Running') <= MaxParallel
<1>1. \A u \in Tasks : u # t => child'[u] = child[u]
  BY OneMoves
<1>2. Running' \subseteq Running
  BY <1>1 DEF Running
<1>3. Cardinality(Running') <= Cardinality(Running) /\ Cardinality(Running') \in Nat
  BY <1>2, RunningFinite, FS_Subset, FS_CardinalityType
<1> QED
  BY <1>3, RunningFinite, Constants DEF TypeOK

LEMMA RunningGrows ==
    ASSUME TypeOK, NEW t \in Tasks, NEW state, Becomes(t, state),
           Cardinality(Running) < MaxParallel
    PROVE  Cardinality(Running') <= MaxParallel
<1>1. \A u \in Tasks : u # t => child'[u] = child[u]
  BY OneMoves
<1>2. Running' \subseteq Running \cup {t}
  BY <1>1 DEF Running
<1>3. /\ IsFiniteSet(Running \cup {t})
      /\ Cardinality(Running \cup {t}) <= Cardinality(Running) + 1
  <2>1. IsFiniteSet(Running) /\ Cardinality(Running) \in Nat
    BY RunningFinite
  <2>2. /\ IsFiniteSet(Running \cup {t})
        /\ Cardinality(Running \cup {t}) = IF t \in Running
               THEN Cardinality(Running) ELSE Cardinality(Running) + 1
    BY <2>1, FS_AddElement
  <2> QED
    BY <2>1, <2>2
<1>4. /\ Cardinality(Running') <= Cardinality(Running \cup {t})
      /\ Cardinality(Running') \in Nat
      /\ Cardinality(Running \cup {t}) \in Nat
  BY <1>2, <1>3, FS_Subset, FS_CardinalityType
<1> QED
  BY <1>3, <1>4, RunningFinite, Constants

LEMMA TypeInit == Init => TypeOK
<1> SUFFICES ASSUME Init PROVE TypeOK
  OBVIOUS
<1>1. Running = {}
  BY DEF Init, Running
<1>2. Cardinality(Running) = 0
  BY <1>1, FS_EmptySet
<1>3. deps \in [Tasks -> SUBSET (Tasks \cup {Dangling})]
  BY FleetAssumption DEF FleetAssumption, Init
<1>4. Cardinality(Running) <= MaxParallel
  BY <1>2, Constants
<1>5. child \in [Tasks ->
          {"absent", "started", "passed", "charged", "complete", "raised"}]
  BY DEF Init
<1>6. /\ run \in {"idle", "running", "answered", "raised"}
      /\ remaining \in SUBSET Tasks /\ done \in SUBSET Tasks
      /\ wave \in SUBSET Tasks
      /\ cancelled \in BOOLEAN
      /\ spent \in Nat
      /\ latest \in Tasks \cup {0}
  BY DEF Init
<1> QED
  BY <1>3, <1>4, <1>5, <1>6 DEF TypeOK

LEMMA TypeStep == TypeOK /\ [Next]_vars => TypeOK'
<1> SUFFICES ASSUME TypeOK, [Next]_vars PROVE TypeOK'
  OBVIOUS
<1> DEFINE Places == {"absent", "started", "passed", "charged", "complete", "raised"}
<1>1. CASE Master
  <2>1. child' = child /\ spent' = spent /\ latest' = latest /\ deps' = deps
    BY <1>1 DEF Master, Begin, BeginWave, EndWave, Synthesize, MeetException, Abort, budget
  <2>2. Running' = Running
    BY <2>1 DEF Running
  <2>3. /\ run' \in {"idle", "running", "answered", "raised"}
        /\ cancelled' \in BOOLEAN
    BY <1>1 DEF Master, Begin, BeginWave, EndWave, Synthesize, MeetException, Abort, TypeOK
  <2>4. /\ remaining' \in SUBSET Tasks /\ done' \in SUBSET Tasks
        /\ wave' \in SUBSET Tasks
    BY <1>1 DEF Master, Begin, BeginWave, EndWave, Synthesize, MeetException, Abort, TypeOK, Ready
  <2> QED
    BY <2>1, <2>2, <2>3, <2>4 DEF TypeOK
<1>2. ASSUME NEW t \in Tasks, Step(t) PROVE TypeOK'
  <2>1. PICK state \in Places : Becomes(t, state)
    BY <1>2 DEF Step, Start, Pass, Refuse, Charge, Complete, Raise
  <2>2. child' \in [Tasks -> Places]
    BY <2>1 DEF Becomes, TypeOK
  <2>3. t \in Running \/ Cardinality(Running) < MaxParallel
    BY <1>2 DEF Step, Start, Pass, Refuse, Charge, Complete, Raise, Running
  <2>4. Cardinality(Running') <= MaxParallel
    BY <2>1, <2>3, RunningShrinks, RunningGrows
  <2>5. schedule' = schedule
    BY <1>2 DEF Step, Start, Pass, Refuse, Charge, Complete, Raise
  <2>6. spent' \in Nat /\ latest' \in Tasks \cup {0}
    BY <1>2, Constants
       DEF Step, Start, Pass, Refuse, Charge, Complete, Raise, budget, TypeOK
  <2> QED
    BY <2>2, <2>4, <2>5, <2>6 DEF TypeOK, schedule
<1>3. CASE UNCHANGED vars
  <2>1. Running' = Running
    BY <1>3 DEF vars, Running
  <2> QED
    BY <1>3, <2>1 DEF TypeOK, vars, schedule, budget
<1> QED
  BY <1>1, <1>2, <1>3 DEF Next

\* The schedule's parts are subtasks, and the pool never runs more children than
\* max_parallel (orchestration.py: run).
THEOREM FleetTyped == Spec => []TypeOK
<1>1. Init => TypeOK
  BY TypeInit
<1>2. TypeOK /\ [Next]_vars => TypeOK'
  BY TypeStep
<1> QED
  BY <1>1, <1>2, PTL DEF Spec

-----------------------------------------------------------------------------
(* The order of the waves. *)

\* What no subtask of Stuck is.
LEMMA NotStuck ==
    ASSUME NEW t \in Tasks, deps[t] \subseteq Tasks \ Stuck
    PROVE  t \notin Stuck
<1> SUFFICES ASSUME NEW S \in SUBSET Tasks, t \in S,
                    \A u \in S : deps[u] \cap (S \cup {Dangling}) # {}
             PROVE  FALSE
  BY DEF Stuck
<1>1. PICK d \in deps[t] : d \in S \cup {Dangling}
  OBVIOUS
<1>2. Dangling \notin Tasks
  BY Constants DEF Dangling, Tasks
<1>3. d \in S
  BY <1>1, <1>2
<1>4. S \subseteq Stuck
  BY DEF Stuck
<1> QED
  BY <1>3, <1>4

\* When nothing gets ready any more, what remains waits for itself.
LEMMA RestIsStuck ==
    ASSUME TypeOK, Covered, wave = {}, Ready = {}
    PROVE  remaining \subseteq Stuck
<1>1. ASSUME NEW t \in remaining
      PROVE  deps[t] \cap (remaining \cup {Dangling}) # {}
  <2>1. t \in Tasks /\ deps[t] \subseteq Tasks \cup {Dangling}
    BY DEF TypeOK
  <2>2. PICK d \in deps[t] : d \notin done
    BY DEF Ready
  <2>3. d \in remaining \cup {Dangling}
    BY <2>1, <2>2 DEF Covered
  <2> QED
    BY <2>3
<1>2. remaining \in SUBSET Tasks
  BY DEF TypeOK
<1> QED
  BY <1>1, <1>2 DEF Stuck

LEMMA ReadyIsFree ==
    ASSUME TypeOK, done \cap Stuck = {}
    PROVE  Ready \cap Stuck = {}
<1> SUFFICES ASSUME NEW t \in Ready PROVE t \notin Stuck
  OBVIOUS
<1>1. t \in Tasks /\ deps[t] \subseteq Tasks \ Stuck
  BY DEF Ready, TypeOK
<1> QED
  BY <1>1, NotStuck

LEMMA WaveInit == Init => WaveInv
<1> SUFFICES ASSUME Init PROVE WaveInv
  OBVIOUS
<1>1. Covered /\ InWaves /\ Layered
  BY DEF Init, Covered, InWaves, Layered
<1> QED
  BY <1>1, TypeInit DEF WaveInv

LEMMA BeginWaveKeeps ==
    ASSUME WaveInv, BeginWave
    PROVE  Covered' /\ InWaves' /\ Layered'
<1>1. /\ TypeOK /\ wave = {} /\ done' = done /\ deps' = deps /\ child' = child
      /\ Covered /\ InWaves /\ Layered
      /\ remaining' = remaining \ wave'
  BY DEF WaveInv, BeginWave, budget
<1>2. Stuck' = Stuck
  BY <1>1 DEF Stuck
<1>3. wave' \subseteq remaining
  BY DEF BeginWave, Ready
<1>4. Covered'
  BY <1>1, <1>3 DEF Covered
<1>5. InWaves'
  BY <1>1 DEF InWaves
<1>6. CASE Ready = {}
  <2>1. wave' = remaining
    BY <1>6 DEF BeginWave
  <2>2. remaining \subseteq Stuck
    BY <1>1, <1>6, RestIsStuck
  <2>3. Tasks \ Stuck \subseteq done
    BY <1>1, <2>2 DEF Covered
  <2> QED
    BY <1>1, <1>2, <1>4, <1>5, <2>1, <2>2, <2>3 DEF Layered
<1>7. CASE Ready # {}
  <2>1. wave' = Ready
    BY <1>7 DEF BeginWave
  <2>2. \A t \in wave' : deps[t] \subseteq done
    BY <2>1 DEF Ready
  <2>3. (wave' \cup done) \cap Stuck # {} => Tasks \ Stuck \subseteq done
    BY <1>1, <2>1, ReadyIsFree DEF Layered
  <2> QED
    BY <1>1, <1>2, <1>4, <1>5, <2>2, <2>3 DEF Layered
<1> QED
  BY <1>6, <1>7

LEMMA WaveStep == WaveInv /\ [Next]_vars => WaveInv'
<1> SUFFICES ASSUME WaveInv, [Next]_vars PROVE WaveInv'
  OBVIOUS
<1>1. TypeOK'
  BY TypeStep DEF WaveInv
<1>2. TypeOK /\ Covered /\ InWaves /\ Layered
  BY DEF WaveInv
<1>3. deps' = deps /\ Stuck' = Stuck
  <2>1. deps' = deps
    BY DEF Next, Master, Begin, BeginWave, EndWave, Synthesize, MeetException, Abort,
           Step, Start, Pass, Refuse, Charge, Complete, Raise, schedule, vars
  <2> QED
    BY <2>1 DEF Stuck
<1>4. CASE BeginWave
  BY <1>1, <1>4, BeginWaveKeeps DEF WaveInv
<1>5. CASE EndWave
  <2>1. /\ \A t \in wave : child[t] = "complete"
        /\ done' = done \cup wave /\ wave' = {}
        /\ remaining' = remaining /\ child' = child
    BY <1>5 DEF EndWave
  <2>2. Covered' /\ InWaves'
    BY <1>2, <2>1 DEF Covered, InWaves
  <2>3. Layered'
    BY <1>2, <1>3, <2>1 DEF Layered
  <2> QED
    BY <1>1, <2>2, <2>3 DEF WaveInv
<1>6. CASE Begin \/ Synthesize \/ MeetException \/ Abort \/ UNCHANGED vars
  <2>1. UNCHANGED <<remaining, wave, done, child>>
    BY <1>6 DEF Begin, Synthesize, MeetException, Abort, vars, schedule
  <2>2. Covered' /\ InWaves' /\ Layered'
    BY <1>2, <1>3, <2>1 DEF Covered, InWaves, Layered
  <2> QED
    BY <1>1, <2>2 DEF WaveInv
<1>7. ASSUME NEW t \in Tasks, Step(t) PROVE WaveInv'
  <2>1. UNCHANGED <<remaining, wave, done>>
    BY <1>7 DEF Step, Start, Pass, Refuse, Charge, Complete, Raise, schedule
  <2>2. PICK state : Becomes(t, state)
    BY <1>7 DEF Step, Start, Pass, Refuse, Charge, Complete, Raise
  <2>3. child[t] # "complete" /\ (child[t] # "absent" \/ t \in wave)
    BY <1>7 DEF Step, Start, Pass, Refuse, Charge, Complete, Raise
  <2>4. \A u \in Tasks : u # t => child'[u] = child[u]
    BY <1>2, <2>2, OneMoves
  <2>5. t \in wave \cup done /\ t \notin done
    BY <1>2, <2>3 DEF InWaves
  <2>6. done \subseteq Tasks
    BY <1>2 DEF TypeOK
  <2>7. InWaves'
    BY <1>2, <2>1, <2>4, <2>5, <2>6 DEF InWaves
  <2>8. Covered' /\ Layered'
    BY <1>2, <1>3, <2>1 DEF Covered, Layered
  <2> QED
    BY <1>1, <2>7, <2>8 DEF WaveInv
<1> QED
  BY <1>4, <1>5, <1>6, <1>7 DEF Next, Master

LEMMA WavesAreFirst == WaveInv => DependenciesFirst
<1> SUFFICES ASSUME WaveInv, NEW t \in Tasks, child[t] # "absent"
             PROVE  IF t \in Stuck THEN \A u \in Tasks \ Stuck : child[u] = "complete"
                    ELSE \A d \in deps[t] : child[d] = "complete"
  BY DEF DependenciesFirst
<1>1. t \in wave \cup done /\ \A u \in done : child[u] = "complete"
  BY DEF WaveInv, InWaves
<1>2. CASE t \in Stuck
  BY <1>1, <1>2 DEF WaveInv, Layered
<1>3. CASE t \notin Stuck
  BY <1>1, <1>3 DEF WaveInv, Layered
<1> QED
  BY <1>2, <1>3

\* Whatever the planner answers, a cycle or a prerequisite that does not exist
\* included, no subtask starts before those it can wait for (Plan.waves).
THEOREM PrerequisitesComeFirst == Spec => []DependenciesFirst
<1>1. Init => WaveInv
  BY WaveInit
<1>2. WaveInv /\ [Next]_vars => WaveInv'
  BY WaveStep
<1>3. WaveInv => DependenciesFirst
  BY WavesAreFirst
<1> QED
  BY <1>1, <1>2, <1>3, PTL DEF Spec

-----------------------------------------------------------------------------
(* The budget. *)

\* The children that have passed the shared budget and are not yet charged.
Due == {t \in Payers : child[t] = "passed"}

Dues == Cardinality(Due)

\* With costs up to m, what those that are due may still charge stays within the
\* bound.  The one that passed last found room for itself beside all that was
\* spent, so only the others can pass the ceiling.
Within(m) ==
    IF latest \in Due
    THEN spent + Cost[latest] + (Dues - 1) * m <= Limit + (MaxParallel - 1) * m
    ELSE spent + Dues * m <= Limit + (MaxParallel - 1) * m

SpendInv ==
    /\ TypeOK
    /\ \A m \in Nat : (\A t \in Payers : Cost[t] <= m) => Within(m)

LEMMA DueFinite ==
    ASSUME TypeOK
    PROVE  IsFiniteSet(Due) /\ Dues \in Nat /\ Dues <= Cardinality(Running)
<1>1. Due \subseteq Running
  BY DEF Due, Payers, Running
<1> QED
  BY <1>1, RunningFinite, FS_Subset, FS_CardinalityType DEF Dues

LEMMA Monotone ==
    ASSUME NEW a \in Nat, NEW b \in Nat, NEW m \in Nat, a <= b
    PROVE  a * m <= b * m
OBVIOUS

\* A child that is due no more is one less, whatever becomes of it.
LEMMA OneLess ==
    ASSUME TypeOK, NEW t \in Due, NEW state, Becomes(t, state), state # "passed"
    PROVE  Due' = Due \ {t} /\ Dues' = Dues - 1
<1>1. t \in Tasks
  BY DEF Due, Payers
<1>2. child'[t] = state /\ \A u \in Tasks : u # t => child'[u] = child[u]
  BY <1>1, OneMoves
<1>3. Due' = Due \ {t}
  BY <1>2 DEF Due, Payers
<1> QED
  BY <1>3, DueFinite, FS_RemoveElement DEF Dues

LEMMA OneMore ==
    ASSUME TypeOK, NEW t \in Payers, child[t] = "started", Becomes(t, "passed")
    PROVE  Due' = Due \cup {t} /\ Dues' = Dues + 1
<1>1. t \in Tasks
  BY DEF Payers
<1>2. child'[t] = "passed" /\ \A u \in Tasks : u # t => child'[u] = child[u]
  BY <1>1, OneMoves
<1>3. Due' = Due \cup {t} /\ t \notin Due
  BY <1>2 DEF Due, Payers
<1> QED
  BY <1>3, DueFinite, FS_AddElement DEF Dues

\* A child that does not draw from the shared budget, or is not due, leaves what
\* is due alone.
LEMMA NoneLess ==
    ASSUME TypeOK, NEW t \in Tasks, NEW state, Becomes(t, state), t \notin Due,
           t \in Payers => state # "passed"
    PROVE  Due' = Due /\ Dues' = Dues
<1>1. child'[t] = state /\ \A u \in Tasks : u # t => child'[u] = child[u]
  BY OneMoves
<1>2. Due' = Due
  BY <1>1 DEF Due, Payers
<1> QED
  BY <1>2 DEF Dues

LEMMA SpendInit == Init => SpendInv
<1> SUFFICES ASSUME Init PROVE SpendInv
  OBVIOUS
<1>1. Due = {}
  BY DEF Init, Due, Payers
<1>2. Dues = 0 /\ latest \notin Due
  BY <1>1, FS_EmptySet DEF Dues
<1>3. ASSUME NEW m \in Nat PROVE Within(m)
  <2>1. 0 <= (MaxParallel - 1) * m
    <3>1. MaxParallel - 1 \in Nat
      BY Constants
    <3>2. 0 * m <= (MaxParallel - 1) * m
      BY <3>1, Monotone
    <3> QED
      BY <3>2
  <2>2. (MaxParallel - 1) * m \in Nat
    BY Constants, <2>1
  <2>3. spent + Dues * m = 0
    BY <1>2 DEF Init
  <2>4. spent + Dues * m <= Limit + (MaxParallel - 1) * m
    BY <2>1, <2>2, <2>3, Constants
  <2> QED
    BY <1>2, <2>4 DEF Within
<1> QED
  BY <1>3, TypeInit DEF SpendInv

\* A child that passes leaves room for itself; the others that are due are at most
\* max_parallel - 1.
LEMMA PassKeeps ==
    ASSUME TypeOK, TypeOK', NEW m \in Nat, NEW t \in Payers, Pass(t)
    PROVE  Within(m)'
<1>1. /\ child[t] = "started" /\ Becomes(t, "passed")
      /\ latest' = t /\ spent' = spent /\ spent + Cost[t] <= Limit
      /\ t \in Tasks
  BY DEF Pass, Payers, Affordable
<1>2. t \in Due' /\ Dues' = Dues + 1
  BY <1>1, OneMore
<1>3. Dues' <= MaxParallel
  <2>1. Running' \subseteq Tasks /\ IsFiniteSet(Tasks)
    BY Constants, FS_Interval DEF Running, Tasks
  <2>2. IsFiniteSet(Running')
    BY <2>1, FS_Subset
  <2>3. Due' \subseteq Running'
    BY DEF Due, Payers, Running
  <2>4. Dues' <= Cardinality(Running')
    BY <2>2, <2>3, FS_Subset DEF Dues
  <2>5. Cardinality(Running') <= MaxParallel /\ Cardinality(Running') \in Nat
    BY <2>2, FS_CardinalityType DEF TypeOK
  <2>6. Dues' \in Nat
    BY <1>2, DueFinite
  <2> QED
    BY <2>4, <2>5, <2>6, Constants
<1>4. Dues \in Nat /\ spent \in Nat /\ Cost[t] \in Nat
  BY <1>1, DueFinite, Constants DEF TypeOK
<1>5. Dues * m <= (MaxParallel - 1) * m
  BY <1>2, <1>3, <1>4, Constants, Monotone
<1>6. Dues' - 1 = Dues
  BY <1>2, <1>4
<1>7. Dues * m \in Nat /\ (MaxParallel - 1) * m \in Int
  BY <1>4, Constants
<1>8. spent + Cost[t] + Dues * m <= Limit + (MaxParallel - 1) * m
  BY <1>1, <1>4, <1>5, <1>7, Constants
<1> QED
  BY <1>1, <1>2, <1>6, <1>8 DEF Within

\* A child that is due charges its cost, or nothing.
LEMMA SettleKeeps ==
    ASSUME TypeOK, TypeOK', NEW m \in Nat, Within(m), NEW t \in Due,
           NEW state, Becomes(t, state), state # "passed",
           Cost[t] <= m, latest' = latest, spent' \in {spent, spent + Cost[t]}
    PROVE  Within(m)'
<1>1. Due' = Due \ {t} /\ Dues' = Dues - 1
  BY OneLess
<1>2. t \in Tasks /\ Dues \in Nat /\ spent \in Nat /\ Cost[t] \in Nat
  BY DueFinite, Constants DEF TypeOK, Due, Payers
<1>3. PICK bound \in Int : bound = Limit + (MaxParallel - 1) * m
  BY Constants
<1>4. PICK owed \in Int : owed = Dues * m
  BY <1>2
<1>5. (Dues - 1) * m = owed - m /\ (Dues - 1 - 1) * m = owed - m - m
  BY <1>2, <1>4
<1>6. CASE latest = t
  <2>1. spent + Cost[t] + (owed - m) <= bound
    BY <1>3, <1>5, <1>6 DEF Within
  <2>2. spent' + (owed - m) <= bound
    BY <1>2, <1>3, <1>4, <2>1
  <2>3. latest' \notin Due'
    BY <1>1, <1>6
  <2> QED
    BY <1>1, <1>3, <1>5, <2>2, <2>3 DEF Within
<1>7. CASE latest # t /\ latest \in Due
  <2>1. spent + Cost[latest] + (owed - m) <= bound /\ Cost[latest] \in Nat
    BY <1>3, <1>5, <1>7, Constants DEF Within, Due, Payers
  <2>2. spent' + Cost[latest] + (owed - m - m) <= bound
    BY <1>2, <1>3, <1>4, <2>1
  <2>3. latest' \in Due'
    BY <1>1, <1>7
  <2> QED
    BY <1>1, <1>3, <1>5, <2>2, <2>3 DEF Within
<1>8. CASE latest # t /\ latest \notin Due
  <2>1. spent + owed <= bound
    BY <1>3, <1>4, <1>8 DEF Within
  <2>2. spent' + (owed - m) <= bound
    BY <1>2, <1>3, <1>4, <2>1
  <2>3. latest' \notin Due'
    BY <1>1, <1>8
  <2> QED
    BY <1>1, <1>3, <1>5, <2>2, <2>3 DEF Within
<1> QED
  BY <1>6, <1>7, <1>8

LEMMA SpendStep == SpendInv /\ [Next]_vars => SpendInv'
<1> SUFFICES ASSUME SpendInv, [Next]_vars, NEW m \in Nat,
                    \A t \in Payers : Cost[t] <= m
             PROVE  Within(m)'
  BY TypeStep DEF SpendInv, Payers
<1>1. TypeOK /\ TypeOK' /\ Within(m)
  BY TypeStep DEF SpendInv
<1>2. CASE Master \/ UNCHANGED vars
  <2>1. child' = child /\ spent' = spent /\ latest' = latest
    BY <1>2 DEF Master, Begin, BeginWave, EndWave, Synthesize, MeetException, Abort,
                budget, vars
  <2>2. Due' = Due /\ Dues' = Dues
    BY <2>1 DEF Due, Dues
  <2> QED
    BY <1>1, <2>1, <2>2 DEF Within
<1>3. ASSUME NEW t \in Tasks, Pass(t) PROVE Within(m)'
  <2>1. CASE t \in Payers
    BY <1>1, <1>3, <2>1, PassKeeps
  <2>2. CASE t \notin Payers
    <3>1. /\ Becomes(t, "passed") /\ t \notin Due
          /\ latest' = latest /\ spent' = spent
      BY <1>3, <2>2 DEF Pass, Payers, Due
    <3>2. Due' = Due /\ Dues' = Dues
      BY <1>1, <2>2, <3>1, NoneLess
    <3> QED
      BY <1>1, <3>1, <3>2 DEF Within
  <2> QED
    BY <2>1, <2>2
<1>4. ASSUME NEW t \in Tasks, Step(t), ~Pass(t) PROVE Within(m)'
  <2>1. PICK state : Becomes(t, state) /\ state # "passed"
    BY <1>4 DEF Step, Start, Refuse, Charge, Complete, Raise
  <2>2. latest' = latest
    BY <1>4 DEF Step, Start, Refuse, Charge, Complete, Raise, budget
  <2>3. CASE t \in Due
    <3>1. t \in Payers /\ Cost[t] <= m
      BY <2>3 DEF Due
    <3>2. spent' \in {spent, spent + Cost[t]}
      BY <1>4 DEF Step, Start, Refuse, Charge, Complete, Raise, budget
    <3> QED
      BY <1>1, <2>1, <2>2, <2>3, <3>1, <3>2, SettleKeeps
  <2>4. CASE t \notin Due
    <3>1. spent' = spent
      BY <1>4, <2>4 DEF Step, Start, Refuse, Charge, Complete, Raise, budget, Due, Payers
    <3>2. Due' = Due /\ Dues' = Dues
      BY <1>1, <2>1, <2>4, NoneLess
    <3> QED
      BY <1>1, <2>2, <3>1, <3>2 DEF Within
  <2> QED
    BY <2>3, <2>4
<1> QED
  BY <1>2, <1>3, <1>4 DEF Next

LEMMA SpendBound == SpendInv => SpendIsBounded
<1> SUFFICES ASSUME SpendInv, NEW m \in {Cost[t] : t \in Payers},
                    \A t \in Payers : Cost[t] <= m
             PROVE  spent <= Limit + (MaxParallel - 1) * m
  BY DEF SpendIsBounded
<1>1. m \in Nat
  BY Constants DEF Payers
<1>2. Within(m) /\ spent \in Nat /\ Dues \in Nat
  BY <1>1, DueFinite DEF SpendInv, TypeOK
<1>3. PICK bound \in Int : bound = Limit + (MaxParallel - 1) * m
  BY <1>1, Constants
<1>4. CASE latest \in Due
  <2>1. Cost[latest] \in Nat
    BY <1>4, Constants DEF Due, Payers
  <2>2. Dues > 0
    BY <1>2, <1>4, DueFinite, FS_EmptySet DEF SpendInv, Dues
  <2>3. (Dues - 1) * m \in Nat
    <3>1. Dues - 1 \in Nat
      BY <1>2, <2>2
    <3> QED
      BY <1>1, <3>1
  <2>4. spent + Cost[latest] + (Dues - 1) * m <= bound
    BY <1>2, <1>3, <1>4 DEF Within
  <2>5. spent <= bound
    BY <1>2, <2>1, <2>3, <2>4
  <2> QED
    BY <1>3, <2>5
<1>5. CASE latest \notin Due
  <2>1. Dues * m \in Nat
    BY <1>1, <1>2
  <2>2. spent + Dues * m <= bound
    BY <1>2, <1>3, <1>5 DEF Within
  <2>3. spent <= bound
    BY <1>2, <2>1, <2>2
  <2> QED
    BY <1>3, <2>3
<1> QED
  BY <1>4, <1>5

\* For every ceiling, every price list and any number of workers: children that
\* share a budget pass its ceiling by no more than the largest cost for each
\* worker but one (EconomicKernel.authorize and charge, apart in Agent.run).
THEOREM OverspendIsBounded == Spec => []SpendIsBounded
<1>1. Init => SpendInv
  BY SpendInit
<1>2. SpendInv /\ [Next]_vars => SpendInv'
  BY SpendStep
<1>3. SpendInv => SpendIsBounded
  BY SpendBound
<1> QED
  BY <1>1, <1>2, <1>3, PTL DEF Spec
=============================================================================
