----------------------- MODULE AdaptiveExecutorProofs -----------------------
(***************************************************************************)
(* Proofs about the executor, for every batch, every number of threads and *)
(* every setting of the budgets and of the ceiling.                        *)
(***************************************************************************)
EXTENDS AdaptiveExecutor, FiniteSetTheorems, FunctionTheorems,
        SequenceTheorems, TLAPS

ItemOf(w) == worker[w].item

\* An item that is queued or held is the only one of its task, and its task has
\* no outcome yet.
Placement ==
    /\ \A i \in 1..Len(queue) : outcome[queue[i].task] = "none"
    /\ \A w \in Workers : Holds(w) => outcome[ItemOf(w).task] = "none"
    /\ \A i, j \in 1..Len(queue) : i # j => queue[i].task # queue[j].task
    /\ \A v, w \in Workers :
          v # w /\ Holds(v) /\ Holds(w) => ItemOf(v).task # ItemOf(w).task
    /\ \A i \in 1..Len(queue), w \in Workers :
          Holds(w) => queue[i].task # ItemOf(w).task

\* What an item has used of its budgets is what its task was called.
Charges ==
    /\ \A i \in 1..Len(queue) :
          tries[queue[i].task] = queue[i].attempts + queue[i].throttles
    /\ \A w \in Workers : worker[w].phase = "backoff" =>
          tries[ItemOf(w).task] = ItemOf(w).attempts + ItemOf(w).throttles
    /\ \A w \in Workers : worker[w].phase = "running" =>
          tries[ItemOf(w).task] = ItemOf(w).attempts + ItemOf(w).throttles + 1

ExitedAtEnd ==
    \A w \in Workers : worker[w].phase = "exited" => remaining = 0

IInv ==
    /\ TypeOK
    /\ CountersAgree
    /\ Placement
    /\ Charges
    /\ TriesAreBounded
    /\ ExitedAtEnd

-----------------------------------------------------------------------------
(* Lemmas about the sets the counters count. *)

\* The ceiling the executor compares with lies between its two bounds.
LEMMA LimitBounds ==
    ASSUME TypeOK
    PROVE  /\ EffectiveMax \in Nat \ {0} /\ MinActive <= EffectiveMax
           /\ Limit \in Nat /\ Limit <= EffectiveMax
  <1>1. Cardinality(Tasks) \in Nat
    BY ExecutorAssumption, FS_CardinalityType
  <1>2. QED
    BY <1>1, ExecutorAssumption
    DEF EffectiveMax, Limit, Larger, Smaller, TypeOK

\* Running and Undone are finite, so that they can be counted.
LEMMA CountedSets ==
    /\ IsFiniteSet(Running) /\ Cardinality(Running) \in Nat
    /\ IsFiniteSet(Undone) /\ Cardinality(Undone) \in Nat
  <1>1. Running \in SUBSET Workers /\ Undone \in SUBSET Tasks
    BY DEF Running, Undone
  <1>2. IsFiniteSet(Running) /\ IsFiniteSet(Undone)
    BY <1>1, FS_Subset, ExecutorAssumption
  <1>3. QED BY <1>2, FS_CardinalityType

\* Every item's task is a task, and its use of the budgets is within them.
LEMMA HeldItem ==
    ASSUME TypeOK, NEW w \in Workers, Holds(w)
    PROVE  /\ ItemOf(w) \in Items
           /\ ItemOf(w).task \in Tasks
           /\ ItemOf(w).attempts \in 0..(MaxAttempts - 1)
           /\ ItemOf(w).throttles \in 0..MaxThrottle
  <1>1. ItemOf(w) \in Items
    BY DEF TypeOK, ItemOf
  <1>2. QED BY <1>1 DEF Items

LEMMA QueuedItem ==
    ASSUME TypeOK, NEW i \in 1..Len(queue)
    PROVE  /\ queue[i] \in Items
           /\ queue[i].task \in Tasks
           /\ queue[i].attempts \in 0..(MaxAttempts - 1)
           /\ queue[i].throttles \in 0..MaxThrottle
  <1>1. queue[i] \in Items
    BY ElementOfSeq DEF TypeOK
  <1>2. QED BY <1>1 DEF Items

\* An item is never the token for no item.
LEMMA NoItemIsNoItem == NoItem \notin Items
  BY ExecutorAssumption DEF Items

-----------------------------------------------------------------------------
\* The invariant holds when the batch starts.
LEMMA InitIInv == Init => IInv
  <1>1. SUFFICES ASSUME Init PROVE IInv
    OBVIOUS
  <1>2. Cardinality(Tasks) \in Nat
    BY ExecutorAssumption, FS_CardinalityType
  <1>3. PICK q \in Orders :
          queue = [i \in DOMAIN q |->
                     [task |-> q[i], attempts |-> 0, throttles |-> 0]]
    BY <1>1 DEF Init
  <1>4. q \in [1..Cardinality(Tasks) -> Tasks]
    BY DEF Orders
  <1>5. /\ DOMAIN queue = 1..Cardinality(Tasks)
        /\ \A i \in 1..Cardinality(Tasks) :
              queue[i] = [task |-> q[i], attempts |-> 0, throttles |-> 0]
    BY <1>3, <1>4
  <1>6. queue \in [1..Cardinality(Tasks) -> Items]
    BY <1>3, <1>4, ExecutorAssumption DEF Items
  <1>16. \A i \in 1..Cardinality(Tasks) :
            /\ queue[i].task = q[i] /\ q[i] \in Tasks
            /\ queue[i].attempts = 0 /\ queue[i].throttles = 0
    BY <1>4, <1>5
  <1>7. queue \in Seq(Items)
    BY <1>2, <1>6, SeqDef
  <1>8. Len(queue) = Cardinality(Tasks)
    BY <1>2, <1>5, <1>7, LenProperties
  <1>9. \A w \in Workers : worker[w] = Resting /\ ~Holds(w)
    BY <1>1 DEF Init, Resting, Holds
  <1>10. TypeOK
    <2>1. EffectiveMax \in Nat \ {0}
      BY <1>2, ExecutorAssumption DEF EffectiveMax, Larger, Smaller
    <2>2. ceiling \in Nat \ {0}
      BY <1>1, <2>1, ExecutorAssumption DEF Init, Smaller
    <2>3. \A w \in Workers : Holds(w) <=> worker[w].item # NoItem
      BY <1>9 DEF Resting
    <2>4. worker \in [Workers -> [phase : {"waiting", "running", "backoff",
                                           "exited"},
                                  item : Items \union {NoItem}]]
      BY <1>1 DEF Init, Resting
    <2>5. QED BY <1>1, <1>2, <1>7, <2>2, <2>3, <2>4 DEF Init, TypeOK
  <1>11. CountersAgree
    <2>1. Running = {}
      BY <1>9 DEF Resting, Running
    <2>2. Undone = Tasks
      BY <1>1 DEF Init, Undone
    <2>3. QED
      BY <1>1, <2>1, <2>2, <1>10, LimitBounds, FS_EmptySet
      DEF Init, CountersAgree
  <1>12. Placement
    <2>1. \A i \in 1..Len(queue) : outcome[queue[i].task] = "none"
      BY <1>1, <1>16, <1>8 DEF Init
    <2>2. \A i, j \in 1..Len(queue) : i # j => queue[i].task # queue[j].task
      <3>1. \A i, j \in 1..Cardinality(Tasks) : q[i] = q[j] => i = j
        BY DEF Orders
      <3>2. QED BY <3>1, <1>16, <1>8
    <2>3. QED BY <2>1, <2>2, <1>9 DEF Placement
  <1>13. Charges
    <2>1. \A w \in Workers : worker[w].phase = "waiting"
      BY <1>9 DEF Resting
    <2>2. \A t \in Tasks : tries[t] = 0
      BY <1>1 DEF Init
    <2>3. QED BY <1>16, <1>8, <2>1, <2>2 DEF Charges
  <1>14. TriesAreBounded /\ ExitedAtEnd
    BY <1>1, <1>9, ExecutorAssumption
    DEF Init, TriesAreBounded, ExitedAtEnd, Resting
  <1>15. QED BY <1>10, <1>11, <1>12, <1>13, <1>14 DEF IInv

-----------------------------------------------------------------------------
(* One lemma per kind of critical section. *)

\* The item at the head leaves the queue for the hands of an empty-handed
\* worker, and is charged with one more call.
LEMMA TakeKeeps ==
    ASSUME IInv, NEW w \in Workers, Take(w) PROVE IInv'
  <1>1. /\ queue \in Seq(Items) /\ queue # <<>>
        /\ worker[w].phase = "waiting" /\ ~Holds(w)
        /\ remaining # 0 /\ active < Limit
    BY DEF Take, IInv, TypeOK, Holds
  <1>2. /\ Head(queue) \in Items /\ queue' \in Seq(Items)
        /\ Len(queue) \in Nat \ {0} /\ Len(queue') = Len(queue) - 1
        /\ \A i \in 1..Len(queue') : queue'[i] = queue[i + 1]
        /\ Head(queue) = queue[1]
    BY <1>1, HeadTailProperties, EmptySeq, LenProperties DEF Take
  <1>3. \A i \in 1..Len(queue') : i + 1 \in 1..Len(queue) /\ i + 1 # 1
    BY <1>2
  <1>4. 1 \in 1..Len(queue)
    BY <1>2
  <1>5. /\ queue[1].task \in Tasks
        /\ queue[1].attempts \in 0..(MaxAttempts - 1)
        /\ queue[1].throttles \in 0..MaxThrottle
    BY <1>2 DEF Items
  <1>6. /\ worker' = [worker EXCEPT ![w] =
                         [phase |-> "running", item |-> queue[1]]]
        /\ tries' = [tries EXCEPT ![queue[1].task] = @ + 1]
        /\ active' = active + 1
        /\ UNCHANGED <<remaining, ceiling, outcome>>
    BY <1>2 DEF Take
  <1>7. /\ worker'[w] = [phase |-> "running", item |-> queue[1]]
        /\ \A v \in Workers : v # w => worker'[v] = worker[v]
    BY <1>6 DEF IInv, TypeOK
  <1>8. /\ Holds(w)' /\ ItemOf(w)' = queue[1]
        /\ \A v \in Workers : v # w =>
              (Holds(v)' <=> Holds(v)) /\ ItemOf(v)' = ItemOf(v)
    BY <1>7 DEF Holds, ItemOf
  <1>9. TypeOK'
    <2>1. \A v \in Workers : Holds(v)' <=> worker'[v].item # NoItem
      <3>1. queue[1] # NoItem
        BY <1>2, NoItemIsNoItem
      <3>2. \A v \in Workers : Holds(v) <=> worker[v].item # NoItem
        BY DEF IInv, TypeOK
      <3>3. QED BY <1>7, <1>8, <3>1, <3>2
    <2>2. worker' \in [Workers -> [phase : {"waiting", "running", "backoff",
                                            "exited"},
                                   item : Items \union {NoItem}]]
      BY <1>2, <1>6 DEF IInv, TypeOK
    <2>3. tries' \in [Tasks -> Nat]
      BY <1>5, <1>6 DEF IInv, TypeOK
    <2>4. QED BY <1>2, <1>6, <2>1, <2>2, <2>3 DEF IInv, TypeOK
  <1>10. CountersAgree'
    <2>1. Running' = Running \union {w} /\ w \notin Running
      BY <1>1, <1>7 DEF Running
    <2>2. Cardinality(Running') = Cardinality(Running) + 1
      BY <2>1, FS_AddElement, CountedSets
    <2>3. Undone' = Undone
      BY <1>6 DEF Undone
    <2>4. active' <= EffectiveMax
      BY <1>1, <1>6, LimitBounds DEF IInv, TypeOK
    <2>5. EffectiveMax' = EffectiveMax
      BY DEF EffectiveMax
    <2>6. QED BY <1>6, <2>2, <2>3, <2>4, <2>5 DEF IInv, CountersAgree
  <1>11. Placement'
    <2>1. \A i \in 1..Len(queue') : outcome'[queue'[i].task] = "none"
      BY <1>2, <1>3, <1>6 DEF IInv, Placement
    <2>2. \A v \in Workers : Holds(v)' => outcome'[ItemOf(v)'.task] = "none"
      BY <1>4, <1>6, <1>8 DEF IInv, Placement
    <2>3. \A i, j \in 1..Len(queue') :
              i # j => queue'[i].task # queue'[j].task
      <3>1. SUFFICES ASSUME NEW i \in 1..Len(queue'),
                            NEW j \in 1..Len(queue'), i # j
                     PROVE  queue'[i].task # queue'[j].task
        OBVIOUS
      <3>2. i + 1 # j + 1
        BY <3>1
      <3>3. QED BY <1>2, <1>3, <3>1, <3>2 DEF IInv, Placement
    <2>4. \A u, v \in Workers :
              u # v /\ Holds(u)' /\ Holds(v)'
              => ItemOf(u)'.task # ItemOf(v)'.task
      BY <1>1, <1>4, <1>8 DEF IInv, Placement
    <2>5. \A i \in 1..Len(queue'), v \in Workers :
              Holds(v)' => queue'[i].task # ItemOf(v)'.task
      <3>1. SUFFICES ASSUME NEW i \in 1..Len(queue'), NEW v \in Workers,
                            Holds(v)'
                     PROVE  queue[i + 1].task # ItemOf(v)'.task
        BY <1>2
      <3>2. CASE v = w
        BY <1>3, <1>4, <1>8, <3>2 DEF IInv, Placement
      <3>3. CASE v # w
        BY <1>3, <1>8, <3>1, <3>3 DEF IInv, Placement
      <3>4. QED BY <3>2, <3>3
    <2>6. QED BY <2>1, <2>2, <2>3, <2>4, <2>5 DEF Placement
  <1>12. Charges'
    <2>1. \A i \in 1..Len(queue') : queue'[i].task # queue[1].task
      BY <1>2, <1>3, <1>4 DEF IInv, Placement
    <2>2. \A v \in Workers : v # w /\ Holds(v)
            => ItemOf(v).task # queue[1].task
      BY <1>4 DEF IInv, Placement
    <2>3. tries'[queue[1].task] = queue[1].attempts + queue[1].throttles + 1
      BY <1>4, <1>5, <1>6 DEF IInv, Charges, TypeOK
    <2>4. \A t \in Tasks : t # queue[1].task => tries'[t] = tries[t]
      BY <1>6 DEF IInv, TypeOK
    <2>5. \A i \in 1..Len(queue') : queue'[i].task \in Tasks
      BY <1>2, <1>3, QueuedItem DEF IInv
    <2>6. \A v \in Workers : Holds(v) => ItemOf(v).task \in Tasks
      BY HeldItem DEF IInv
    <2>7. \A i \in 1..Len(queue') : tries'[queue'[i].task]
            = queue'[i].attempts + queue'[i].throttles
      BY <1>2, <1>3, <2>1, <2>4, <2>5 DEF IInv, Charges
    <2>8. \A v \in Workers : v # w /\ worker'[v].phase = "backoff"
            => tries'[ItemOf(v)'.task]
                 = ItemOf(v)'.attempts + ItemOf(v)'.throttles
      BY <1>7, <1>8, <2>2, <2>4, <2>6 DEF IInv, Charges, Holds
    <2>9. \A v \in Workers : v # w /\ worker'[v].phase = "running"
            => tries'[ItemOf(v)'.task]
                 = ItemOf(v)'.attempts + ItemOf(v)'.throttles + 1
      BY <1>7, <1>8, <2>2, <2>4, <2>6 DEF IInv, Charges, Holds
    <2>10. QED BY <1>7, <1>8, <2>3, <2>7, <2>8, <2>9 DEF Charges
  <1>13. TriesAreBounded'
    <2>1. tries[queue[1].task] + 1 <= MaxAttempts + MaxThrottle
      BY <1>4, <1>5, ExecutorAssumption DEF IInv, Charges
    <2>2. QED BY <1>5, <1>6, <2>1 DEF IInv, TypeOK, TriesAreBounded
  <1>14. ExitedAtEnd'
    BY <1>6, <1>7 DEF IInv, ExitedAtEnd
  <1>15. QED BY <1>9, <1>10, <1>11, <1>12, <1>13, <1>14 DEF IInv

\* The task of a running worker gets its one outcome.
LEMMA RecordKeeps ==
    ASSUME IInv, NEW w \in Workers, worker[w].phase = "running",
           NEW r \in {"ok", "failed"}, Record(w, r),
           ceiling' \in Nat \ {0}
    PROVE  IInv'
  <1> DEFINE t == ItemOf(w).task
  <1>1. Holds(w) /\ t \in Tasks /\ outcome[t] = "none"
    BY HeldItem DEF Holds, IInv, Placement
  <1>2. /\ outcome' = [outcome EXCEPT ![t] = r]
        /\ active' = active - 1 /\ remaining' = remaining - 1
        /\ worker' = [worker EXCEPT ![w] = Resting]
        /\ queue' = queue /\ tries' = tries
    BY DEF Record, ItemOf
  <1>3. /\ worker'[w] = Resting /\ ~Holds(w)'
        /\ \A v \in Workers : v # w => worker'[v] = worker[v]
    BY <1>2 DEF IInv, TypeOK, Holds, Resting
  <1>4. \A v \in Workers : v # w =>
            (Holds(v)' <=> Holds(v)) /\ ItemOf(v)' = ItemOf(v)
    BY <1>3 DEF Holds, ItemOf
  <1>5. CountersAgree' /\ active' \in Nat /\ remaining' \in Nat
    <2>1. Running' = Running \ {w} /\ w \in Running
      BY <1>3 DEF Running, Resting
    <2>2. Undone' = Undone \ {t} /\ t \in Undone
      BY <1>1, <1>2 DEF Undone, IInv, TypeOK
    <2>3. /\ Cardinality(Running') = Cardinality(Running) - 1
          /\ Cardinality(Undone') = Cardinality(Undone) - 1
      BY <2>1, <2>2, FS_RemoveElement, CountedSets
    <2>4. Cardinality(Running) # 0 /\ Cardinality(Undone) # 0
      BY <2>1, <2>2, FS_EmptySet, CountedSets
    <2>5. EffectiveMax' = EffectiveMax /\ EffectiveMax \in Nat
      BY LimitBounds DEF EffectiveMax, IInv
    <2>6. QED
      BY <1>2, <2>3, <2>4, <2>5, CountedSets DEF IInv, CountersAgree
  <1>6. TypeOK'
    <2>1. \A v \in Workers : Holds(v)' <=> worker'[v].item # NoItem
      BY <1>3, <1>4 DEF IInv, TypeOK, Resting
    <2>2. worker' \in [Workers -> [phase : {"waiting", "running", "backoff",
                                            "exited"},
                                   item : Items \union {NoItem}]]
      BY <1>2 DEF IInv, TypeOK, Resting
    <2>3. outcome' \in [Tasks -> {"none", "ok", "failed"}]
      BY <1>2 DEF IInv, TypeOK
    <2>4. QED BY <1>2, <1>5, <2>1, <2>2, <2>3 DEF IInv, TypeOK
  <1>7. \A s \in Tasks : s # t => outcome'[s] = outcome[s]
    BY <1>2 DEF IInv, TypeOK
  <1>8. Placement'
    <2>1. \A i \in 1..Len(queue) :
              queue[i].task # t /\ queue[i].task \in Tasks
      BY <1>1, QueuedItem DEF IInv, Placement
    <2>2. \A v \in Workers : v # w /\ Holds(v)
            => ItemOf(v).task # t /\ ItemOf(v).task \in Tasks
      BY <1>1, HeldItem DEF IInv, Placement
    <2>3. QED
      BY <1>2, <1>3, <1>4, <1>7, <2>1, <2>2 DEF IInv, Placement
  <1>9. Charges'
    BY <1>2, <1>3, <1>4 DEF IInv, Charges, Resting
  <1>10. TriesAreBounded'
    BY <1>2 DEF IInv, TriesAreBounded
  <1>11. ExitedAtEnd'
    <2>1. remaining # 0
      <3>1. Undone # {}
        BY <1>1 DEF Undone
      <3>2. QED BY <3>1, FS_EmptySet, CountedSets DEF IInv, CountersAgree
    <2>2. \A v \in Workers : worker'[v].phase # "exited"
      BY <1>3, <2>1 DEF IInv, ExitedAtEnd, Resting
    <2>3. QED BY <2>2 DEF ExitedAtEnd
  <1>12. QED
    BY <1>5, <1>6, <1>8, <1>9, <1>10, <1>11 DEF IInv
\* The worker keeps the item, charged with the call that failed, and gives up
\* its place among the running.
LEMMA BackOffKeeps ==
    ASSUME IInv, NEW w \in Workers, worker[w].phase = "running",
           NEW item \in Items, BackOff(w, item),
           item.task = ItemOf(w).task,
           item.attempts + item.throttles
             = ItemOf(w).attempts + ItemOf(w).throttles + 1,
           ceiling' \in Nat \ {0}
    PROVE  IInv'
  <1>1. /\ worker' = [worker EXCEPT ![w] = [phase |-> "backoff",
                                            item |-> item]]
        /\ active' = active - 1
        /\ UNCHANGED <<queue, remaining, outcome, tries>>
    BY DEF BackOff
  <1>2. /\ worker'[w] = [phase |-> "backoff", item |-> item]
        /\ \A v \in Workers : v # w => worker'[v] = worker[v]
    BY <1>1 DEF IInv, TypeOK
  <1>3. /\ Holds(w) /\ Holds(w)' /\ ItemOf(w)' = item
        /\ \A v \in Workers : v # w =>
              (Holds(v)' <=> Holds(v)) /\ ItemOf(v)' = ItemOf(v)
    BY <1>2 DEF Holds, ItemOf
  <1>4. CountersAgree' /\ active' \in Nat
    <2>1. Running' = Running \ {w} /\ w \in Running
      BY <1>2 DEF Running
    <2>2. Undone' = Undone
      BY <1>1 DEF Undone
    <2>3. Cardinality(Running') = Cardinality(Running) - 1
      BY <2>1, FS_RemoveElement, CountedSets
    <2>4. Cardinality(Running) # 0
      BY <2>1, FS_EmptySet, CountedSets
    <2>5. EffectiveMax' = EffectiveMax /\ EffectiveMax \in Nat
      BY LimitBounds DEF EffectiveMax, IInv
    <2>6. QED
      BY <1>1, <2>2, <2>3, <2>4, <2>5, CountedSets DEF IInv, CountersAgree
  <1>5. TypeOK'
    <2>1. \A v \in Workers : Holds(v)' <=> worker'[v].item # NoItem
      <3>1. item # NoItem
        BY NoItemIsNoItem
      <3>2. \A v \in Workers : Holds(v) <=> worker[v].item # NoItem
        BY DEF IInv, TypeOK
      <3>3. QED BY <1>2, <1>3, <3>1, <3>2
    <2>2. worker' \in [Workers -> [phase : {"waiting", "running", "backoff",
                                            "exited"},
                                   item : Items \union {NoItem}]]
      BY <1>1 DEF IInv, TypeOK
    <2>3. QED BY <1>1, <1>4, <2>1, <2>2 DEF IInv, TypeOK
  <1>6. Placement'
    BY <1>1, <1>3 DEF IInv, Placement
  <1>7. Charges'
    BY <1>1, <1>2, <1>3 DEF IInv, Charges
  <1>8. TriesAreBounded' /\ ExitedAtEnd'
    BY <1>1, <1>2 DEF IInv, TriesAreBounded, ExitedAtEnd
  <1>9. QED BY <1>4, <1>5, <1>6, <1>7, <1>8 DEF IInv

\* The item goes to the back of the queue.
LEMMA RequeueKeeps ==
    ASSUME IInv, NEW w \in Workers, Requeue(w) PROVE IInv'
  <1>1. /\ worker[w].phase = "backoff" /\ Holds(w)
        /\ ItemOf(w) \in Items /\ queue \in Seq(Items)
        /\ queue' = Append(queue, ItemOf(w))
        /\ worker' = [worker EXCEPT ![w] = Resting]
        /\ UNCHANGED <<active, remaining, ceiling, outcome, tries>>
    BY HeldItem DEF Requeue, Holds, ItemOf, IInv, TypeOK
  <1>2. /\ queue' \in Seq(Items)
        /\ Len(queue) \in Nat /\ Len(queue') = Len(queue) + 1
        /\ \A i \in 1..Len(queue) : queue'[i] = queue[i]
        /\ queue'[Len(queue) + 1] = ItemOf(w)
    BY <1>1, AppendProperties, LenProperties
  <1>3. \A i \in 1..Len(queue') :
            i \in 1..Len(queue) \/ i = Len(queue) + 1
    BY <1>2
  <1>4. /\ worker'[w] = Resting /\ ~Holds(w)'
        /\ \A v \in Workers : v # w => worker'[v] = worker[v]
    BY <1>1 DEF IInv, TypeOK, Holds, Resting
  <1>5. \A v \in Workers : v # w =>
            (Holds(v)' <=> Holds(v)) /\ ItemOf(v)' = ItemOf(v)
    BY <1>4 DEF Holds, ItemOf
  <1>6. CountersAgree'
    <2>1. Running' = Running
      BY <1>1, <1>4 DEF Running, Resting
    <2>2. Undone' = Undone
      BY <1>1 DEF Undone
    <2>3. EffectiveMax' = EffectiveMax
      BY DEF EffectiveMax
    <2>4. QED BY <1>1, <2>1, <2>2, <2>3 DEF IInv, CountersAgree
  <1>7. TypeOK'
    <2>1. \A v \in Workers : Holds(v)' <=> worker'[v].item # NoItem
      <3>1. \A v \in Workers : Holds(v) <=> worker[v].item # NoItem
        BY DEF IInv, TypeOK
      <3>2. QED BY <1>4, <1>5, <3>1 DEF Resting
    <2>2. worker' \in [Workers -> [phase : {"waiting", "running", "backoff",
                                            "exited"},
                                   item : Items \union {NoItem}]]
      BY <1>1 DEF IInv, TypeOK, Resting
    <2>3. QED BY <1>1, <1>2, <2>1, <2>2 DEF IInv, TypeOK
  <1>8. Placement'
    <2>1. \A i \in 1..Len(queue') : outcome'[queue'[i].task] = "none"
      BY <1>1, <1>2, <1>3 DEF IInv, Placement
    <2>2. \A v \in Workers : Holds(v)' => outcome'[ItemOf(v)'.task] = "none"
      BY <1>1, <1>4, <1>5 DEF IInv, Placement
    <2>3. \A i, j \in 1..Len(queue') :
              i # j => queue'[i].task # queue'[j].task
      BY <1>1, <1>2, <1>3 DEF IInv, Placement
    <2>4. \A u, v \in Workers :
              u # v /\ Holds(u)' /\ Holds(v)'
              => ItemOf(u)'.task # ItemOf(v)'.task
      BY <1>4, <1>5 DEF IInv, Placement
    <2>5. \A i \in 1..Len(queue'), v \in Workers :
              Holds(v)' => queue'[i].task # ItemOf(v)'.task
      BY <1>1, <1>2, <1>3, <1>4, <1>5 DEF IInv, Placement
    <2>6. QED BY <2>1, <2>2, <2>3, <2>4, <2>5 DEF Placement
  <1>9. Charges'
    <2>1. \A i \in 1..Len(queue') : tries'[queue'[i].task]
            = queue'[i].attempts + queue'[i].throttles
      BY <1>1, <1>2, <1>3 DEF IInv, Charges
    <2>2. QED BY <1>1, <1>4, <1>5, <2>1 DEF IInv, Charges, Resting
  <1>10. TriesAreBounded' /\ ExitedAtEnd'
    BY <1>1, <1>4 DEF IInv, TriesAreBounded, ExitedAtEnd, Resting
  <1>11. QED BY <1>6, <1>7, <1>8, <1>9, <1>10 DEF IInv

\* A thread that ends holds nothing, and there is nothing left to do.
LEMMA ExitKeeps ==
    ASSUME IInv, NEW w \in Workers, Exit(w) PROVE IInv'
  <1>1. /\ worker' = [worker EXCEPT ![w].phase = "exited"]
        /\ worker[w].phase = "waiting" /\ remaining = 0
        /\ UNCHANGED <<queue, active, remaining, ceiling, outcome, tries>>
    BY DEF Exit
  <1>2. /\ worker'[w].phase = "exited" /\ worker'[w].item = worker[w].item
        /\ \A v \in Workers : v # w => worker'[v] = worker[v]
    BY <1>1 DEF IInv, TypeOK
  <1>3. \A v \in Workers : (Holds(v)' <=> Holds(v)) /\ ItemOf(v)' = ItemOf(v)
    BY <1>1, <1>2 DEF Holds, ItemOf
  <1>4. CountersAgree'
    <2>1. Running' = Running
      BY <1>1, <1>2 DEF Running
    <2>2. Undone' = Undone /\ EffectiveMax' = EffectiveMax
      BY <1>1 DEF Undone, EffectiveMax
    <2>3. QED BY <1>1, <2>1, <2>2 DEF IInv, CountersAgree
  <1>5. TypeOK'
    <2>1. \A v \in Workers : Holds(v)' <=> worker'[v].item # NoItem
      BY <1>3 DEF IInv, TypeOK, ItemOf
    <2>2. worker' \in [Workers -> [phase : {"waiting", "running", "backoff",
                                            "exited"},
                                   item : Items \union {NoItem}]]
      BY <1>1 DEF IInv, TypeOK
    <2>3. QED BY <1>1, <2>1, <2>2 DEF IInv, TypeOK
  <1>6. Placement'
    BY <1>1, <1>3 DEF IInv, Placement
  <1>7. Charges'
    BY <1>1, <1>2, <1>3 DEF IInv, Charges
  <1>8. TriesAreBounded' /\ ExitedAtEnd'
    BY <1>1 DEF IInv, TriesAreBounded, ExitedAtEnd
  <1>9. QED BY <1>4, <1>5, <1>6, <1>7, <1>8 DEF IInv

-----------------------------------------------------------------------------
\* Every step keeps the invariant.
LEMMA StepIInv == IInv /\ [Next]_vars => IInv'
  <1>1. SUFFICES ASSUME IInv, [Next]_vars PROVE IInv'
    OBVIOUS
  <1>2. ASSUME NEW w \in Workers, WorkerStep(w) PROVE IInv'
    <2>1. CASE Take(w)
      BY <1>1, <2>1, TakeKeeps
    <2>2. CASE Exit(w)
      BY <1>1, <2>2, ExitKeeps
    <2>3. CASE Requeue(w)
      BY <1>1, <2>3, RequeueKeeps
    <2>4. CASE Succeed(w)
      <3>1. ceiling' \in Nat \ {0}
        BY <1>1, <2>4, LimitBounds DEF Succeed, Smaller, IInv, TypeOK
      <3>2. QED BY <1>1, <2>4, <3>1, RecordKeeps DEF Succeed
    <2>5. CASE Fail(w)
      <3>1. ceiling' \in Nat \ {0}
        BY <1>1, <2>5 DEF Fail, IInv, TypeOK
      <3>2. QED BY <1>1, <2>5, <3>1, RecordKeeps DEF Fail
    <2>6. CASE Throttled(w)
      <3> DEFINE item == [worker[w].item EXCEPT !.throttles = @ + 1]
      <3>1. worker[w].phase = "running" /\ BackOff(w, item)
        BY <2>6 DEF Throttled
      <3>2. /\ ItemOf(w) \in Items /\ ItemOf(w).throttles \in 0..MaxThrottle
            /\ ItemOf(w).attempts \in Nat /\ ItemOf(w).throttles < MaxThrottle
        BY <1>1, <2>6, <3>1, HeldItem DEF Holds, IInv, Throttled, ItemOf
      <3>3. item \in Items
        BY <3>2, ExecutorAssumption DEF Items, ItemOf
      <3>4. /\ item.task = ItemOf(w).task
            /\ item.attempts = ItemOf(w).attempts
            /\ item.throttles = ItemOf(w).throttles + 1
        BY <3>2 DEF Items, ItemOf
      <3>5. ceiling' \in Nat \ {0}
        BY <2>6, ExecutorAssumption DEF Throttled, Larger
      <3>6. item.attempts + item.throttles
              = ItemOf(w).attempts + ItemOf(w).throttles + 1
        BY <3>2, <3>4
      <3> HIDE DEF item
      <3>7. QED BY <1>1, <3>1, <3>3, <3>4, <3>5, <3>6, BackOffKeeps
    <2>7. CASE Retry(w)
      <3> DEFINE item == [worker[w].item EXCEPT !.attempts = @ + 1]
      <3>1. worker[w].phase = "running" /\ BackOff(w, item)
        BY <2>7 DEF Retry
      <3>2. /\ ItemOf(w) \in Items
            /\ ItemOf(w).attempts \in 0..(MaxAttempts - 1)
            /\ ItemOf(w).throttles \in Nat
            /\ ItemOf(w).attempts + 1 < MaxAttempts
        BY <1>1, <2>7, <3>1, HeldItem DEF Holds, IInv, Retry, ItemOf
      <3>3. item \in Items
        BY <3>2, ExecutorAssumption DEF Items, ItemOf
      <3>4. /\ item.task = ItemOf(w).task
            /\ item.attempts = ItemOf(w).attempts + 1
            /\ item.throttles = ItemOf(w).throttles
        BY <3>2 DEF Items, ItemOf
      <3>5. ceiling' \in Nat \ {0}
        BY <1>1, <2>7 DEF Retry, IInv, TypeOK
      <3>6. item.attempts + item.throttles
              = ItemOf(w).attempts + ItemOf(w).throttles + 1
        BY <3>2, <3>4
      <3> HIDE DEF item
      <3>7. QED BY <1>1, <3>1, <3>3, <3>4, <3>5, <3>6, BackOffKeeps
    <2>8. QED
      BY <1>2, <2>1, <2>2, <2>3, <2>4, <2>5, <2>6, <2>7 DEF WorkerStep
  <1>3. CASE UNCHANGED vars
    <2>1. /\ TypeOK' /\ CountersAgree' /\ Placement' /\ Charges'
          /\ TriesAreBounded' /\ ExitedAtEnd'
      BY <1>1, <1>3
      DEF vars, IInv, TypeOK, CountersAgree, Running, Undone, EffectiveMax,
          Placement, Charges, TriesAreBounded, ExitedAtEnd, Holds, ItemOf
    <2>2. QED BY <2>1 DEF IInv
  <1>4. QED BY <1>1, <1>2, <1>3 DEF Next

LEMMA InvariantHolds == Spec => []IInv
  BY InitIInv, StepIInv, PTL DEF Spec

\* No item ever exceeds a budget, whatever mix of throttles and failures a task
\* goes through.
THEOREM ExecutorTyped == Spec => []TypeOK
  BY InvariantHolds, PTL DEF IInv

\* The counters under the condition variable count what they stand for, and the
\* fleet is never wider than max_concurrency and the batch allow.
THEOREM CountersAreRight == Spec => []CountersAgree
  BY InvariantHolds, PTL DEF IInv

\* A task is called at most max_attempts + max_throttle_waits times.
THEOREM CallsAreBounded == Spec => []TriesAreBounded
  BY InvariantHolds, PTL DEF IInv

\* When a thread ends every task has an outcome: run returns a full list.
THEOREM ReturnsFullList == Spec => []ReturnsComplete
  <1>1. IInv => ReturnsComplete
    <2>1. SUFFICES ASSUME IInv, NEW w \in Workers,
                          worker[w].phase = "exited", NEW t \in Tasks
                   PROVE  outcome[t] # "none"
      BY DEF ReturnsComplete
    <2>2. Cardinality(Undone) = 0
      BY <2>1 DEF IInv, ExitedAtEnd, CountersAgree
    <2>3. Undone = {}
      BY <2>2, FS_EmptySet, CountedSets
    <2>4. QED BY <2>3 DEF Undone
  <1>2. QED BY <1>1, InvariantHolds, PTL

-----------------------------------------------------------------------------
(* Conservation: the invariant says that a task is in one place at most, the *)
(* next one that it is in one place at least.                                *)

Placed(t) ==
    \/ \E i \in 1..Len(queue) : queue[i].task = t
    \/ \E w \in Workers : Holds(w) /\ ItemOf(w).task = t

NoneIsLost == \A t \in Tasks : outcome[t] = "none" => Placed(t)

\* The queue the batch starts with lists every task: an injection between sets of
\* the same size leaves none out.
LEMMA InitListsAll == Init => NoneIsLost
  <1>1. SUFFICES ASSUME Init, NEW t \in Tasks PROVE Placed(t)
    BY DEF NoneIsLost
  <1>2. Cardinality(Tasks) \in Nat
    BY ExecutorAssumption, FS_CardinalityType
  <1>3. PICK q \in Orders :
          queue = [i \in DOMAIN q |->
                     [task |-> q[i], attempts |-> 0, throttles |-> 0]]
    BY <1>1 DEF Init
  <1>4. /\ q \in [1..Cardinality(Tasks) -> Tasks]
        /\ \A i, j \in 1..Cardinality(Tasks) : q[i] = q[j] => i = j
    BY DEF Orders
  <1>5. q \in Injection(1..Cardinality(Tasks), Tasks)
    BY <1>4, Fun_IsInj
  <1>6. Cardinality(1..Cardinality(Tasks)) = Cardinality(Tasks)
    BY <1>2, FS_Interval
  <1>7. q \in Surjection(1..Cardinality(Tasks), Tasks)
    BY <1>5, <1>6, FS_Injection, ExecutorAssumption
  <1>8. PICK i \in 1..Cardinality(Tasks) : q[i] = t
    <2>1. \A u \in Tasks : \E i \in 1..Cardinality(Tasks) : q[i] = u
      BY <1>7 DEF Surjection
    <2>2. QED BY <2>1
  <1>9. queue[i].task = t
    <2>1. DOMAIN queue = 1..Cardinality(Tasks)
      BY <1>3, <1>4
    <2>2. queue[i] = [task |-> q[i], attempts |-> 0, throttles |-> 0]
      BY <1>3, <1>8, <2>1
    <2>3. QED BY <1>8, <2>2
  <1>10. Len(queue) = Cardinality(Tasks)
    <2>1. queue \in Seq(Items)
      BY <1>1, InitIInv DEF IInv, TypeOK
    <2>2. DOMAIN queue = 1..Cardinality(Tasks)
      BY <1>3, <1>4
    <2>3. QED BY <1>2, <2>1, <2>2, LenProperties
  <1>11. QED BY <1>8, <1>9, <1>10 DEF Placed

\* A step takes a task from its place only to put it in another, or to give it
\* its outcome.
LEMMA StepLosesNone ==
    ASSUME IInv, NoneIsLost, [Next]_vars PROVE NoneIsLost'
  <1>1. SUFFICES ASSUME NEW t \in Tasks, outcome'[t] = "none" PROVE Placed(t)'
    BY DEF NoneIsLost
  <1>2. \A w \in Workers : worker[w].phase = "waiting" => ~Holds(w)
    BY DEF Holds
  <1>3. ASSUME NEW w \in Workers, Take(w) PROVE Placed(t)'
    <2>1. /\ queue \in Seq(Items) /\ queue # <<>> /\ ~Holds(w)
          /\ worker' = [worker EXCEPT ![w] =
                           [phase |-> "running", item |-> Head(queue)]]
          /\ queue' = Tail(queue) /\ outcome' = outcome
      BY <1>2, <1>3 DEF Take, IInv, TypeOK
    <2>2. /\ Len(queue) \in Nat \ {0} /\ Len(queue') = Len(queue) - 1
          /\ \A i \in 1..Len(queue') : queue'[i] = queue[i + 1]
          /\ Head(queue) = queue[1]
      BY <2>1, HeadTailProperties, EmptySeq, LenProperties
    <2>3. /\ worker'[w].phase = "running" /\ worker'[w].item = queue[1]
          /\ \A v \in Workers : v # w => worker'[v] = worker[v]
      BY <2>1, <2>2 DEF IInv, TypeOK
    <2>4. Holds(w)' /\ ItemOf(w)' = queue[1]
      BY <2>3 DEF Holds, ItemOf
    <2>5. CASE \E v \in Workers : Holds(v) /\ ItemOf(v).task = t
      BY <2>1, <2>3, <2>5 DEF Placed, Holds, ItemOf
    <2>6. CASE \E i \in 1..Len(queue) : queue[i].task = t
      <3>1. PICK i \in 1..Len(queue) : queue[i].task = t
        BY <2>6
      <3>2. CASE i = 1
        BY <2>4, <3>1, <3>2 DEF Placed
      <3>3. CASE i # 1
        <4>1. i - 1 \in 1..Len(queue') /\ queue'[i - 1] = queue[(i - 1) + 1]
          BY <2>2, <3>3
        <4>2. (i - 1) + 1 = i
          OBVIOUS
        <4>3. QED BY <3>1, <4>1, <4>2 DEF Placed
      <3>4. QED BY <3>2, <3>3
    <2>7. QED BY <1>1, <2>1, <2>5, <2>6 DEF NoneIsLost, Placed
  <1>4. ASSUME NEW w \in Workers, NEW r \in {"ok", "failed"},
               worker[w].phase = "running", Record(w, r)
        PROVE  Placed(t)'
    <2>1. /\ outcome' = [outcome EXCEPT ![ItemOf(w).task] = r]
          /\ worker' = [worker EXCEPT ![w] = Resting]
          /\ queue' = queue
      BY <1>4 DEF Record, ItemOf
    <2>2. t # ItemOf(w).task /\ outcome[t] = "none"
      BY <1>1, <2>1 DEF IInv, TypeOK
    <2>3. \A v \in Workers : v # w => worker'[v] = worker[v]
      BY <2>1 DEF IInv, TypeOK
    <2>4. QED
      BY <2>1, <2>2, <2>3 DEF NoneIsLost, Placed, Holds, ItemOf
  <1>5. ASSUME NEW w \in Workers, NEW item, BackOff(w, item),
               worker[w].phase = "running", item.task = ItemOf(w).task
        PROVE  Placed(t)'
    <2>1. /\ worker' = [worker EXCEPT ![w] = [phase |-> "backoff",
                                              item |-> item]]
          /\ queue' = queue /\ outcome' = outcome
      BY <1>5 DEF BackOff
    <2>2. /\ worker'[w].phase = "backoff" /\ worker'[w].item = item
          /\ \A v \in Workers : v # w => worker'[v] = worker[v]
      BY <2>1 DEF IInv, TypeOK
    <2>3. QED
      BY <1>1, <1>5, <2>1, <2>2 DEF NoneIsLost, Placed, Holds, ItemOf
  <1>6. ASSUME NEW w \in Workers, Requeue(w) PROVE Placed(t)'
    <2>1. /\ worker[w].phase = "backoff" /\ ItemOf(w) \in Items
          /\ queue \in Seq(Items) /\ queue' = Append(queue, ItemOf(w))
          /\ worker' = [worker EXCEPT ![w] = Resting]
          /\ outcome' = outcome
      BY <1>6, HeldItem DEF Requeue, Holds, ItemOf, IInv, TypeOK
    <2>2. /\ Len(queue) \in Nat /\ Len(queue') = Len(queue) + 1
          /\ \A i \in 1..Len(queue) : queue'[i] = queue[i]
          /\ queue'[Len(queue) + 1] = ItemOf(w)
      BY <2>1, AppendProperties, LenProperties
    <2>3. \A v \in Workers : v # w => worker'[v] = worker[v]
      BY <2>1 DEF IInv, TypeOK
    <2>4. CASE ItemOf(w).task = t
      <3>1. Len(queue) + 1 \in 1..Len(queue')
        BY <2>2
      <3>2. QED BY <2>2, <2>4, <3>1 DEF Placed
    <2>5. CASE \E i \in 1..Len(queue) : queue[i].task = t
      BY <2>2, <2>5 DEF Placed
    <2>6. CASE \E v \in Workers : v # w /\ Holds(v) /\ ItemOf(v).task = t
      BY <2>3, <2>6 DEF Placed, Holds, ItemOf
    <2>7. QED BY <1>1, <2>1, <2>4, <2>5, <2>6 DEF NoneIsLost, Placed
  <1>7. ASSUME NEW w \in Workers, Exit(w) PROVE Placed(t)'
    <2>1. /\ worker[w].phase = "waiting" /\ queue' = queue
          /\ worker' = [worker EXCEPT ![w].phase = "exited"]
          /\ outcome' = outcome
      BY <1>7 DEF Exit
    <2>2. \A v \in Workers : v # w => worker'[v] = worker[v]
      BY <2>1 DEF IInv, TypeOK
    <2>3. QED
      BY <1>1, <1>2, <2>1, <2>2 DEF NoneIsLost, Placed, Holds, ItemOf
  <1>8. CASE UNCHANGED vars
    BY <1>1, <1>8 DEF vars, NoneIsLost, Placed, Holds, ItemOf
  <1>9. ASSUME NEW w \in Workers, WorkerStep(w) PROVE Placed(t)'
    <2>1. CASE Succeed(w)
      BY <1>4, <2>1 DEF Succeed
    <2>2. CASE Fail(w)
      BY <1>4, <2>2 DEF Fail
    <2>3. CASE Throttled(w) \/ Retry(w)
      <3>1. worker[w].phase = "running" /\ ItemOf(w) \in Items
        BY <2>3, HeldItem DEF Throttled, Retry, Holds, IInv
      <3>2. PICK item : BackOff(w, item) /\ item.task = ItemOf(w).task
        BY <2>3, <3>1 DEF Throttled, Retry, Items, ItemOf
      <3>3. QED BY <1>5, <3>1, <3>2
    <2>4. QED BY <1>3, <1>6, <1>7, <1>9, <2>1, <2>2, <2>3 DEF WorkerStep
  <1>10. QED BY <1>8, <1>9 DEF Next

\* A set whose elements are all equal has one element or none.
LEMMA OneOrNone ==
    ASSUME NEW S, \A x, y \in S : x = y
    PROVE  Cardinality(S) = IF S = {} THEN 0 ELSE 1
  <1>1. CASE S = {}
    BY <1>1, FS_EmptySet
  <1>2. CASE S # {}
    <2>1. PICK x \in S : TRUE
      BY <1>2
    <2>2. S = {x}
      BY <2>1
    <2>3. QED BY <1>2, <2>2, FS_Singleton
  <1>3. QED BY <1>1, <1>2

\* No task is lost and none is in two places, whatever fails and backs off.
THEOREM TasksStay == Spec => []TasksAreConserved
  <1>1. IInv /\ NoneIsLost => TasksAreConserved
    <2>1. SUFFICES ASSUME IInv, NoneIsLost, NEW t \in Tasks
                   PROVE  Cardinality(Queued(t)) + Cardinality(Holders(t))
                            = IF outcome[t] = "none" THEN 1 ELSE 0
      BY DEF TasksAreConserved
    <2>2. DOMAIN queue = 1..Len(queue)
      BY <2>1, LenProperties DEF IInv, TypeOK
    <2>3. /\ Cardinality(Queued(t)) = IF Queued(t) = {} THEN 0 ELSE 1
          /\ Cardinality(Holders(t)) = IF Holders(t) = {} THEN 0 ELSE 1
      <3>1. \A i, j \in Queued(t) : i = j
        BY <2>1, <2>2 DEF IInv, Placement, Queued
      <3>2. \A v, w \in Holders(t) : v = w
        BY <2>1 DEF IInv, Placement, Holders, ItemOf
      <3>3. QED BY <3>1, <3>2, OneOrNone
    <2>4. Queued(t) = {} \/ Holders(t) = {}
      BY <2>1, <2>2 DEF IInv, Placement, Queued, Holders, ItemOf
    <2>5. outcome[t] # "none" => Queued(t) = {} /\ Holders(t) = {}
      BY <2>1, <2>2 DEF IInv, Placement, Queued, Holders, ItemOf
    <2>6. outcome[t] = "none" => Queued(t) # {} \/ Holders(t) # {}
      BY <2>1, <2>2 DEF NoneIsLost, Placed, Queued, Holders, ItemOf
    <2>7. QED BY <2>3, <2>4, <2>5, <2>6
  <1>2. QED
    BY <1>1, InvariantHolds, InitListsAll, StepLosesNone, PTL DEF Spec

\* Every task has one outcome at most, and the failure of one never disturbs
\* another's: the executor implements the safety of a batch.
THEOREM ExecutorImplementsBatch == Spec => Batch!Safe
  <1>1. Init => Batch!Init
    BY DEF Init, Batch!Init
  <1>2. IInv /\ [Next]_vars => [Batch!Next]_outcome
    <2>1. SUFFICES ASSUME IInv, [Next]_vars, outcome' # outcome
                   PROVE  Batch!Next
      OBVIOUS
    <2>2. PICK w \in Workers : Succeed(w) \/ Fail(w)
      BY <2>1
      DEF Next, vars, WorkerStep, Take, Exit, Throttled, Retry, Requeue,
          BackOff
    <2>3. PICK r \in {"ok", "failed"} : Record(w, r)
      BY <2>2 DEF Succeed, Fail
    <2>4. worker[w].phase = "running"
      BY <2>2 DEF Succeed, Fail
    <2>5. ItemOf(w).task \in Tasks /\ outcome[ItemOf(w).task] = "none"
      BY <2>1, <2>4, HeldItem DEF Holds, IInv, Placement
    <2>6. Batch!Finish(ItemOf(w).task)
      BY <2>3, <2>5 DEF Record, ItemOf, Batch!Finish
    <2>7. QED BY <2>5, <2>6 DEF Batch!Next
  <1>3. QED BY <1>1, <1>2, InvariantHolds, PTL DEF Spec, Batch!Safe
=============================================================================
