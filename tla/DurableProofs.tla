--------------------------- MODULE DurableProofs ---------------------------
(***************************************************************************)
(* Proofs about work that is repeated under one ID: a durable run, for     *)
(* every set of processes that may resume it and every number of starts;   *)
(* and the CapEx demo batch, for all packages, lines, rules, requests and  *)
(* executions, which may overlap, crash and be retried.                    *)
(***************************************************************************)
EXTENDS DurableRun, DemoWorkflow, FiniteSetTheorems, SequenceTheorems, TLAPS

-----------------------------------------------------------------------------
(* The durable run. *)

\* What a process carries from its last step is what the stores say of it, and
\* no two processes are about to close the journal on one record.
Hand(p) ==
    /\ proc[p].phase \in {"idle", "started", "deliberated", "decided"}
          => ~proc[p].executed
    /\ proc[p].phase = "ruled" => proc[p].ruled
    /\ proc[p].phase # "recorded" => proc[p].why = NoRecord
    /\ proc[p].phase = "recorded" =>
          /\ proc[p].why \in DOMAIN memory
          /\ memory[proc[p].why].executed = proc[p].executed
          /\ \A q \in Processes \ {p} : proc[q].why # proc[p].why
InHand == \A p \in Processes : Hand(p)

\* The passes that may still cost an execution: they have not acted, or they
\* will close the journal on a record that is gone.
Pending ==
    {p \in Busy :
        \/ ~proc[p].executed
        \/ proc[p].phase = "recorded" /\ ~memory[proc[p].why].kept}

\* An execution is on record for good; otherwise, with no pass under way, the
\* next one may execute.
Concluded == journal.status = "complete" /\ memory[journal.why].kept
Open == IF Busy = {} /\ ~Concluded THEN 1 ELSE 0

\* The executions there were and those that may come without another crash,
\* prune or overlap.
Balance ==
    effects + Cardinality(Pending) + Open <= 1 + unclosed + pruned + overlaps

\* Without overlaps one process at a time is busy, on a run without an outcome.
Alone ==
    overlaps = 0 =>
        /\ \A p, q \in Busy : p = q
        /\ Busy # {} => ~OnRecord

IInv ==
    /\ TypeOK
    /\ InHand
    /\ TerminalVouches
    /\ Balance
    /\ RulingsAreAttested
    /\ Alone

-----------------------------------------------------------------------------
(* Types. *)

LEMMA IdleIsPass == Idle \in Passes
  BY DEF Idle, Passes, Phases, NoRecord

\* Both ways to act have an outcome in common.
LEMMA ActHasOutcome ==
    ASSUME NEW p \in Processes, Act(p)
    PROVE  /\ \E executed \in BOOLEAN, ruled \in BOOLEAN :
                 Acted(p, executed, ruled)
           /\ proc[p].phase \in {"started", "decided"}
  BY DEF Act, Execute, Enact

\* A step of a pass keeps everything in range.
LEMMA StepType ==
    ASSUME TypeOK, InHand, NEW p \in Processes, Step(p)
    PROVE  TypeOK'
  <1> USE DEF NoRecord
  <1>1. ASSUME NEW way \in {"run", "enact"}, Begin(p, way)
        PROVE  TypeOK'
    <2>1. journal' \in Journals /\ journal'.why <= Len(memory)
      BY <1>1 DEF Begin, TypeOK, Journals
    <2>2. proc' \in [Processes -> Passes]
          /\ \A q \in Processes : proc'[q].why = proc[q].why
      <3>1. proc' = [proc EXCEPT ![p] = [proc[p] EXCEPT !.phase = "started",
                                                        !.way = way]]
        BY <1>1 DEF Begin, TypeOK
      <3>2. [proc[p] EXCEPT !.phase = "started", !.way = way] \in Passes
            /\ [proc[p] EXCEPT !.phase = "started", !.way = way].why
                  = proc[p].why
        BY DEF TypeOK, Passes, Phases
      <3>3. QED BY <3>1, <3>2 DEF TypeOK
    <2>3. starts' \in 0..MaxStarts /\ overlaps' \in Nat
      BY <1>1, DurableAssumption DEF Begin, TypeOK
    <2>4. UNCHANGED <<memory, rulings, effects, unclosed, pruned, lostRulings>>
      BY <1>1 DEF Begin
    <2>5. QED BY <2>1, <2>2, <2>3, <2>4 DEF TypeOK
  <1>2. CASE FindNoMotion(p)
    BY <1>2 DEF FindNoMotion, TypeOK, Passes, Phases, stores, history
  <1>3. CASE RecordDeliberated(p) \/ RecordDecided(p)
    <2>1. journal' \in Journals /\ journal'.why = journal.why
      BY <1>3 DEF RecordDeliberated, RecordDecided, RecordStep, TypeOK, Journals
    <2>2. proc' \in [Processes -> Passes]
          /\ \A q \in Processes : proc'[q].why = proc[q].why
      <3>1. CASE RecordDeliberated(p)
        BY <3>1 DEF RecordDeliberated, TypeOK, Passes, Phases
      <3>2. CASE RecordDecided(p)
        BY <3>2 DEF RecordDecided, TypeOK, Passes, Phases
      <3>3. QED BY <1>3, <3>1, <3>2
    <2>3. UNCHANGED <<memory, rulings, effects, starts, overlaps, unclosed,
                      pruned, lostRulings>>
      <3>1. CASE RecordDeliberated(p)
        BY <3>1 DEF RecordDeliberated, history
      <3>2. CASE RecordDecided(p)
        BY <3>2 DEF RecordDecided, history
      <3>3. QED BY <1>3, <3>1, <3>2
    <2>4. QED BY <2>1, <2>2, <2>3 DEF TypeOK
  <1>4. CASE Act(p)
    <2>1. PICK executed \in BOOLEAN, ruled \in BOOLEAN :
             /\ effects' = effects + (IF executed THEN 1 ELSE 0)
             /\ proc' = [proc EXCEPT ![p].phase = "acted",
                                     ![p].executed = executed,
                                     ![p].ruled = ruled]
      BY <1>4, ActHasOutcome DEF Acted
    <2>2. proc' \in [Processes -> Passes]
          /\ \A q \in Processes : proc'[q].why = proc[q].why
      <3> DEFINE after == [proc[p] EXCEPT !.phase = "acted",
                              !.executed = executed, !.ruled = ruled]
      <3>1. proc' = [proc EXCEPT ![p] = after]
        BY <2>1 DEF TypeOK
      <3>2. after \in Passes /\ after.why = proc[p].why
        BY DEF TypeOK, Passes, Phases
      <3> HIDE DEF after
      <3>3. QED BY <3>1, <3>2 DEF TypeOK
    <2>3. effects' \in Nat
      BY <2>1 DEF TypeOK
    <2>4. QED BY <1>4, <2>2, <2>3 DEF Act, Execute, Enact, Acted, TypeOK,
                                      history
  <1>5. CASE RecordRuling(p)
    <2>1. proc' \in [Processes -> Passes]
          /\ \A q \in Processes : proc'[q].why = proc[q].why
      BY <1>5 DEF RecordRuling, TypeOK, Passes, Phases
    <2>2. rulings' \in Nat
          /\ UNCHANGED <<journal, memory, effects, starts, overlaps, unclosed,
                         pruned, lostRulings>>
      BY <1>5 DEF RecordRuling, TypeOK, history
    <2>3. QED BY <2>1, <2>2 DEF TypeOK
  <1>6. CASE RecordWhy(p)
    <2>1. [executed |-> proc[p].executed, ruled |-> proc[p].ruled,
           kept |-> TRUE] \in Records
      BY DEF TypeOK, Passes, Records
    <2>2. memory' \in Seq(Records) /\ Len(memory') = Len(memory) + 1
      BY <1>6, <2>1 DEF RecordWhy, TypeOK
    <2>3. Len(memory) \in Nat
      BY DEF TypeOK
    <2>4. proc' \in [Processes -> Passes]
      BY <1>6, <2>3 DEF RecordWhy, TypeOK, Passes, Phases
    <2>5. \A q \in Processes : proc'[q].why <= Len(memory')
      BY <1>6, <2>2, <2>3 DEF RecordWhy, TypeOK, Passes
    <2>6. UNCHANGED <<journal, rulings, effects, starts, overlaps, unclosed,
                      pruned, lostRulings>>
      BY <1>6 DEF RecordWhy, history
    <2>7. journal'.why <= Len(memory')
      BY <2>2, <2>3, <2>6 DEF TypeOK, Journals
    <2>8. QED BY <2>2, <2>4, <2>5, <2>6, <2>7 DEF TypeOK
  <1>7. CASE Close(p)
    <2>1. journal' \in Journals /\ journal'.why = proc[p].why
      BY <1>7 DEF Close, TypeOK, Journals, Passes
    <2>2. proc' = [proc EXCEPT ![p] = Idle]
          /\ UNCHANGED <<memory, rulings, effects, starts, overlaps, unclosed,
                         pruned, lostRulings>>
      BY <1>7 DEF Close, history
    <2>3. Len(memory) \in Nat
      BY DEF TypeOK
    <2>4. proc' \in [Processes -> Passes]
          /\ \A q \in Processes : proc'[q].why <= Len(memory)
      BY <2>2, <2>3, IdleIsPass DEF TypeOK, Idle
    <2>5. QED BY <2>1, <2>2, <2>4 DEF TypeOK
  <1>8. CASE Crash(p)
    <2>1. proc' = [proc EXCEPT ![p] = Idle]
          /\ UNCHANGED <<journal, memory, rulings, effects, starts, overlaps>>
      BY <1>8 DEF Crash, stores
    <2>2. Len(memory) \in Nat
      BY DEF TypeOK
    <2>3. proc' \in [Processes -> Passes]
          /\ \A q \in Processes : proc'[q].why <= Len(memory)
      BY <2>1, <2>2, IdleIsPass DEF TypeOK, Idle
    <2>4. unclosed' \in Nat /\ pruned' \in Nat /\ lostRulings' \in Nat
      BY <1>8 DEF Crash, TypeOK
    <2>5. QED BY <2>1, <2>3, <2>4 DEF TypeOK
  <1>9. QED BY <1>1, <1>2, <1>3, <1>4, <1>5, <1>6, <1>7, <1>8 DEF Step

\* What a prune leaves of the records.
LEMMA PrunedMemory ==
    ASSUME TypeOK, NEW n \in DOMAIN memory, Prune(n)
    PROVE  /\ memory' \in Seq(Records)
           /\ Len(memory') = Len(memory)
           /\ DOMAIN memory' = DOMAIN memory
           /\ \A i \in DOMAIN memory :
                 /\ memory'[i].executed = memory[i].executed
                 /\ memory'[i].ruled = memory[i].ruled
                 /\ memory'[i].kept <=> memory[i].kept /\ i > n
  <1>1. memory' = [i \in DOMAIN memory |->
                     [executed |-> memory[i].executed,
                      ruled |-> memory[i].ruled,
                      kept |-> memory[i].kept /\ i > n]]
    BY DEF Prune
  <1>2. Len(memory) \in Nat /\ DOMAIN memory = 1..Len(memory)
    BY DEF TypeOK
  <1>3. ASSUME NEW i \in DOMAIN memory
        PROVE  /\ memory'[i].executed = memory[i].executed
               /\ memory'[i].ruled = memory[i].ruled
               /\ memory'[i].kept = (memory[i].kept /\ i > n)
               /\ memory'[i] \in Records
    <2>1. memory'[i] = [executed |-> memory[i].executed,
                        ruled |-> memory[i].ruled,
                        kept |-> memory[i].kept /\ i > n]
      BY <1>1
    <2>2. memory[i] \in Records
      BY <1>2 DEF TypeOK
    <2>3. (memory[i].kept /\ i > n) \in BOOLEAN
      OBVIOUS
    <2>4. memory'[i] \in Records
      BY <2>1, <2>2, <2>3 DEF Records
    <2>5. QED BY <2>1, <2>4
  <1>4. memory' \in [1..Len(memory) -> Records]
    BY <1>1, <1>2, <1>3
  <1>5. memory' \in Seq(Records) /\ Len(memory') = Len(memory)
    BY <1>2, <1>4
  <1>6. QED BY <1>1, <1>3, <1>5

LEMMA PruneType ==
    ASSUME TypeOK, NEW n \in DOMAIN memory, Prune(n)
    PROVE  TypeOK'
  <1>1. memory' \in Seq(Records) /\ Len(memory') = Len(memory)
    BY PrunedMemory
  <1>2. Len(memory) \in Nat /\ DOMAIN memory = 1..Len(memory)
    BY DEF TypeOK
  <1>3. IsFiniteSet({i \in ReliedOn :
                       i <= n /\ memory[i].kept /\ memory[i].executed})
    <2>1. {i \in ReliedOn : i <= n /\ memory[i].kept /\ memory[i].executed}
             \in SUBSET (1..Len(memory))
      BY <1>2 DEF ReliedOn
    <2>2. IsFiniteSet(1..Len(memory))
      BY <1>2, FS_Interval
    <2>3. QED BY <2>1, <2>2, FS_Subset
  <1>4. unclosed' \in Nat /\ pruned' \in Nat
    BY <1>3, FS_CardinalityType DEF Prune, TypeOK
  <1>5. UNCHANGED <<journal, rulings, effects, proc, starts, overlaps,
                    lostRulings>>
    BY DEF Prune
  <1>6. QED BY <1>1, <1>4, <1>5 DEF TypeOK

-----------------------------------------------------------------------------
(* What the processes carry. *)

\* A step of p that leaves the memory alone, and does not make p's record:
\* the other processes' hands are as full as they were.
LEMMA OtherHands ==
    ASSUME TypeOK, InHand, NEW p \in Processes,
           memory' = memory,
           \A q \in Processes \ {p} : proc'[q] = proc[q],
           proc'[p].why \in {proc[p].why, NoRecord}
    PROVE  \A q \in Processes \ {p} : Hand(q)'
  <1>1. SUFFICES ASSUME NEW q \in Processes \ {p} PROVE Hand(q)'
    OBVIOUS
  <1>2. DOMAIN memory = 1..Len(memory) /\ Len(memory) \in Nat
    BY DEF TypeOK
  <1>3. Hand(q) /\ proc'[q] = proc[q]
    BY DEF InHand
  <1>4. ASSUME proc[q].phase = "recorded",
               NEW r \in Processes \ {q}
        PROVE  proc'[r].why # proc[q].why
    <2>1. proc[r].why # proc[q].why /\ proc[q].why # NoRecord
      BY <1>2, <1>3, <1>4 DEF Hand, NoRecord
    <2>2. CASE r = p
      BY <2>1, <2>2
    <2>3. CASE r # p
      BY <2>1, <2>3
    <2>4. QED BY <2>2, <2>3
  <1>5. QED BY <1>3, <1>4 DEF Hand

LEMMA StepHands ==
    ASSUME TypeOK, InHand, NEW p \in Processes, Step(p)
    PROVE  InHand'
  <1>1. Hand(p) /\ proc[p] \in Passes
    BY DEF InHand, TypeOK
  <1>2. SUFFICES ASSUME ~RecordWhy(p) PROVE InHand'
    <2>1. ASSUME RecordWhy(p), NEW q \in Processes PROVE Hand(q)'
      <3>1. Len(memory) \in Nat /\ DOMAIN memory = 1..Len(memory)
        BY DEF TypeOK
      <3>2. /\ Len(memory') = Len(memory) + 1
            /\ DOMAIN memory' = 1..(Len(memory) + 1)
            /\ \A i \in DOMAIN memory : memory'[i] = memory[i]
            /\ memory'[Len(memory) + 1].executed = proc[p].executed
        BY <2>1, <3>1 DEF RecordWhy, TypeOK
      <3>3. /\ proc'[p].phase = "recorded"
            /\ proc'[p].why = Len(memory) + 1
            /\ proc'[p].executed = proc[p].executed
            /\ \A r \in Processes \ {p} : proc'[r] = proc[r]
        BY <2>1, <1>1 DEF RecordWhy, TypeOK, Passes
      <3>4. \A r \in Processes \ {p} : proc'[r].why # Len(memory) + 1
        BY <3>1, <3>3 DEF TypeOK, Passes
      <3>5. CASE q = p
        BY <3>1, <3>2, <3>3, <3>4, <3>5 DEF Hand
      <3>6. CASE q # p
        <4>1. Hand(q) /\ proc'[q] = proc[q]
          BY <3>3, <3>6 DEF InHand
        <4>2. ASSUME proc[q].phase = "recorded"
              PROVE  \A r \in Processes \ {q} : proc'[r].why # proc[q].why
          BY <4>1, <4>2, <3>1, <3>3, <3>6 DEF Hand
        <4>3. QED BY <4>1, <4>2, <3>1, <3>2, <3>3 DEF Hand
      <3>7. QED BY <3>5, <3>6
    <2>2. QED BY <2>1 DEF InHand
  <1>3. /\ memory' = memory
        /\ \A q \in Processes \ {p} : proc'[q] = proc[q]
        /\ proc'[p].why \in {proc[p].why, NoRecord}
        /\ proc'[p].phase # "recorded"
        /\ proc[p].phase = "recorded" => proc'[p] = Idle
        /\ \/ proc'[p] = Idle
           \/ proc'[p].why = proc[p].why
    <2>1. ASSUME NEW way \in {"run", "enact"}, Begin(p, way) PROVE <1>3!:
      BY <2>1, <1>1 DEF Begin, TypeOK, Passes
    <2>2. CASE FindNoMotion(p)
      BY <2>2, <1>1 DEF FindNoMotion, TypeOK, Passes, stores
    <2>3. CASE RecordDeliberated(p)
      BY <2>3, <1>1 DEF RecordDeliberated, TypeOK, Passes
    <2>4. CASE RecordDecided(p)
      BY <2>4, <1>1 DEF RecordDecided, TypeOK, Passes
    <2>5. CASE Act(p)
      <3>1. PICK executed \in BOOLEAN, ruled \in BOOLEAN :
               Acted(p, executed, ruled)
        BY <2>5, ActHasOutcome
      <3>2. proc'[p].phase = "acted" /\ proc'[p].why = proc[p].why
            /\ \A q \in Processes \ {p} : proc'[q] = proc[q]
        BY <3>1, <1>1 DEF Acted, TypeOK, Passes
      <3>3. memory' = memory /\ proc[p].phase # "recorded"
        BY <2>5, <3>1, ActHasOutcome DEF Acted
      <3>4. QED BY <3>2, <3>3
    <2>6. CASE RecordRuling(p)
      BY <2>6, <1>1 DEF RecordRuling, TypeOK, Passes
    <2>7. CASE Close(p)
      BY <2>7, <1>1 DEF Close, TypeOK, Idle
    <2>8. CASE Crash(p)
      BY <2>8, <1>1 DEF Crash, TypeOK, Idle, stores
    <2>9. QED BY <1>2, <2>1, <2>2, <2>3, <2>4, <2>5, <2>6, <2>7, <2>8 DEF Step
  <1>4. \A q \in Processes \ {p} : Hand(q)'
    BY <1>3, OtherHands
  <1>5. /\ proc'[p].phase \in {"idle", "started", "deliberated", "decided"}
              => ~proc'[p].executed
        /\ proc'[p].phase = "ruled" => proc'[p].ruled
    <2>1. ASSUME NEW way \in {"run", "enact"}, Begin(p, way) PROVE <1>5!:
      BY <2>1, <1>1 DEF Begin, TypeOK, Passes, Hand
    <2>2. CASE FindNoMotion(p)
      BY <2>2, <1>1 DEF FindNoMotion, TypeOK, Passes
    <2>3. CASE RecordDeliberated(p)
      BY <2>3, <1>1 DEF RecordDeliberated, TypeOK, Passes, Hand
    <2>4. CASE RecordDecided(p)
      BY <2>4, <1>1 DEF RecordDecided, TypeOK, Passes, Hand
    <2>5. CASE Act(p)
      <3>1. PICK executed \in BOOLEAN, ruled \in BOOLEAN :
               Acted(p, executed, ruled)
        BY <2>5, ActHasOutcome
      <3>2. QED BY <3>1, <1>1 DEF Acted, TypeOK, Passes
    <2>6. CASE RecordRuling(p)
      BY <2>6, <1>1 DEF RecordRuling, TypeOK, Passes
    <2>7. CASE Close(p) \/ Crash(p)
      <3>1. proc' = [proc EXCEPT ![p] = Idle]
        BY <2>7 DEF Close, Crash
      <3>2. QED BY <3>1 DEF TypeOK, Idle
    <2>8. QED BY <1>2, <2>1, <2>2, <2>3, <2>4, <2>5, <2>6, <2>7 DEF Step
  <1>6. proc'[p].why = NoRecord
    BY <1>1, <1>3 DEF Hand, Idle
  <1>7. Hand(p)'
    BY <1>3, <1>5, <1>6 DEF Hand
  <1>8. QED BY <1>4, <1>7 DEF InHand

LEMMA PruneHands ==
    ASSUME TypeOK, InHand, NEW n \in DOMAIN memory, Prune(n)
    PROVE  InHand'
  <1>1. SUFFICES ASSUME NEW p \in Processes PROVE Hand(p)'
    BY DEF InHand
  <1>2. Hand(p) /\ proc' = proc
    BY DEF InHand, Prune
  <1>3. DOMAIN memory' = DOMAIN memory
        /\ \A i \in DOMAIN memory : memory'[i].executed = memory[i].executed
    BY PrunedMemory
  <1>4. QED BY <1>2, <1>3 DEF Hand

-----------------------------------------------------------------------------
(* The journal's answer. *)

LEMMA StepVouches ==
    ASSUME TypeOK, InHand, TerminalVouches, NEW p \in Processes, Step(p)
    PROVE  TerminalVouches'
  <1>1. Hand(p) /\ Len(memory) \in Nat /\ DOMAIN memory = 1..Len(memory)
    BY DEF InHand, TypeOK
  <1>2. ASSUME NEW way \in {"run", "enact"}, Begin(p, way)
        PROVE  TerminalVouches'
    BY <1>2 DEF Begin, TerminalVouches, Terminal
  <1>3. CASE FindNoMotion(p) \/ Act(p) \/ RecordRuling(p) \/ Crash(p)
    <2>1. journal' = journal /\ memory' = memory
      BY <1>3 DEF FindNoMotion, Act, Execute, Enact, Acted, RecordRuling, Crash,
                  stores
    <2>2. QED BY <2>1 DEF TerminalVouches, Terminal
  <1>4. CASE RecordDeliberated(p) \/ RecordDecided(p)
    BY <1>4 DEF RecordDeliberated, RecordDecided, RecordStep, TerminalVouches,
                Terminal
  <1>5. CASE RecordWhy(p)
    <2>1. journal' = journal
      BY <1>5 DEF RecordWhy
    <2>2. DOMAIN memory \subseteq DOMAIN memory'
          /\ \A i \in DOMAIN memory : memory'[i] = memory[i]
      BY <1>1, <1>5 DEF RecordWhy, TypeOK
    <2>3. QED BY <2>1, <2>2 DEF TerminalVouches, Terminal
  <1>6. CASE Close(p)
    BY <1>1, <1>6 DEF Close, Hand, TerminalVouches, Terminal, TypeOK, Passes
  <1>7. QED BY <1>2, <1>3, <1>4, <1>5, <1>6 DEF Step

LEMMA PruneVouches ==
    ASSUME TypeOK, TerminalVouches, NEW n \in DOMAIN memory, Prune(n)
    PROVE  TerminalVouches'
  <1>1. journal' = journal
    BY DEF Prune
  <1>2. DOMAIN memory' = DOMAIN memory
        /\ \A i \in DOMAIN memory : memory'[i].executed = memory[i].executed
    BY PrunedMemory
  <1>3. QED BY <1>1, <1>2 DEF TerminalVouches, Terminal

-----------------------------------------------------------------------------
(* The balance of executions. *)

\* A step of p changes only p's own place among the pending passes.
LEMMA OthersPending ==
    ASSUME TypeOK, InHand, NEW p \in Processes, Step(p)
    PROVE  /\ Busy' \ {p} = Busy \ {p}
           /\ Pending' \ {p} = Pending \ {p}
  <1>1. Len(memory) \in Nat /\ DOMAIN memory = 1..Len(memory)
    BY DEF TypeOK
  <1>2. \A i \in DOMAIN memory : memory'[i] = memory[i]
    <2>1. CASE RecordWhy(p)
      BY <1>1, <2>1 DEF RecordWhy, TypeOK
    <2>2. CASE ~RecordWhy(p)
      BY <2>2 DEF Step, Begin, FindNoMotion, RecordDeliberated, RecordDecided,
                  Act, Execute, Enact, Acted, RecordRuling, Close, Crash, stores
    <2>3. QED BY <2>1, <2>2
  <1>3. \A q \in Processes \ {p} : proc'[q] = proc[q]
    BY DEF Step, Begin, FindNoMotion, RecordDeliberated, RecordDecided, Act,
           Execute, Enact, Acted,
           RecordRuling, RecordWhy, Close, Crash, TypeOK
  <1>4. \A q \in Processes \ {p} : Hand(q)
    BY DEF InHand
  <1>5. QED BY <1>2, <1>3, <1>4 DEF Busy, Pending, Hand

\* How many passes are pending, with and without p.
LEMMA PendingCount ==
    ASSUME TypeOK, InHand, NEW p \in Processes, Step(p)
    PROVE  \E others \in Nat :
              /\ Cardinality(Pending) = others + IF p \in Pending THEN 1 ELSE 0
              /\ Cardinality(Pending') =
                    others + IF p \in Pending' THEN 1 ELSE 0
  <1>1. /\ Pending \in SUBSET Processes
        /\ Pending' \in SUBSET Processes
        /\ Pending \ {p} \in SUBSET Processes
    BY DEF Pending, Busy
  <1>2. /\ IsFiniteSet(Pending) /\ IsFiniteSet(Pending')
        /\ IsFiniteSet(Pending \ {p})
    BY <1>1, FS_Subset, DurableAssumption
  <1>3. Cardinality(Pending \ {p}) \in Nat
    BY <1>2, FS_CardinalityType
  <1>4. Cardinality(Pending) =
           Cardinality(Pending \ {p}) + IF p \in Pending THEN 1 ELSE 0
    <2>1. CASE p \in Pending
      <3>1. Pending = (Pending \ {p}) \cup {p} /\ p \notin Pending \ {p}
        BY <2>1
      <3>2. QED BY <1>2, <2>1, <3>1, FS_AddElement
    <2>2. CASE p \notin Pending
      <3>1. Pending \ {p} = Pending
        BY <2>2
      <3>2. QED BY <1>3, <2>2, <3>1
    <2>3. QED BY <2>1, <2>2
  <1>5. Cardinality(Pending') =
           Cardinality(Pending \ {p}) + IF p \in Pending' THEN 1 ELSE 0
    <2>1. Pending' \ {p} = Pending \ {p}
      BY OthersPending
    <2>2. CASE p \in Pending'
      <3>1. Pending' = (Pending \ {p}) \cup {p} /\ p \notin Pending \ {p}
        BY <2>1, <2>2
      <3>2. QED BY <1>2, <2>2, <3>1, FS_AddElement
    <2>3. CASE p \notin Pending'
      <3>1. Pending' = Pending \ {p}
        BY <2>1, <2>3
      <3>2. Cardinality(Pending') = Cardinality(Pending \ {p})
        BY <3>1, Zenon
      <3>3. QED BY <1>3, <2>3, <3>2
    <2>4. QED BY <2>2, <2>3
  <1>6. QED BY <1>3, <1>4, <1>5

LEMMA StepBalance ==
    ASSUME TypeOK, InHand, TerminalVouches, Balance,
           NEW p \in Processes, Step(p)
    PROVE  Balance'
  <1>1. /\ Hand(p) /\ proc[p] \in Passes
        /\ Len(memory) \in Nat /\ DOMAIN memory = 1..Len(memory)
        /\ effects \in Nat /\ unclosed \in Nat /\ pruned \in Nat
        /\ overlaps \in Nat
    BY DEF InHand, TypeOK
  <1>2. PICK others \in Nat :
           /\ Cardinality(Pending) = others + IF p \in Pending THEN 1 ELSE 0
           /\ Cardinality(Pending') =
                 others + IF p \in Pending' THEN 1 ELSE 0
    BY PendingCount
  <1>3. /\ Open = 0 \/ Open = 1
        /\ Open' = 0 \/ Open' = 1
        /\ others \in Nat
        /\ effects \in Nat /\ unclosed \in Nat /\ pruned \in Nat
        /\ overlaps \in Nat
    BY <1>1 DEF Open
  <1>4. p \in Busy => Open = 0
    BY DEF Open
  <1>5. p \in Busy' => Open' = 0
    BY DEF Open
  <1>6. ASSUME NEW way \in {"run", "enact"}, Begin(p, way)
        PROVE  Balance'
    <2>1. p \notin Pending /\ p \in Busy'
      BY <1>1, <1>6 DEF Begin, Pending, Busy, TypeOK, Passes
    <2>2. effects' = effects /\ unclosed' = unclosed /\ pruned' = pruned
          /\ overlaps' = IF Busy = {} THEN overlaps ELSE overlaps + 1
      BY <1>6 DEF Begin
    <2>3. Busy = {} => Open = 1
      <3>1. ~Concluded
        BY <1>1, <1>6 DEF Begin, Recorded, Concluded, Terminal, TerminalVouches,
                          NoRecord
      <3>2. QED BY <3>1 DEF Open
    <2>4. CASE Busy = {}
      BY <1>1, <1>2, <1>5, <2>1, <2>2, <2>3, <2>4 DEF Balance
    <2>5. CASE Busy # {}
      BY <1>1, <1>2, <1>3, <1>5, <2>1, <2>2, <2>5 DEF Balance
    <2>6. QED BY <2>4, <2>5
  <1>7. CASE FindNoMotion(p) \/ RecordDeliberated(p) \/ RecordDecided(p)
    <2>1. p \in Pending
      BY <1>1, <1>7 DEF FindNoMotion, RecordDeliberated, RecordDecided, Hand,
                        Pending, Busy
    <2>2. p \in Busy'
      <3>1. proc'[p].phase # "idle"
        <4>1. CASE FindNoMotion(p)
          BY <4>1 DEF FindNoMotion, TypeOK, Passes
        <4>2. CASE RecordDeliberated(p)
          BY <4>2 DEF RecordDeliberated, TypeOK, Passes
        <4>3. CASE RecordDecided(p)
          BY <4>3 DEF RecordDecided, TypeOK, Passes
        <4>4. QED BY <1>7, <4>1, <4>2, <4>3
      <3>2. QED BY <3>1 DEF Busy
    <2>3. effects' = effects /\ unclosed' = unclosed /\ pruned' = pruned
          /\ overlaps' = overlaps
      BY <1>7 DEF FindNoMotion, RecordDeliberated, RecordDecided, stores,
                  history
    <2>4. QED BY <1>1, <1>2, <1>3, <1>5, <2>1, <2>2, <2>3 DEF Balance
  <1>8. CASE Act(p)
    <2>1. p \in Pending
      BY <1>1, <1>8 DEF Act, Execute, Enact, Acted, Hand, Pending, Busy
    <2>2. PICK executed \in BOOLEAN, ruled \in BOOLEAN :
             /\ effects' = effects + (IF executed THEN 1 ELSE 0)
             /\ proc' = [proc EXCEPT ![p].phase = "acted",
                                     ![p].executed = executed,
                                     ![p].ruled = ruled]
      BY <1>8, ActHasOutcome DEF Acted
    <2>3. proc'[p].phase = "acted" /\ proc'[p].executed = executed
      BY <2>2, <1>1 DEF TypeOK, Passes
    <2>4. p \in Busy' /\ (executed => p \notin Pending')
      BY <2>3 DEF Busy, Pending
    <2>5. unclosed' = unclosed /\ pruned' = pruned /\ overlaps' = overlaps
      BY <1>8 DEF Act, Execute, Enact, Acted, history
    <2>6. CASE executed
      BY <1>1, <1>2, <1>3, <1>5, <2>1, <2>2, <2>4, <2>5, <2>6 DEF Balance
    <2>7. CASE ~executed
      BY <1>1, <1>2, <1>3, <1>5, <2>1, <2>2, <2>4, <2>5, <2>7 DEF Balance
    <2>8. QED BY <2>6, <2>7
  <1>9. CASE RecordRuling(p) \/ RecordWhy(p)
    <2>1. p \in Busy /\ (p \in Pending <=> ~proc[p].executed)
      BY <1>9 DEF RecordRuling, RecordWhy, Busy, Pending
    <2>2. p \in Busy' /\ (p \in Pending' <=> ~proc[p].executed)
      <3>1. CASE RecordRuling(p)
        <4>1. proc'[p].phase = "ruled"
              /\ proc'[p].executed = proc[p].executed
          BY <1>1, <3>1 DEF RecordRuling, TypeOK, Passes
        <4>2. QED BY <4>1 DEF Busy, Pending
      <3>2. CASE RecordWhy(p)
        <4>1. proc'[p].phase = "recorded"
              /\ proc'[p].executed = proc[p].executed
              /\ proc'[p].why = Len(memory) + 1
          BY <1>1, <3>2 DEF RecordWhy, TypeOK, Passes
        <4>2. memory'[Len(memory) + 1].kept
          BY <1>1, <3>2 DEF RecordWhy, TypeOK
        <4>3. QED BY <4>1, <4>2 DEF Busy, Pending
      <3>3. QED BY <1>9, <3>1, <3>2
    <2>3. effects' = effects /\ unclosed' = unclosed /\ pruned' = pruned
          /\ overlaps' = overlaps
      BY <1>9 DEF RecordRuling, RecordWhy, history
    <2>4. QED BY <1>1, <1>2, <1>3, <1>4, <1>5, <2>1, <2>2, <2>3 DEF Balance
  <1>10. CASE Close(p)
    <2>1. proc' = [proc EXCEPT ![p] = Idle] /\ p \in Busy
          /\ memory' = memory /\ effects' = effects /\ unclosed' = unclosed
          /\ pruned' = pruned
          /\ overlaps' = overlaps
      BY <1>10 DEF Close, Busy, history
    <2>2. p \notin Pending'
      BY <2>1 DEF TypeOK, Pending, Busy, Idle
    <2>3. CASE p \in Pending
      <3>1. Cardinality(Pending) = others + 1 /\ Cardinality(Pending') = others
            /\ Open = 0
        BY <1>2, <1>4, <2>1, <2>2, <2>3
      <3>2. effects + (others + 1) + 0 <= 1 + unclosed + pruned + overlaps
        BY <3>1 DEF Balance
      <3>3. effects' = effects /\ unclosed' = unclosed /\ pruned' = pruned
            /\ overlaps' = overlaps
        BY <2>1
      <3>4. effects' + Cardinality(Pending') + Open' <=
               1 + unclosed' + pruned' + overlaps'
        BY <1>3, <3>1, <3>2, <3>3
      <3>5. QED BY <3>4 DEF Balance
    <2>4. CASE p \notin Pending
      <3>1. proc[p].executed /\ memory[proc[p].why].kept
        BY <1>10, <2>1, <2>4 DEF Close, Pending
      <3>2. journal'.status = "complete" /\ journal'.why = proc[p].why
        BY <1>10, <3>1 DEF Close
      <3>3. Open' = 0
        BY <2>1, <3>1, <3>2 DEF Open, Concluded
      <3>4. QED BY <1>1, <1>2, <1>4, <2>1, <2>2, <2>4, <3>3 DEF Balance
    <2>5. QED BY <2>3, <2>4
  <1>11. CASE Crash(p)
    <2>1. proc' = [proc EXCEPT ![p] = Idle] /\ p \in Busy
          /\ effects' = effects /\ overlaps' = overlaps
          /\ unclosed' = unclosed + (IF InWindow(p) THEN 1 ELSE 0)
          /\ pruned' = pruned
      BY <1>11 DEF Crash, Busy, stores
    <2>2. p \notin Pending'
      BY <2>1 DEF TypeOK, Pending, Busy, Idle
    <2>3. p \notin Pending => InWindow(p)
      BY <2>1 DEF Pending, InWindow
    <2>4. CASE p \in Pending
      <3>1. Cardinality(Pending) = others + 1 /\ Cardinality(Pending') = others
            /\ Open = 0
        BY <1>2, <1>4, <2>1, <2>2, <2>4
      <3>2. effects + (others + 1) + 0 <= 1 + unclosed + pruned + overlaps
        BY <3>1 DEF Balance
      <3>3. /\ unclosed' \in Nat /\ unclosed' >= unclosed /\ pruned' = pruned
            /\ effects' = effects /\ overlaps' = overlaps
        BY <1>1, <2>1
      <3>4. effects' + Cardinality(Pending') + Open' <=
               1 + unclosed' + pruned' + overlaps'
        BY <1>3, <3>1, <3>2, <3>3
      <3>5. QED BY <3>4 DEF Balance
    <2>5. CASE p \notin Pending
      <3>1. Cardinality(Pending) = others /\ Cardinality(Pending') = others
            /\ Open = 0 /\ unclosed' = unclosed + 1 /\ pruned' = pruned
        BY <1>2, <1>4, <2>1, <2>2, <2>3, <2>5
      <3>2. effects + others + 0 <= 1 + unclosed + pruned + overlaps
        BY <3>1 DEF Balance
      <3>3. effects' = effects /\ overlaps' = overlaps
        BY <2>1
      <3>4. effects' + Cardinality(Pending') + Open' <=
               1 + unclosed' + pruned' + overlaps'
        BY <1>3, <3>1, <3>2, <3>3
      <3>5. QED BY <3>4 DEF Balance
    <2>6. QED BY <2>4, <2>5
  <1>12. QED BY <1>6, <1>7, <1>8, <1>9, <1>10, <1>11 DEF Step

\* A prune makes no more passes pending than it takes records they rely on.
LEMMA PruneBalance ==
    ASSUME TypeOK, InHand, TerminalVouches, Balance,
           NEW n \in DOMAIN memory, Prune(n)
    PROVE  Balance'
  <1> DEFINE Gone == {i \in ReliedOn :
                        i <= n /\ memory[i].kept /\ memory[i].executed}
             Bereft == {p \in Busy : proc[p].phase = "recorded"
                                      /\ proc[p].why \in Gone}
  <1>1. /\ Len(memory) \in Nat /\ DOMAIN memory = 1..Len(memory)
        /\ effects \in Nat /\ unclosed \in Nat /\ pruned \in Nat
        /\ overlaps \in Nat
    BY DEF TypeOK
  <1>2. /\ pruned' = pruned + Cardinality(Gone) /\ unclosed' = unclosed
        /\ journal' = journal /\ proc' = proc
        /\ effects' = effects /\ overlaps' = overlaps
    BY DEF Prune
  <1>3. \A i \in DOMAIN memory : memory'[i].kept <=> memory[i].kept /\ i > n
    BY PrunedMemory
  <1>4. IsFiniteSet(Gone) /\ Cardinality(Gone) \in Nat
    <2>1. Gone \in SUBSET (1..Len(memory)) /\ IsFiniteSet(1..Len(memory))
      BY <1>1, FS_Interval DEF ReliedOn
    <2>2. QED BY <2>1, FS_Subset, FS_CardinalityType
  <1>5. IsFiniteSet(Bereft) /\ Cardinality(Bereft) <= Cardinality(Gone)
    <2>1. [p \in Bereft |-> proc[p].why] \in Injection(Bereft, Gone)
      <3>1. ASSUME NEW p \in Bereft, NEW q \in Bereft, p # q
            PROVE  proc[p].why # proc[q].why
        BY <3>1 DEF InHand, Hand, Busy
      <3>2. QED BY <3>1 DEF Injection, IsInjective
    <2>2. QED BY <1>4, <2>1, FS_Injection
  <1>6. Pending' \subseteq Pending \cup Bereft
    <2>1. SUFFICES ASSUME NEW p \in Pending', p \notin Pending
                   PROVE  p \in Bereft
      OBVIOUS
    <2>2. /\ p \in Busy /\ proc[p].executed /\ proc[p].phase = "recorded"
          /\ memory[proc[p].why].kept /\ ~memory'[proc[p].why].kept
      BY <1>2, <2>1 DEF Pending, Busy
    <2>3. proc[p].why \in DOMAIN memory /\ memory[proc[p].why].executed
      BY <2>2 DEF Busy, InHand, Hand
    <2>4. proc[p].why \in Gone
      BY <1>1, <1>3, <2>2, <2>3 DEF ReliedOn, Busy
    <2>5. QED BY <2>2, <2>4
  <1>7. IsFiniteSet(Pending) /\ Cardinality(Pending) \in Nat
    <2>1. Pending \in SUBSET Processes
      BY DEF Pending, Busy
    <2>2. QED BY <2>1, FS_Subset, FS_CardinalityType, DurableAssumption
  <1>8. Cardinality(Pending') <= Cardinality(Pending) + Cardinality(Bereft)
        /\ Cardinality(Pending') \in Nat /\ Cardinality(Bereft) \in Nat
    <2>1. IsFiniteSet(Pending \cup Bereft)
          /\ Cardinality(Pending \cup Bereft) =
                Cardinality(Pending) + Cardinality(Bereft)
                   - Cardinality(Pending \cap Bereft)
      BY <1>5, <1>7, FS_Union
    <2>2. Cardinality(Pending \cap Bereft) \in Nat
      BY <1>7, FS_Intersection, FS_CardinalityType
    <2>3. Pending' \in SUBSET (Pending \cup Bereft)
      BY <1>6
    <2>4. IsFiniteSet(Pending')
          /\ Cardinality(Pending') <= Cardinality(Pending \cup Bereft)
      BY <2>1, <2>3, FS_Subset
    <2>5. Cardinality(Pending') \in Nat /\ Cardinality(Bereft) \in Nat
      BY <1>5, <2>4, FS_CardinalityType
    <2>6. Cardinality(Pending \cup Bereft) <=
             Cardinality(Pending) + Cardinality(Bereft)
      <3> HIDE DEF Bereft
      <3>1. QED BY <1>7, <2>1, <2>2, <2>5
    <2>7. Cardinality(Pending \cup Bereft) \in Nat
      BY <2>1, FS_CardinalityType
    <2>8. QED
      <3> HIDE DEF Bereft
      <3>1. QED BY <1>7, <2>4, <2>5, <2>6, <2>7
  <1>9. Open \in {0, 1} /\ Open' \in {0, 1} /\ Busy' = Busy
    BY <1>2 DEF Open, Busy
  <1>10. CASE Busy # {}
    <2>1. Open = 0 /\ Open' = 0
      BY <1>9, <1>10 DEF Open
    <2>2. effects' + Cardinality(Pending') + Open' <=
             1 + unclosed' + pruned' + overlaps'
      <3> HIDE DEF Gone, Bereft
      <3>1. effects + Cardinality(Pending) <= 1 + unclosed + pruned + overlaps
        BY <1>1, <1>7, <2>1 DEF Balance
      <3>2. Cardinality(Pending') <= Cardinality(Pending) + Cardinality(Gone)
        BY <1>4, <1>5, <1>7, <1>8
      <3>3. effects + Cardinality(Pending') <=
               1 + unclosed + (pruned + Cardinality(Gone)) + overlaps
        BY <1>1, <1>4, <1>7, <1>8, <3>1, <3>2
      <3>4. effects' + Cardinality(Pending') <=
               1 + unclosed' + pruned' + overlaps'
        BY <1>2, <3>3, Zenon
      <3>5. effects' \in Nat
        BY <1>1, <1>2
      <3>6. QED BY <1>8, <2>1, <3>4, <3>5
    <2>3. QED BY <2>2 DEF Balance
  <1>11. CASE Busy = {}
    <2>1. Pending = {} /\ Pending' = {}
      BY <1>9, <1>11 DEF Pending
    <2>2. Open' > Open => Cardinality(Gone) >= 1
      <3>1. SUFFICES ASSUME Open' > Open PROVE Cardinality(Gone) >= 1
        OBVIOUS
      <3>2. Concluded /\ ~Concluded'
        BY <1>9, <1>11, <3>1 DEF Open
      <3>3. journal.why \in DOMAIN memory /\ memory[journal.why].executed
            /\ memory[journal.why].kept
        BY <3>2 DEF Concluded, TerminalVouches, Terminal
      <3>4. journal.why \in Gone
        BY <1>1, <1>2, <1>3, <3>2, <3>3 DEF Concluded, ReliedOn, Terminal
      <3>5. Cardinality(Gone) # 0
        BY <1>4, <3>4, FS_EmptySet
      <3>6. QED BY <1>4, <3>5
    <2>3. Cardinality(Pending) = 0 /\ Cardinality(Pending') = 0
      BY <2>1, FS_EmptySet
    <2>4. QED
      <3> HIDE DEF Gone, Bereft
      <3>1. QED BY <1>1, <1>2, <1>4, <1>9, <2>2, <2>3 DEF Balance
  <1>12. QED BY <1>10, <1>11

-----------------------------------------------------------------------------
(* The rulings. *)

LEMMA RulingSets ==
    ASSUME TypeOK
    PROVE  /\ IsFiniteSet(Attested) /\ Cardinality(Attested) \in Nat
           /\ IsFiniteSet(Unwritten) /\ Cardinality(Unwritten) \in Nat
  <1>1. Len(memory) \in Nat /\ DOMAIN memory = 1..Len(memory)
    BY DEF TypeOK
  <1>2. Attested \in SUBSET (1..Len(memory)) /\ Unwritten \in SUBSET Processes
    BY <1>1 DEF Attested, Unwritten
  <1>3. IsFiniteSet(1..Len(memory)) /\ IsFiniteSet(Processes)
    BY <1>1, FS_Interval, DurableAssumption
  <1>4. IsFiniteSet(Attested) /\ IsFiniteSet(Unwritten)
    BY <1>2, <1>3, FS_Subset
  <1>5. QED BY <1>4, FS_CardinalityType

LEMMA StepRulings ==
    ASSUME TypeOK, InHand, RulingsAreAttested, NEW p \in Processes, Step(p)
    PROVE  RulingsAreAttested'
  <1>1. Hand(p) /\ proc[p] \in Passes
    BY DEF InHand, TypeOK
  <1>2. rulings \in Nat /\ lostRulings \in Nat
    BY DEF TypeOK
  <1>3. \A q \in Processes \ {p} : proc'[q] = proc[q]
    BY DEF Step, Begin, FindNoMotion, RecordDeliberated, RecordDecided, Act,
           Execute, Enact, Acted,
           RecordRuling, RecordWhy, Close, Crash, TypeOK
  <1>4. ASSUME memory' = memory, rulings' = rulings, lostRulings' = lostRulings,
               proc[p].phase # "ruled", proc'[p].phase # "ruled"
        PROVE  RulingsAreAttested'
    <2>1. Attested' = Attested /\ Unwritten' = Unwritten
      BY <1>3, <1>4 DEF Attested, Unwritten
    <2>2. QED BY <1>4, <2>1 DEF RulingsAreAttested
  <1>5. ASSUME NEW way \in {"run", "enact"}, Begin(p, way)
        PROVE  RulingsAreAttested'
    BY <1>1, <1>4, <1>5 DEF Begin, TypeOK, Passes
  <1>6. CASE FindNoMotion(p)
    BY <1>1, <1>4, <1>6 DEF FindNoMotion, TypeOK, Passes, stores, history
  <1>7. CASE RecordDeliberated(p)
    BY <1>1, <1>4, <1>7 DEF RecordDeliberated, TypeOK, Passes, history
  <1>8. CASE RecordDecided(p)
    BY <1>1, <1>4, <1>8 DEF RecordDecided, TypeOK, Passes, history
  <1>9. CASE Act(p)
    <2>1. PICK executed \in BOOLEAN, ruled \in BOOLEAN :
             Acted(p, executed, ruled)
      BY <1>9, ActHasOutcome
    <2>2. proc[p].phase # "ruled"
      BY <1>9, ActHasOutcome
    <2>3. QED BY <1>1, <1>4, <2>1, <2>2 DEF Acted, TypeOK, Passes, history
  <1>10. CASE RecordRuling(p)
    <2>1. /\ proc[p].phase = "acted" /\ proc'[p].phase = "ruled"
          /\ memory' = memory /\ rulings' = rulings + 1
          /\ lostRulings' = lostRulings
      BY <1>1, <1>10 DEF RecordRuling, TypeOK, Passes, history
    <2>2. Attested' = Attested
      BY <2>1 DEF Attested
    <2>3. Unwritten' = Unwritten \cup {p} /\ p \notin Unwritten
      BY <1>3, <2>1 DEF Unwritten
    <2>4. Cardinality(Unwritten') = Cardinality(Unwritten) + 1
      BY <2>3, RulingSets, FS_AddElement
    <2>5. QED BY <1>2, <2>1, <2>2, <2>4, RulingSets DEF RulingsAreAttested
  <1>11. CASE RecordWhy(p)
    <2>1. Len(memory) \in Nat /\ DOMAIN memory = 1..Len(memory)
      BY DEF TypeOK
    <2>2. /\ DOMAIN memory' = 1..(Len(memory) + 1)
          /\ \A i \in DOMAIN memory : memory'[i] = memory[i]
          /\ memory'[Len(memory) + 1].ruled = proc[p].ruled
      BY <1>11, <2>1 DEF RecordWhy, TypeOK
    <2>3. /\ proc'[p].phase = "recorded"
          /\ rulings' = rulings /\ lostRulings' = lostRulings
      BY <1>1, <1>11 DEF RecordWhy, TypeOK, Passes, history
    <2>4. CASE proc[p].phase = "ruled"
      <3>1. Attested' = Attested \cup {Len(memory) + 1}
            /\ Len(memory) + 1 \notin Attested
        BY <1>1, <2>1, <2>2, <2>4 DEF Attested, Hand
      <3>2. Unwritten' = Unwritten \ {p} /\ p \in Unwritten
        BY <1>3, <2>3, <2>4 DEF Unwritten
      <3>3. Cardinality(Attested') = Cardinality(Attested) + 1
        BY <3>1, RulingSets, FS_AddElement
      <3>4. Cardinality(Unwritten') = Cardinality(Unwritten) - 1
        BY <3>2, RulingSets, FS_RemoveElement
      <3>5. QED BY <1>2, <2>3, <3>3, <3>4, RulingSets DEF RulingsAreAttested
    <2>5. CASE proc[p].phase # "ruled"
      <3>1. ~proc[p].ruled
        BY <1>11, <2>5 DEF RecordWhy
      <3>2. Attested' = Attested
        BY <2>1, <2>2, <3>1 DEF Attested
      <3>3. Unwritten' = Unwritten
        BY <1>3, <2>3, <2>5 DEF Unwritten
      <3>4. QED BY <2>3, <3>2, <3>3 DEF RulingsAreAttested
    <2>6. QED BY <2>4, <2>5
  <1>12. CASE Close(p)
    <2>1. proc'[p].phase = "idle"
      BY <1>12 DEF Close, TypeOK, Idle
    <2>2. QED BY <1>4, <1>12, <2>1 DEF Close, history
  <1>13. CASE Crash(p)
    <2>1. /\ proc'[p].phase = "idle" /\ memory' = memory /\ rulings' = rulings
          /\ lostRulings' =
                lostRulings + (IF proc[p].phase = "ruled" THEN 1 ELSE 0)
      BY <1>13 DEF Crash, TypeOK, Idle, stores
    <2>2. CASE proc[p].phase = "ruled"
      <3>1. Attested' = Attested
        BY <2>1 DEF Attested
      <3>2. Unwritten' = Unwritten \ {p} /\ p \in Unwritten
        BY <1>3, <2>1, <2>2 DEF Unwritten
      <3>3. Cardinality(Unwritten') = Cardinality(Unwritten) - 1
        BY <3>2, RulingSets, FS_RemoveElement
      <3>4. QED BY <1>2, <2>1, <2>2, <3>1, <3>3, RulingSets
            DEF RulingsAreAttested
    <2>3. CASE proc[p].phase # "ruled"
      BY <1>2, <1>4, <2>1, <2>3
    <2>4. QED BY <2>2, <2>3
  <1>14. QED BY <1>5, <1>6, <1>7, <1>8, <1>9, <1>10, <1>11, <1>12, <1>13 DEF Step

LEMMA PruneRulings ==
    ASSUME TypeOK, RulingsAreAttested, NEW n \in DOMAIN memory, Prune(n)
    PROVE  RulingsAreAttested'
  <1>1. DOMAIN memory' = DOMAIN memory
        /\ \A i \in DOMAIN memory : memory'[i].ruled = memory[i].ruled
    BY PrunedMemory
  <1>2. proc' = proc /\ rulings' = rulings /\ lostRulings' = lostRulings
    BY DEF Prune
  <1>3. Attested' = Attested /\ Unwritten' = Unwritten
    BY <1>1, <1>2 DEF Attested, Unwritten
  <1>4. QED BY <1>2, <1>3 DEF RulingsAreAttested

-----------------------------------------------------------------------------
(* One process at a time. *)

LEMMA StepAlone ==
    ASSUME TypeOK, InHand, TerminalVouches, Alone, NEW p \in Processes, Step(p)
    PROVE  Alone'
  <1>1. /\ Hand(p) /\ Len(memory) \in Nat /\ DOMAIN memory = 1..Len(memory)
        /\ overlaps \in Nat
    BY DEF InHand, TypeOK
  <1>2. Busy' \ {p} = Busy \ {p}
    BY OthersPending
  <1>3. ASSUME NEW way \in {"run", "enact"}, Begin(p, way)
        PROVE  Alone'
    <2>1. CASE Busy = {}
      <3>1. ~OnRecord
        BY <1>1, <1>3 DEF Begin, Recorded, OnRecord, NoRecord
      <3>2. ~OnRecord'
        BY <1>3, <3>1 DEF Begin, OnRecord, Terminal
      <3>3. \A q \in Busy' : q = p
        BY <1>2, <2>1
      <3>4. QED BY <3>2, <3>3 DEF Alone
    <2>2. CASE Busy # {}
      <3>1. overlaps' = overlaps + 1
        BY <1>3, <2>2 DEF Begin
      <3>2. QED BY <1>1, <3>1 DEF Alone
    <2>3. QED BY <2>1, <2>2
  <1>4. ASSUME ~\E way \in {"run", "enact"} : Begin(p, way)
        PROVE  p \in Busy /\ overlaps' = overlaps
    BY <1>4 DEF Step, FindNoMotion, RecordDeliberated, RecordDecided, Act,
                Execute, Enact, Acted,
                RecordRuling, RecordWhy, Close, Crash, Busy, history
  <1>5. ASSUME overlaps = 0, p \in Busy PROVE Busy' \subseteq {p} /\ ~OnRecord
    BY <1>2, <1>5 DEF Alone
  <1>6. CASE Close(p) \/ Crash(p)
    <2>1. p \notin Busy'
      BY <1>6 DEF Close, Crash, Busy, TypeOK, Idle
    <2>2. p \in Busy /\ overlaps' = overlaps
      BY <1>6 DEF Close, Crash, Busy, history
    <2>3. QED BY <1>5, <2>1, <2>2 DEF Alone
  <1>7. CASE FindNoMotion(p) \/ Act(p) \/ RecordRuling(p)
    <2>1. /\ p \in Busy /\ overlaps' = overlaps
          /\ journal' = journal /\ memory' = memory
      BY <1>7 DEF FindNoMotion, Act, Execute, Enact, Acted, RecordRuling, Busy,
                  stores, history
    <2>2. OnRecord' = OnRecord
      BY <2>1 DEF OnRecord, Terminal
    <2>3. QED BY <1>5, <2>1, <2>2 DEF Alone
  <1>8. CASE RecordDeliberated(p) \/ RecordDecided(p)
    <2>1. p \in Busy /\ overlaps' = overlaps /\ journal'.status = "running"
      BY <1>8 DEF RecordDeliberated, RecordDecided, RecordStep, Busy, history
    <2>2. ~OnRecord'
      BY <2>1 DEF OnRecord, Terminal
    <2>3. QED BY <1>5, <2>1, <2>2 DEF Alone
  <1>9. CASE RecordWhy(p)
    <2>1. p \in Busy /\ overlaps' = overlaps /\ journal' = journal
      BY <1>9 DEF RecordWhy, Busy, history
    <2>2. \A i \in DOMAIN memory : memory'[i] = memory[i]
      BY <1>1, <1>9 DEF RecordWhy, TypeOK
    <2>3. ~OnRecord => ~OnRecord'
      BY <2>1, <2>2 DEF OnRecord, Terminal, TerminalVouches
    <2>4. QED BY <1>5, <2>1, <2>3 DEF Alone
  <1>10. QED BY <1>3, <1>6, <1>7, <1>8, <1>9 DEF Step

LEMMA PruneAlone ==
    ASSUME TypeOK, Alone, NEW n \in DOMAIN memory, Prune(n)
    PROVE  Alone'
  <1>1. DOMAIN memory' = DOMAIN memory
        /\ \A i \in DOMAIN memory : memory'[i].kept => memory[i].kept
    BY PrunedMemory
  <1>2. proc' = proc /\ journal' = journal /\ overlaps' = overlaps
    BY DEF Prune
  <1>3. Busy' = Busy /\ (OnRecord' => OnRecord)
    BY <1>1, <1>2 DEF Busy, OnRecord, Terminal
  <1>4. QED BY <1>2, <1>3 DEF Alone

-----------------------------------------------------------------------------
(* The theorems. *)

LEMMA InitIInv == Init => IInv
  <1>1. SUFFICES ASSUME Init PROVE IInv
    OBVIOUS
  <1>2. /\ memory = <<>> /\ Len(memory) = 0 /\ DOMAIN memory = {}
        /\ memory \in Seq(Records)
    BY <1>1 DEF Init
  <1>3. TypeOK
    BY <1>1, <1>2, IdleIsPass, DurableAssumption
    DEF Init, TypeOK, Journals, Idle, NoRecord
  <1>4. \A p \in Processes : proc[p] = Idle
    BY <1>1 DEF Init
  <1>5. InHand
    BY <1>4 DEF InHand, Hand, Idle
  <1>6. TerminalVouches
    BY <1>1 DEF Init, TerminalVouches, Terminal
  <1>7. Busy = {} /\ Pending = {} /\ Unwritten = {} /\ Attested = {}
    BY <1>2, <1>4 DEF Busy, Pending, Unwritten, Attested, Idle
  <1>8. Balance
    <2>1. Cardinality(Pending) = 0 /\ (Open = 0 \/ Open = 1)
      BY <1>7, FS_EmptySet DEF Open
    <2>2. QED BY <1>1, <2>1 DEF Init, Balance
  <1>9. RulingsAreAttested
    BY <1>1, <1>7, FS_EmptySet DEF Init, RulingsAreAttested
  <1>10. Alone
    BY <1>7 DEF Alone
  <1>11. QED BY <1>3, <1>5, <1>6, <1>8, <1>9, <1>10 DEF IInv

LEMMA StepIInv == IInv /\ [Next]_vars => IInv'
  <1>1. SUFFICES ASSUME IInv, [Next]_vars PROVE IInv'
    OBVIOUS
  <1>2. ASSUME NEW p \in Processes, Step(p) PROVE IInv'
    BY <1>1, <1>2, StepType, StepHands, StepVouches, StepBalance, StepRulings,
       StepAlone
    DEF IInv
  <1>3. ASSUME NEW n \in DOMAIN memory, Prune(n) PROVE IInv'
    BY <1>1, <1>3, PruneType, PruneHands, PruneVouches, PruneBalance,
       PruneRulings, PruneAlone
    DEF IInv
  <1>4. CASE UNCHANGED vars
    <2>1. UNCHANGED <<journal, memory, rulings, effects, proc, starts,
                      overlaps, unclosed, pruned, lostRulings>>
      BY <1>4 DEF vars, stores, history
    <2>2. QED BY <1>1, <2>1
          DEF IInv, TypeOK, InHand, Hand, TerminalVouches, Terminal, Balance,
              Pending, Open, Concluded, Busy, RulingsAreAttested, Attested,
              Unwritten, Alone, OnRecord
  <1>5. QED BY <1>1, <1>2, <1>3, <1>4 DEF Next

LEMMA DurableInvariant == Spec => []IInv
  BY InitIInv, StepIInv, PTL DEF Spec

\* Whatever crashes, overlaps and is pruned, the stores stay well formed and
\* every why_id is that of a committed record.
THEOREM DurableTyped == Spec => []TypeOK
  BY DurableInvariant, PTL DEF IInv

\* The outcome a resume is given (Agent.run, RunJournal) is that of the pass
\* that closed the journal.
THEOREM TerminalIsTrue == Spec => []TerminalVouches
  BY DurableInvariant, PTL DEF IInv

\* Every repeated side effect is paid for by a crash, a prune or an overlap.
THEOREM RepeatsArePaid == Spec => []RepeatsAreExplained
  <1>1. IInv => RepeatsAreExplained
    <2>1. SUFFICES ASSUME IInv PROVE RepeatsAreExplained
      OBVIOUS
    <2>2. Pending \in SUBSET Processes
      BY DEF Pending, Busy
    <2>3. Cardinality(Pending) \in Nat
      BY <2>2, FS_Subset, FS_CardinalityType, DurableAssumption
    <2>4. Open = 0 \/ Open = 1
      BY DEF Open
    <2>5. effects \in Nat /\ unclosed \in Nat /\ pruned \in Nat
          /\ overlaps \in Nat
      BY <2>1 DEF IInv, TypeOK
    <2>6. QED BY <2>1, <2>3, <2>4, <2>5 DEF IInv, Balance, RepeatsAreExplained
  <1>2. QED BY <1>1, DurableInvariant, PTL

\* The precedent store counts the rulings of presiders, each attested by a why
\* record unless its process died in between.
THEOREM RulingsHaveRecords == Spec => []RulingsAreAttested
  BY DurableInvariant, PTL DEF IInv

\* Without overlapping passes a recorded outcome is final.
THEOREM OutcomeStands == Spec => OutcomeIsFinal
  <1>1. IInv /\ [Next]_vars =>
           [overlaps = 0 /\ OnRecord
              => journal' = journal /\ effects' = effects]_vars
    <2>1. SUFFICES ASSUME IInv, Next, overlaps = 0, OnRecord
                   PROVE  journal' = journal /\ effects' = effects
      OBVIOUS
    <2>2. Busy = {}
      BY <2>1 DEF IInv, Alone
    <2>3. ASSUME NEW p \in Processes PROVE ~Step(p)
      <3>1. proc[p].phase = "idle"
        BY <2>2 DEF Busy
      <3>2. Recorded
        BY <2>1 DEF IInv, TypeOK, OnRecord, Recorded, NoRecord
      <3>3. QED BY <3>1, <3>2
            DEF Step, Begin, FindNoMotion, RecordDeliberated, RecordDecided,
                Act, Execute, Enact, Acted, RecordRuling, RecordWhy, Close,
                Crash
    <2>4. PICK n \in DOMAIN memory : Prune(n)
      BY <2>1, <2>3 DEF Next
    <2>5. QED BY <2>4 DEF Prune
  <1>2. QED BY <1>1, DurableInvariant, PTL DEF Spec, OutcomeIsFinal

-----------------------------------------------------------------------------
(* The demo batch: what the assessment of a line promises. *)

\* A line has its facts, and its package a context or none.
LEMMA LineFacts ==
    ASSUME NEW l \in Line
    PROVE  /\ Fact[l] \in Facts /\ Fact[l].package \in Package
           /\ ContextOf(l) # NoContext => ContextOf(l).inScope \in BOOLEAN
           /\ Limit(l) \in Nat
  BY DemoAssumption DEF Facts, ContextOf, Contexts, Limit

\* A cost or a quantity is a number or missing.
LEMMA ValuesAreNumbers ==
    ASSUME NEW l \in Line, NEW mode
    PROVE  /\ Cost(l, mode) \in Int \cup {Missing}
           /\ Quantity(l, mode) \in Int \cup {Missing}
  BY LineFacts DEF Cost, Quantity, Facts

\* A line without gaps has passed every gate before the threshold.
LEMMA NoGaps ==
    ASSUME NEW l \in Line, NEW code, NEW mode, Gaps(l, code, mode) = {}
    PROVE  /\ code # NoTask
           /\ Nature(l, code, mode) # "REVIEW"
           /\ RegionGoverned(l, mode)
           /\ Nature(l, code, mode) # "OPEX_BY_NATURE" =>
                 Native(l, mode) /\ Cost(l, mode) # Missing
<1> DEFINE nature == Nature(l, code, mode)
           compared == RegionGoverned(l, mode) /\ nature # "OPEX_BY_NATURE"
<1>1. \A g \in {"task", "nature", "region", "currency", "cost", "settings"} :
         ~ CASE g = "task"     -> code = NoTask
             [] g = "nature"   -> nature = "REVIEW"
             [] g = "region"   -> ~RegionGoverned(l, mode)
             [] g = "currency" -> compared /\ ~Native(l, mode)
             [] g = "cost"     -> compared /\ Native(l, mode) /\ Cost(l, mode) = Missing
             [] g = "settings" ->
                   /\ nature = "CAPITALIZABLE"
                   /\ ~({"threshold-equality", "threshold-basis"} \subseteq Settled(mode))
  BY Zenon DEF Gaps
<1> HIDE DEF nature
<1>2. code # NoTask
  BY <1>1
<1>3. nature # "REVIEW"
  BY <1>1
<1>4. RegionGoverned(l, mode)
  BY <1>1
<1>5. ~(compared /\ ~Native(l, mode))
  BY <1>1
<1>6. ~(compared /\ Native(l, mode) /\ Cost(l, mode) = Missing)
  BY <1>1
<1> QED
  BY <1>2, <1>3, <1>4, <1>5, <1>6 DEF nature

\* A nature is that of every rule that applies, and there is one.
LEMMA NatureAgrees ==
    ASSUME NEW l, NEW code, NEW mode, Nature(l, code, mode) # "REVIEW"
    PROVE  /\ Nature(l, code, mode) \in Natures
           /\ MatchingRules(l, code, mode) # {}
           /\ \A r \in MatchingRules(l, code, mode) : r.nature = Nature(l, code, mode)
           /\ UsableRules(mode) = Rules
           /\ Approved \/ (mode # "governed" /\ Synthetic)
<1> DEFINE results == {r.nature : r \in MatchingRules(l, code, mode)}
<1>1. Cardinality(results) = 1 /\ Nature(l, code, mode) = CHOOSE n \in results : TRUE
  BY DEF Nature
<1>2. MatchingRules(l, code, mode) \subseteq Rules
  BY DEF MatchingRules, UsableRules
<1>3. results \subseteq Natures
  BY <1>2, DemoAssumption DEF RuleKind
<1>4. IsFiniteSet(results)
  <2>1. IsFiniteSet(Natures)
    <3>1. Natures = {"CAPITALIZABLE"} \cup {"OPEX_BY_NATURE"}
      BY DEF Natures
    <3>2. IsFiniteSet({"CAPITALIZABLE"})
      BY FS_Singleton
    <3> QED
      BY <3>1, <3>2, FS_AddElement
  <2> QED
    BY <1>3, <2>1, FS_Subset
<1> HIDE DEF results
<1>5. PICK n : results = {n}
  BY <1>1, <1>4, FS_Singleton
<1>6. Nature(l, code, mode) = n
  BY <1>1, <1>5
<1>7. MatchingRules(l, code, mode) # {}
  BY <1>5 DEF results
<1>8. UsableRules(mode) # {}
  BY <1>7 DEF MatchingRules
<1> QED
  BY <1>3, <1>5, <1>6, <1>7, <1>8 DEF results, UsableRules

\* Outcomes, by recommendation and disposition.
LEMMA OutcomeKinds ==
    ASSUME NEW l, NEW code, NEW mode
    PROVE  Outcome(l, code, mode) \in
              {<<"REVIEW", "REVIEW">>, <<"OPEX", "NOT_ELIGIBLE">>, <<"CAPEX", "NOT_IN_SCOPE">>,
               <<"OPEX", "NOT_IN_SCOPE">>, <<"OPEX", "CANDIDATE">>}
  BY DEF Outcome, BelowThreshold

\* A candidate is expensed, below the threshold, and of an open project in scope.
LEMMA CandidateFacts ==
    ASSUME NEW l \in Line, NEW code, NEW mode, Outcome(l, code, mode)[2] = "CANDIDATE"
    PROVE  /\ Outcome(l, code, mode)[1] = "OPEX"
           /\ Cost(l, mode) \in Int /\ Cost(l, mode) < Limit(l)
           /\ ContextOf(l).inScope /\ ContextOf(l).status = "OPEN"
<1>1. /\ Gaps(l, code, mode) = {} /\ Nature(l, code, mode) # "OPEX_BY_NATURE"
      /\ ~(Cost(l, mode) >= Limit(l))
      /\ BelowThreshold(l, mode)[2] = "CANDIDATE"
  BY DEF Outcome
<1>2. Cost(l, mode) \in Int
  BY <1>1, NoGaps, ValuesAreNumbers
<1>3. /\ ContextOf(l) # NoContext /\ ContextOf(l).status = "OPEN"
      /\ ~(~ContextOf(l).inScope)
  BY <1>1 DEF BelowThreshold
<1>4. Cost(l, mode) < Limit(l)
  BY <1>1, <1>2, LineFacts
<1> QED
  BY <1>2, <1>3, <1>4, OutcomeKinds

\* What a recommendation rests on.
LEMMA RecommendationRests ==
    ASSUME NEW l \in Line, NEW code \in Codes, NEW mode, Outcome(l, code, mode)[1] # "REVIEW"
    PROVE  LET applying == {r \in Rules : code \in r.codes \/ l \in r.lines}
           IN  /\ code \in Task
               /\ RegionGoverned(l, mode)
               /\ Approved \/ (Synthetic /\ mode # "governed")
               /\ \E n \in Natures : applying # {} /\ \A r \in applying : r.nature = n
               /\ Outcome(l, code, mode)[1] = "CAPEX" =>
                     /\ \A r \in applying : r.nature = "CAPITALIZABLE"
                     /\ Cost(l, mode) >= Limit(l)
                     /\ Native(l, mode)
<1> DEFINE applying == {r \in Rules : code \in r.codes \/ l \in r.lines}
<1>1. Gaps(l, code, mode) = {}
  BY DEF Outcome
<1>2. /\ code # NoTask /\ Nature(l, code, mode) # "REVIEW" /\ RegionGoverned(l, mode)
      /\ Nature(l, code, mode) # "OPEX_BY_NATURE" => Native(l, mode)
  BY <1>1, NoGaps
<1>3. /\ Nature(l, code, mode) \in Natures
      /\ MatchingRules(l, code, mode) # {}
      /\ \A r \in MatchingRules(l, code, mode) : r.nature = Nature(l, code, mode)
      /\ UsableRules(mode) = Rules
      /\ Approved \/ (mode # "governed" /\ Synthetic)
  BY <1>2, NatureAgrees
<1>4. applying = MatchingRules(l, code, mode)
  BY <1>3 DEF MatchingRules
<1>5. ASSUME Outcome(l, code, mode)[1] = "CAPEX"
      PROVE  /\ Nature(l, code, mode) = "CAPITALIZABLE" /\ Cost(l, mode) >= Limit(l)
             /\ Native(l, mode)
  <2>1. Nature(l, code, mode) # "OPEX_BY_NATURE"
    BY <1>1, <1>5 DEF Outcome
  <2>2. Cost(l, mode) >= Limit(l)
    BY <1>1, <1>5, <2>1 DEF Outcome, BelowThreshold
  <2> QED
    BY <1>2, <1>3, <2>1, <2>2 DEF Natures
<1> HIDE DEF applying
<1>6. \E n \in Natures : applying # {} /\ \A r \in applying : r.nature = n
  BY <1>3, <1>4
<1>7. code \in Task
  BY <1>2 DEF Codes
<1>8. Outcome(l, code, mode)[1] = "CAPEX" =>
         /\ \A r \in applying : r.nature = "CAPITALIZABLE"
         /\ Cost(l, mode) >= Limit(l)
         /\ Native(l, mode)
  BY <1>3, <1>4, <1>5
<1> QED
  BY <1>2, <1>3, <1>6, <1>7, <1>8 DEF applying

\* The bundles of codes: each has all the candidates of its key, and each key with
\* enough of them, worth anything, has one.
LEMMA BundleMembers ==
    ASSUME NEW codes, NEW mode
    PROVE  LET candidates == Candidates(codes, mode)
               members(key) == {l \in candidates : KeyOf(l, codes[l]) = key}
           IN  /\ \A b \in Bundles(codes, mode) :
                     /\ b.members = members(b.key) /\ b.total = Total(b.members)
                     /\ Cardinality(b.members) >= MinMembers
               /\ \A l \in candidates :
                     \/ \E b \in Bundles(codes, mode) : l \in b.members
                     \/ ~(Cardinality(members(KeyOf(l, codes[l]))) >= MinMembers)
                     \/ Total(members(KeyOf(l, codes[l]))) = 0
<1> DEFINE candidates == Candidates(codes, mode)
           members(key) == {l \in candidates : KeyOf(l, codes[l]) = key}
           keys == {KeyOf(l, codes[l]) : l \in candidates}
           wanted == {k \in keys : /\ Cardinality(members(k)) >= MinMembers
                                   /\ Total(members(k)) # 0}
           bundle(key) == [key |-> key, members |-> members(key), total |-> Total(members(key))]
<1>1. Bundles(codes, mode) = {bundle(key) : key \in wanted}
  BY Zenon DEF Bundles
<1>2. \A key : /\ bundle(key).key = key /\ bundle(key).members = members(key)
               /\ bundle(key).total = Total(members(key))
  OBVIOUS
<1>3. \A key \in wanted : Cardinality(members(key)) >= MinMembers
  OBVIOUS
<1>4. \A l \in candidates : /\ l \in members(KeyOf(l, codes[l]))
                            /\ KeyOf(l, codes[l]) \in keys
  OBVIOUS
<1>5. \A k \in keys \ wanted : ~(Cardinality(members(k)) >= MinMembers) \/ Total(members(k)) = 0
  OBVIOUS
<1> HIDE DEF members, keys, wanted, bundle
<1>6. ASSUME NEW b \in Bundles(codes, mode)
      PROVE  /\ b.members = members(b.key) /\ b.total = Total(b.members)
             /\ Cardinality(b.members) >= MinMembers
  BY <1>1, <1>2, <1>3
<1>7. ASSUME NEW l \in candidates
      PROVE  \/ \E b \in Bundles(codes, mode) : l \in b.members
             \/ ~(Cardinality(members(KeyOf(l, codes[l]))) >= MinMembers)
             \/ Total(members(KeyOf(l, codes[l]))) = 0
  <2>1. CASE KeyOf(l, codes[l]) \in wanted
    BY <1>1, <1>2, <1>4, <2>1
  <2>2. CASE KeyOf(l, codes[l]) \notin wanted
    BY <1>4, <1>5, <2>2
  <2> QED
    BY <2>1, <2>2
<1> QED
  BY <1>6, <1>7, Zenon DEF members

\* An assessed line is grouped exactly if a bundle has it, and eligible exactly if it
\* is a candidate.
LEMMA Dispositions ==
    ASSUME NEW codes, NEW mode, NEW l \in DOMAIN codes
    PROVE  LET a == Assessment(l, codes[l], Bundles(codes, mode), mode)
           IN  /\ a.disposition = "GROUPED" <=> \E b \in Bundles(codes, mode) : l \in b.members
               /\ a.disposition \in {"GROUPED", "CANDIDATE"} <=> l \in Candidates(codes, mode)
               /\ a.recommendation = Outcome(l, codes[l], mode)[1]
               /\ a.code = codes[l]
<1> DEFINE joined == {b \in Bundles(codes, mode) : l \in b.members}
           a == Assessment(l, codes[l], Bundles(codes, mode), mode)
<1>1. /\ a.disposition = IF joined = {} THEN Outcome(l, codes[l], mode)[2] ELSE "GROUPED"
      /\ a.recommendation = Outcome(l, codes[l], mode)[1]
      /\ a.code = codes[l]
  BY DEF Assessment
<1>2. Outcome(l, codes[l], mode)[2] # "GROUPED"
  BY OutcomeKinds
<1>3. joined # {} => l \in Candidates(codes, mode)
  BY BundleMembers
<1>4. l \in Candidates(codes, mode) <=> Outcome(l, codes[l], mode)[2] = "CANDIDATE"
  BY DEF Candidates
<1> HIDE DEF a
<1> QED
  BY <1>1, <1>2, <1>3, <1>4 DEF a

-----------------------------------------------------------------------------
(* The demo batch: the invariant. *)

\* Line l was given a code by execution p; its row bears the same.
Given(p, l) == attempt[p].codes[l] # Unasked
Kept(p, l) == Given(p, l) => suggestion[l] = attempt[p].codes[l]

\* A package is determined with all of its lines, or not at all.
WholePackages(p) ==
    \A l, m \in Line : Fact[l].package = Fact[m].package /\ Given(p, l) => Given(p, m)

\* No candidate for a bundle among the lines of codes raises an error.
AllFit(codes) == \A l \in Candidates(codes, request.mode) : ~Unfit(l, request.mode)

\* The tables hold all that execution p has decided.
TablesHold(p) ==
    /\ \A l \in Line : Given(p, l)
    /\ run = Results(p) /\ suggestion = attempt[p].codes

\* What an execution has behind it: an error unless every line so far has a code,
\* the rows of the packages it has persisted, and, if nothing failed, all of it in
\* the tables.
AttemptFits(p) ==
    LET a == attempt[p]
    IN  /\ a.pc \in {"idle", "fresh"} =>
              a.at = 1 /\ a.errors = {} /\ \A l \in Line : ~Given(p, l)
        /\ a.pc \in {"idle", "fresh", "packages", "bundling"} => ~a.wrote
        /\ a.pc \notin {"write", "done", "dead"} => a.status = "none"
        /\ WholePackages(p)
        /\ a.pc = "packages" /\ a.errors = {} =>
              \A i \in DOMAIN Order : i < a.at => \A l \in LinesOf(Order[i]) : Given(p, l)
        /\ a.pc \in {"bundling", "tasks", "results", "finish"} /\ a.errors = {} =>
              \A l \in Line : Given(p, l)
        /\ a.pc = "tasks" =>
              \A i \in DOMAIN Order : i < a.at => \A l \in LinesOf(Order[i]) : Kept(p, l)
        /\ a.pc = "results" => \A l \in Line : Kept(p, l)
        /\ a.pc \in {"tasks", "results"} =>
              AllFit(Determined(p)) /\ \E l \in Line : Given(p, l)
        /\ a.wrote => \E l \in Line : Given(p, l)
        /\ a.pc = "finish" /\ a.errors = {} => TablesHold(p)
        /\ a.status = "SUCCEEDED" => TablesHold(p)
        /\ a.status = "FAILED" => ~a.wrote

\* The codes of the stored assessments.
StoredCodes == [l \in DOMAIN run.lines |-> run.lines[l].code]

\* The stored results are the assessment of the rows, whole package by whole package.
RunFits ==
    Stored =>
        /\ DOMAIN run.lines \subseteq Line
        /\ \A l \in DOMAIN run.lines : run.lines[l].code \in Codes
        /\ AllFit(StoredCodes)
        /\ run.bundles = Bundles(StoredCodes, request.mode)
        /\ run.lines = [l \in DOMAIN run.lines |->
                          Assessment(l, StoredCodes[l], run.bundles, request.mode)]

\* The inductive invariant of the demo batch.
DemoInv ==
    /\ DemoTypeOK
    /\ \A p \in Attempt : AttemptFits(p)
    /\ AssessedAsSuggested
    /\ RunFits

\* The stored assessments, line by line.
LEMMA StoredLines ==
    ASSUME RunFits, Stored
    PROVE  /\ DOMAIN StoredCodes = DOMAIN run.lines /\ DOMAIN run.lines \subseteq Line
           /\ \A l \in DOMAIN run.lines :
                 /\ StoredCodes[l] = run.lines[l].code /\ run.lines[l].code \in Codes
                 /\ run.lines[l] = Assessment(l, StoredCodes[l], run.bundles, request.mode)
           /\ run.bundles = Bundles(StoredCodes, request.mode)
           /\ AllFit(StoredCodes)
           /\ \A l \in Candidates(StoredCodes, request.mode) : l \in DOMAIN run.lines
<1>1. /\ DOMAIN StoredCodes = DOMAIN run.lines
      /\ \A l \in DOMAIN run.lines : StoredCodes[l] = run.lines[l].code
  BY DEF StoredCodes
<1>2. \A l \in Candidates(StoredCodes, request.mode) : l \in DOMAIN run.lines
  BY <1>1 DEF Candidates
<1> HIDE DEF StoredCodes
<1>3. /\ DOMAIN run.lines \subseteq Line
      /\ \A l \in DOMAIN run.lines : run.lines[l].code \in Codes
      /\ AllFit(StoredCodes)
      /\ run.bundles = Bundles(StoredCodes, request.mode)
      /\ run.lines = [l \in DOMAIN run.lines |->
                        Assessment(l, StoredCodes[l], run.bundles, request.mode)]
  BY Zenon DEF RunFits
<1>4. \A l \in DOMAIN run.lines :
         run.lines[l] = Assessment(l, StoredCodes[l], run.bundles, request.mode)
  BY <1>3, Zenon
<1> QED
  BY <1>1, <1>2, <1>3, <1>4

\* Governed decisions follow.
LEMMA DecisionsFollow ==
    ASSUME RunFits, AssessedAsSuggested
    PROVE  DecisionsAreGoverned
<1> SUFFICES ASSUME Stored, NEW l \in DOMAIN run.lines,
                    run.lines[l].recommendation # "REVIEW"
             PROVE  LET applying == {r \in Rules : suggestion[l] \in r.codes \/ l \in r.lines}
                    IN  /\ suggestion[l] \in Task
                        /\ Fact[l].package \in Local /\ (Domestic \/ request.mode # "governed")
                        /\ Approved \/ (Synthetic /\ request.mode # "governed")
                        /\ \E n \in Natures : applying # {} /\ \A r \in applying : r.nature = n
                        /\ run.lines[l].recommendation = "CAPEX" =>
                              /\ \A r \in applying : r.nature = "CAPITALIZABLE"
                              /\ Cost(l, request.mode) >= Limit(l)
                              /\ request.mode # "sql" => Fact[l].currency = Currency
  BY Zenon DEF DecisionsAreGoverned
<1>1. /\ l \in Line /\ StoredCodes[l] \in Codes /\ l \in DOMAIN StoredCodes
      /\ run.lines[l] = Assessment(l, StoredCodes[l], Bundles(StoredCodes, request.mode),
                                   request.mode)
      /\ StoredCodes[l] = run.lines[l].code
  BY StoredLines
<1>2. StoredCodes[l] = suggestion[l]
  BY <1>1 DEF AssessedAsSuggested
<1>3. run.lines[l].recommendation = Outcome(l, suggestion[l], request.mode)[1]
  BY <1>1, <1>2 DEF Assessment
<1> DEFINE applying == {r \in Rules : suggestion[l] \in r.codes \/ l \in r.lines}
<1>4. /\ suggestion[l] \in Task
      /\ RegionGoverned(l, request.mode)
      /\ Approved \/ (Synthetic /\ request.mode # "governed")
      /\ \E n \in Natures : applying # {} /\ \A r \in applying : r.nature = n
      /\ Outcome(l, suggestion[l], request.mode)[1] = "CAPEX" =>
            /\ \A r \in applying : r.nature = "CAPITALIZABLE"
            /\ Cost(l, request.mode) >= Limit(l)
            /\ Native(l, request.mode)
  BY <1>1, <1>2, <1>3, RecommendationRests
<1> HIDE DEF applying
<1>5. /\ Fact[l].package \in Local /\ (Domestic \/ request.mode # "governed")
      /\ Native(l, request.mode) => (request.mode # "sql" => Fact[l].currency = Currency)
  BY <1>4 DEF RegionGoverned, Native
<1> QED
  BY <1>3, <1>4, <1>5 DEF applying

\* And sound bundles.
LEMMA BundlesFollow ==
    ASSUME RunFits, AssessedAsSuggested
    PROVE  BundlesAreSound
<1> DEFINE alike(l, m) ==
              /\ suggestion[l] = suggestion[m]
              /\ ContextOf(l).site = ContextOf(m).site
              /\ ContextOf(l).project = ContextOf(m).project
              /\ Fact[l].currency = Fact[m].currency
           grouped(l) == run.lines[l].disposition = "GROUPED"
           eligible(l) == grouped(l) \/ run.lines[l].disposition = "CANDIDATE"
           candidates == Candidates(StoredCodes, request.mode)
           members(key) == {l \in candidates : KeyOf(l, StoredCodes[l]) = key}
           rest(l) == {m \in DOMAIN run.lines : eligible(m) /\ alike(l, m)}
<1> SUFFICES ASSUME Stored
             PROVE  /\ \A b \in run.bundles :
                          /\ Cardinality(b.members) >= MinMembers
                          /\ b.total = Total(b.members)
                          /\ \A l \in b.members :
                                /\ grouped(l)
                                /\ run.lines[l].recommendation = "OPEX"
                                /\ Cost(l, request.mode) < Limit(l)
                                /\ Quantity(l, request.mode) > 0
                                /\ ContextOf(l).inScope /\ ContextOf(l).status = "OPEN"
                                /\ \A m \in DOMAIN run.lines :
                                      m \in b.members <=> eligible(m) /\ alike(l, m)
                    /\ \A l \in DOMAIN run.lines :
                          /\ grouped(l) <=> \E b \in run.bundles : l \in b.members
                          /\ eligible(l) /\ ~grouped(l) =>
                                Cardinality(rest(l)) < MinMembers \/ Total(rest(l)) = 0
  BY Zenon DEF BundlesAreSound
<1>1. /\ DOMAIN StoredCodes = DOMAIN run.lines /\ DOMAIN run.lines \subseteq Line
      /\ \A l \in DOMAIN run.lines :
            /\ StoredCodes[l] = run.lines[l].code
            /\ run.lines[l] = Assessment(l, StoredCodes[l], run.bundles, request.mode)
      /\ run.bundles = Bundles(StoredCodes, request.mode)
      /\ AllFit(StoredCodes)
      /\ candidates \subseteq DOMAIN run.lines
  BY StoredLines
<1>2. \A l \in DOMAIN run.lines : suggestion[l] = StoredCodes[l]
  BY <1>1 DEF AssessedAsSuggested
<1>3. \A l \in DOMAIN run.lines :
         /\ grouped(l) <=> \E b \in run.bundles : l \in b.members
         /\ eligible(l) <=> l \in candidates
         /\ run.lines[l].recommendation = Outcome(l, StoredCodes[l], request.mode)[1]
  <2> SUFFICES ASSUME NEW l \in DOMAIN run.lines
               PROVE  /\ grouped(l) <=> \E b \in run.bundles : l \in b.members
                      /\ eligible(l) <=> l \in candidates
                      /\ run.lines[l].recommendation = Outcome(l, StoredCodes[l], request.mode)[1]
    OBVIOUS
  <2> DEFINE a == Assessment(l, StoredCodes[l], Bundles(StoredCodes, request.mode), request.mode)
  <2>1. /\ a.disposition = "GROUPED" <=>
              \E b \in Bundles(StoredCodes, request.mode) : l \in b.members
        /\ a.disposition \in {"GROUPED", "CANDIDATE"} <=> l \in candidates
        /\ a.recommendation = Outcome(l, StoredCodes[l], request.mode)[1]
    BY <1>1, Dispositions
  <2>2. run.lines[l] = a
    BY <1>1
  <2> HIDE DEF a
  <2> QED
    BY <1>1, <2>1, <2>2
<1>4. /\ \A b \in run.bundles :
            /\ b.members = members(b.key) /\ b.total = Total(b.members)
            /\ Cardinality(b.members) >= MinMembers
      /\ \A l \in candidates :
            \/ \E b \in run.bundles : l \in b.members
            \/ ~(Cardinality(members(KeyOf(l, StoredCodes[l]))) >= MinMembers)
            \/ Total(members(KeyOf(l, StoredCodes[l]))) = 0
  BY <1>1, BundleMembers
<1>5. \A l, m \in DOMAIN run.lines :
         alike(l, m) <=> KeyOf(m, StoredCodes[m]) = KeyOf(l, StoredCodes[l])
  BY <1>2 DEF KeyOf
<1>6. \A l \in DOMAIN run.lines : rest(l) = members(KeyOf(l, StoredCodes[l]))
  BY <1>1, <1>3, <1>5
<1>7. \A l \in candidates :
         /\ Outcome(l, StoredCodes[l], request.mode)[1] = "OPEX"
         /\ Cost(l, request.mode) < Limit(l)
         /\ Quantity(l, request.mode) > 0
         /\ ContextOf(l).inScope /\ ContextOf(l).status = "OPEN"
  <2> SUFFICES ASSUME NEW l \in candidates
               PROVE  /\ Outcome(l, StoredCodes[l], request.mode)[1] = "OPEX"
                      /\ Cost(l, request.mode) < Limit(l)
                      /\ Quantity(l, request.mode) > 0
                      /\ ContextOf(l).inScope /\ ContextOf(l).status = "OPEN"
    OBVIOUS
  <2>1. l \in Line /\ Outcome(l, StoredCodes[l], request.mode)[2] = "CANDIDATE"
    BY <1>1 DEF Candidates
  <2>2. Quantity(l, request.mode) # Missing /\ ~(Quantity(l, request.mode) <= 0)
    BY <1>1 DEF AllFit, Unfit
  <2>3. Quantity(l, request.mode) \in Int
    BY <2>1, <2>2, ValuesAreNumbers
  <2>4. Quantity(l, request.mode) > 0
    BY <2>2, <2>3
  <2> QED
    BY <2>1, <2>4, CandidateFacts
<1>8. \A l \in DOMAIN run.lines : Cardinality(rest(l)) \in Nat /\ MinMembers \in Nat
  <2> SUFFICES ASSUME NEW l \in DOMAIN run.lines
               PROVE  Cardinality(rest(l)) \in Nat
    BY DemoAssumption
  <2>1. rest(l) \subseteq Line
    BY <1>1
  <2> QED
    BY <2>1, DemoAssumption, FS_Subset, FS_CardinalityType
<1> HIDE DEF alike, grouped, eligible, rest
<1>9. ASSUME NEW b \in run.bundles, NEW l \in b.members
       PROVE  /\ grouped(l)
              /\ run.lines[l].recommendation = "OPEX"
              /\ Cost(l, request.mode) < Limit(l)
              /\ Quantity(l, request.mode) > 0
              /\ ContextOf(l).inScope /\ ContextOf(l).status = "OPEN"
              /\ \A m \in DOMAIN run.lines : m \in b.members <=> eligible(m) /\ alike(l, m)
  <2>1. l \in candidates /\ l \in DOMAIN run.lines /\ KeyOf(l, StoredCodes[l]) = b.key
    BY <1>1, <1>4, <1>9
  <2>2. \A m \in DOMAIN run.lines : m \in b.members <=> eligible(m) /\ alike(l, m)
    BY <1>3, <1>4, <1>5, <2>1
  <2>3. grouped(l) /\ run.lines[l].recommendation = "OPEX"
    BY <1>3, <1>7, <1>9, <2>1
  <2> HIDE DEF candidates
  <2> QED
    BY <1>7, <2>1, <2>2, <2>3
<1>10. ASSUME NEW l \in DOMAIN run.lines, eligible(l), ~grouped(l)
       PROVE  Cardinality(rest(l)) < MinMembers \/ Total(rest(l)) = 0
  <2> HIDE DEF members, candidates
  <2> QED
    BY <1>3, <1>4, <1>6, <1>8, <1>10
<1> HIDE DEF candidates, members
<1> QED
  BY <1>3, <1>4, <1>9, <1>10

-----------------------------------------------------------------------------
(* The demo batch: what a step leaves as it is. *)

\* The request stands, and rows and results that are there stay.
Grows ==
    /\ UNCHANGED request
    /\ \A l \in Line : suggestion[l] # Unasked => suggestion'[l] = suggestion[l]
    /\ Stored => run' = run

\* There is a line, and every line is in a package of the request.
LEMMA LinesAreOrdered ==
    /\ Line # {}
    /\ Len(Order) \in Nat /\ Len(Order) >= 1 /\ DOMAIN Order = 1 .. Len(Order)
    /\ \A l \in Line : \E i \in DOMAIN Order : l \in LinesOf(Order[i])
<1>1. Len(Order) \in Nat /\ DOMAIN Order = 1 .. Len(Order) /\ Len(Order) >= 1
  BY WorkflowAssumption, LenProperties, EmptySeq
<1>2. Order[1] \in Package
  BY <1>1, WorkflowAssumption, ElementOfSeq
<1>3. Line # {}
  BY <1>2, DemoAssumption
<1>4. \A l \in Line : \E i \in DOMAIN Order : l \in LinesOf(Order[i])
  BY LineFacts, WorkflowAssumption DEF LinesOf
<1> QED
  BY <1>1, <1>3, <1>4

\* One execution goes on.
LEMMA AttemptChange ==
    ASSUME DemoTypeOK, NEW p \in Attempt, NEW rec \in AttemptKind,
           attempt' = [attempt EXCEPT ![p] = rec]
    PROVE  /\ attempt' \in [Attempt -> AttemptKind]
           /\ attempt'[p] = rec
           /\ \A q \in Attempt \ {p} : attempt'[q] = attempt[q]
  BY DEF DemoTypeOK

\* An execution with the same codes has the same results.
LEMMA SameCodes ==
    ASSUME NEW p, attempt'[p].codes = attempt[p].codes, UNCHANGED request
    PROVE  /\ \A l : Given(p, l)' <=> Given(p, l)
           /\ Determined(p)' = Determined(p)
           /\ Results(p)' = Results(p)
           /\ WholePackages(p)' <=> WholePackages(p)
           /\ AllFit(Determined(p))' <=> AllFit(Determined(p))
<1>1. \A l : Given(p, l)' <=> Given(p, l)
  BY DEF Given
<1>2. Determined(p)' = Determined(p)
  BY DEF Determined
<1>3. Results(p)' = Results(p)
  BY <1>2 DEF Results, Stamp
<1>4. WholePackages(p)' <=> WholePackages(p)
  BY <1>1 DEF WholePackages
<1>5. AllFit(Determined(p))' <=> AllFit(Determined(p))
  BY <1>2 DEF AllFit
<1> QED
  BY <1>1, <1>2, <1>3, <1>4, <1>5

\* Results that are not empty are not those of an empty run.
LEMMA ResultsAreStored ==
    ASSUME NEW p, \E l \in Line : Given(p, l)
    PROVE  Results(p) # NoRun /\ DOMAIN Determined(p) # {}
<1>1. DOMAIN Determined(p) = {l \in Line : Given(p, l)}
  BY DEF Determined, Given
<1>2. DOMAIN Results(p).lines = DOMAIN Determined(p)
  BY DEF Results
<1>3. DOMAIN NoRun.lines = {}
  BY DEF NoRun
<1> QED
  BY <1>1, <1>2, <1>3

\* What the tables hold of an execution, they keep.
LEMMA TablesKept ==
    ASSUME DemoTypeOK, Grows, NEW p, TablesHold(p), attempt'[p].codes = attempt[p].codes,
           suggestion' \in [Line -> Codes \cup {Unasked}]
    PROVE  TablesHold(p)'
<1>1. UNCHANGED request
  BY DEF Grows
<1>2. /\ \A l : Given(p, l)' <=> Given(p, l)
      /\ Results(p)' = Results(p)
  BY <1>1, SameCodes
<1>3. Stored
  BY LinesAreOrdered, ResultsAreStored DEF TablesHold, Stored
<1>4. run' = Results(p)'
  BY <1>2, <1>3 DEF TablesHold, Grows
<1>5. suggestion' = suggestion
  BY DEF TablesHold, Grows, Given, DemoTypeOK
<1> QED
  BY <1>2, <1>4, <1>5 DEF TablesHold

\* An execution that does not move is not disturbed.
LEMMA OthersFitDemo ==
    ASSUME DemoTypeOK, Grows, suggestion' \in [Line -> Codes \cup {Unasked}],
           NEW q \in Attempt, AttemptFits(q), attempt'[q] = attempt[q]
    PROVE  AttemptFits(q)'
<1>1. UNCHANGED request
  BY DEF Grows
<1>2. /\ \A l : Given(q, l)' <=> Given(q, l)
      /\ WholePackages(q)' <=> WholePackages(q)
      /\ AllFit(Determined(q))' <=> AllFit(Determined(q))
  BY <1>1, SameCodes
<1>3. \A l \in Line : Kept(q, l) => Kept(q, l)'
  BY DEF Kept, Given, Grows
<1>4. \A k : \A l \in LinesOf(k) : l \in Line
  BY DEF LinesOf
<1>5. TablesHold(q) => TablesHold(q)'
  BY TablesKept
<1> QED
  BY <1>2, <1>3, <1>4, <1>5 DEF AttemptFits

\* A step of one execution keeps the invariant if the execution fits again, and what
\* is stored does.
LEMMA AttemptStep ==
    ASSUME DemoInv, NEW p \in Attempt, NEW rec \in AttemptKind,
           attempt' = [attempt EXCEPT ![p] = rec], Grows, UNCHANGED master,
           suggestion' \in [Line -> Codes \cup {Unasked}],
           artifact' \in Attempt \cup {NoArtifact},
           rec.pc \in {"packages", "tasks"} => rec.at \in DOMAIN Order,
           AttemptFits(p)', AssessedAsSuggested', RunFits'
    PROVE  DemoInv'
<1>1. /\ attempt' \in [Attempt -> AttemptKind]
      /\ attempt'[p] = rec
      /\ \A q \in Attempt \ {p} : attempt'[q] = attempt[q]
  BY AttemptChange, Zenon DEF DemoInv
<1>2. DemoTypeOK'
  BY <1>1 DEF DemoInv, DemoTypeOK, Grows
<1>3. \A q \in Attempt \ {p} : AttemptFits(q)'
  BY <1>1, OthersFitDemo DEF DemoInv
<1> QED
  BY <1>2, <1>3 DEF DemoInv

\* Stored results stay right when rows are added.
LEMMA StoredKept ==
    ASSUME DemoInv, Grows, UNCHANGED run
    PROVE  AssessedAsSuggested' /\ RunFits'
<1>1. UNCHANGED request
  BY DEF Grows
<1>2. RunFits'
  <2>1. StoredCodes' = StoredCodes
    BY DEF StoredCodes
  <2> QED
    BY <1>1, <2>1 DEF DemoInv, RunFits, Stored, AllFit
<1>3. AssessedAsSuggested'
  <2>1. \A l \in DOMAIN run.lines : Stored => suggestion'[l] = suggestion[l]
    BY WorkflowAssumption DEF DemoInv, RunFits, AssessedAsSuggested, Grows
  <2> QED
    BY <2>1 DEF DemoInv, AssessedAsSuggested, Stored
<1> QED
  BY <1>2, <1>3

\* A step that touches no table.
LEMMA QuietStep ==
    ASSUME DemoInv, NEW p \in Attempt, NEW rec \in AttemptKind,
           attempt' = [attempt EXCEPT ![p] = rec],
           UNCHANGED <<request, master, suggestion, run>>,
           artifact' \in Attempt \cup {NoArtifact},
           rec.pc \in {"packages", "tasks"} => rec.at \in DOMAIN Order,
           AttemptFits(p)'
    PROVE  DemoInv'
<1>1. Grows
  BY DEF Grows
<1>2. suggestion' \in [Line -> Codes \cup {Unasked}]
  BY DEF DemoInv, DemoTypeOK
<1>3. AssessedAsSuggested' /\ RunFits'
  BY <1>1, StoredKept
<1> QED
  BY <1>1, <1>2, <1>3, AttemptStep

-----------------------------------------------------------------------------
(* The demo batch: each step keeps the invariant. *)

\* An execution that is given no code and reports nothing fits wherever it may start
\* or end.
LEMMA Blank ==
    ASSUME NEW p, \A l \in Line : attempt'[p].codes[l] = Unasked,
           attempt'[p].pc \in {"idle", "fresh", "packages", "finish", "dead"},
           attempt'[p].at = 1, ~attempt'[p].wrote, attempt'[p].status = "none",
           attempt'[p].pc \in {"idle", "fresh"} => attempt'[p].errors = {},
           attempt'[p].pc = "finish" => attempt'[p].errors # {}
    PROVE  AttemptFits(p)'
<1>1. \A l \in Line : ~Given(p, l)'
  BY DEF Given
<1>2. WholePackages(p)'
  BY <1>1 DEF WholePackages
<1>3. \A i \in DOMAIN Order : ~(i < 1)
  BY LinesAreOrdered
<1> QED
  BY <1>1, <1>2, <1>3 DEF AttemptFits

LEMMA StartJobFits ==
    ASSUME DemoInv, NEW p \in Attempt, StartJob(p)
    PROVE  DemoInv'
<1> DEFINE a == attempt[p]
<1>1. /\ a \in AttemptKind /\ a.pc = "idle" /\ AttemptFits(p)
      /\ UNCHANGED <<request, master, suggestion, run, artifact>>
      /\ artifact \in Attempt \cup {NoArtifact}
  BY DEF StartJob, DemoInv, DemoTypeOK
<1>2. PICK rec \in {[a EXCEPT !.pc = "packages", !.catalog = Snapshot],
                    [a EXCEPT !.pc = "finish", !.errors = {"VALIDATION"}]} :
         attempt' = [attempt EXCEPT ![p] = rec]
  BY DEF StartJob
<1> HIDE DEF a
<1>3. /\ rec.pc \in {"packages", "finish"} /\ rec.codes = a.codes /\ rec.at = a.at
      /\ rec.status = a.status /\ rec.wrote = a.wrote
      /\ rec.pc = "finish" => rec.errors # {}
      /\ rec \in AttemptKind
  <2>1. CASE rec = [a EXCEPT !.pc = "packages", !.catalog = Snapshot]
    BY <1>1, <2>1, WorkflowAssumption DEF AttemptKind, PCs
  <2>2. CASE rec = [a EXCEPT !.pc = "finish", !.errors = {"VALIDATION"}]
    BY <1>1, <2>2 DEF AttemptKind, PCs, Stages
  <2> QED
    BY <1>2, <2>1, <2>2
<1>4. attempt'[p] = rec
  BY <1>2, <1>3, AttemptChange DEF DemoInv
<1>5. /\ a.at = 1 /\ ~a.wrote /\ a.status = "none"
      /\ \A l \in Line : a.codes[l] = Unasked
  BY <1>1 DEF AttemptFits, Given, a
<1>6. AttemptFits(p)'
  <2>1. /\ \A l \in Line : attempt'[p].codes[l] = Unasked
        /\ attempt'[p].pc \in {"idle", "fresh", "packages", "finish", "dead"}
        /\ attempt'[p].at = 1 /\ ~attempt'[p].wrote /\ attempt'[p].status = "none"
        /\ attempt'[p].pc \in {"idle", "fresh"} => attempt'[p].errors = {}
        /\ attempt'[p].pc = "finish" => attempt'[p].errors # {}
    BY <1>3, <1>4, <1>5
  <2> QED
    BY <2>1, Blank
<1>7. rec.pc \in {"packages", "tasks"} => rec.at \in DOMAIN Order
  BY <1>3, <1>5, LinesAreOrdered
<1> QED
  BY <1>1, <1>2, <1>3, <1>6, <1>7, QuietStep

LEMMA StartSqlJobFits ==
    ASSUME DemoInv, NEW p \in Attempt, StartSqlJob(p)
    PROVE  DemoInv'
<1> DEFINE a == attempt[p]
<1>1. /\ a \in AttemptKind /\ a.pc = "idle" /\ AttemptFits(p)
      /\ UNCHANGED <<request, master, suggestion, run, artifact>>
      /\ artifact \in Attempt \cup {NoArtifact} /\ master \subseteq Task
  BY WorkflowAssumption DEF StartSqlJob, DemoInv, DemoTypeOK
<1>2. PICK pc \in {"fresh", "dead"} :
         attempt' = [attempt EXCEPT ![p] = [a EXCEPT !.pc = pc, !.catalog = master]]
  BY DEF StartSqlJob
<1>3. /\ a.at = 1 /\ a.errors = {} /\ ~a.wrote /\ a.status = "none"
      /\ \A l \in Line : a.codes[l] = Unasked
  BY <1>1 DEF AttemptFits, Given
<1> DEFINE rec == [a EXCEPT !.pc = pc, !.catalog = master]
<1> HIDE DEF a
<1>4. /\ rec.pc \in {"fresh", "dead"} /\ rec.codes = a.codes /\ rec.at = a.at
      /\ rec.status = a.status /\ rec.wrote = a.wrote /\ rec.errors = a.errors
      /\ rec \in AttemptKind
  BY <1>1, <1>2 DEF AttemptKind, PCs
<1> HIDE DEF rec
<1>5. attempt' = [attempt EXCEPT ![p] = rec]
  BY <1>2 DEF rec
<1>6. attempt'[p] = rec
  BY <1>4, <1>5, AttemptChange DEF DemoInv
<1>7. AttemptFits(p)'
  <2>1. /\ \A l \in Line : attempt'[p].codes[l] = Unasked
        /\ attempt'[p].pc \in {"idle", "fresh", "packages", "finish", "dead"}
        /\ attempt'[p].at = 1 /\ ~attempt'[p].wrote /\ attempt'[p].status = "none"
        /\ attempt'[p].pc \in {"idle", "fresh"} => attempt'[p].errors = {}
        /\ attempt'[p].pc = "finish" => attempt'[p].errors # {}
    BY <1>3, <1>4, <1>6
  <2> QED
    BY <2>1, Blank
<1> QED
  BY <1>1, <1>4, <1>5, <1>7, QuietStep

LEMMA CheckFreshFits ==
    ASSUME DemoInv, NEW p \in Attempt, CheckFresh(p)
    PROVE  DemoInv'
<1> DEFINE a == attempt[p]
<1>1. /\ a \in AttemptKind /\ a.pc = "fresh" /\ AttemptFits(p)
      /\ UNCHANGED <<request, master, suggestion, run, artifact>>
      /\ artifact \in Attempt \cup {NoArtifact}
  BY DEF CheckFresh, DemoInv, DemoTypeOK
<1>2. PICK pc \in {"packages", "dead"} :
         attempt' = [attempt EXCEPT ![p] = [a EXCEPT !.pc = pc]]
  BY DEF CheckFresh
<1>3. /\ a.at = 1 /\ a.errors = {} /\ ~a.wrote /\ a.status = "none"
      /\ \A l \in Line : a.codes[l] = Unasked
  BY <1>1 DEF AttemptFits, Given
<1> DEFINE rec == [a EXCEPT !.pc = pc]
<1> HIDE DEF a
<1>4. /\ rec.pc \in {"packages", "dead"} /\ rec.codes = a.codes /\ rec.at = a.at
      /\ rec.status = a.status /\ rec.wrote = a.wrote /\ rec.errors = a.errors
      /\ rec \in AttemptKind
  BY <1>1, <1>2 DEF AttemptKind, PCs
<1> HIDE DEF rec
<1>5. attempt' = [attempt EXCEPT ![p] = rec]
  BY <1>2 DEF rec
<1>6. attempt'[p] = rec
  BY <1>4, <1>5, AttemptChange DEF DemoInv
<1>7. AttemptFits(p)'
  <2>1. /\ \A l \in Line : attempt'[p].codes[l] = Unasked
        /\ attempt'[p].pc \in {"idle", "fresh", "packages", "finish", "dead"}
        /\ attempt'[p].at = 1 /\ ~attempt'[p].wrote /\ attempt'[p].status = "none"
        /\ attempt'[p].pc \in {"idle", "fresh"} => attempt'[p].errors = {}
        /\ attempt'[p].pc = "finish" => attempt'[p].errors # {}
    BY <1>3, <1>4, <1>6
  <2> QED
    BY <2>1, Blank
<1>8. rec.pc \in {"packages", "tasks"} => rec.at \in DOMAIN Order
  BY <1>3, <1>4, LinesAreOrdered
<1> QED
  BY <1>1, <1>4, <1>5, <1>7, <1>8, QuietStep

\* The state of an execution before its job starts.
LEMMA NotStartedFacts ==
    /\ NotStarted \in AttemptKind
    /\ NotStarted.pc = "idle" /\ NotStarted.at = 1 /\ NotStarted.errors = {}
    /\ NotStarted.status = "none" /\ ~NotStarted.wrote
    /\ \A l \in Line : NotStarted.codes[l] = Unasked
<1> DEFINE codes == [l \in Line |-> Unasked]
<1>1. codes \in [Line -> Codes \cup {Unasked}] /\ 1 \in 1 .. Len(Order) + 1
  BY LinesAreOrdered
<1>2. NotStarted.codes = codes
  BY Zenon DEF NotStarted
<1>3. \A l \in Line : codes[l] = Unasked
  OBVIOUS
<1> HIDE DEF codes
<1>4. /\ NotStarted.pc = "idle" /\ NotStarted.at = 1 /\ NotStarted.errors = {}
      /\ NotStarted.status = "none" /\ ~NotStarted.wrote
  BY DEF NotStarted
<1>5. NotStarted \in AttemptKind
  BY <1>1 DEF NotStarted, AttemptKind, PCs, codes
<1> QED
  BY <1>2, <1>3, <1>4, <1>5

LEMMA KillAttemptFits ==
    ASSUME DemoInv, NEW p \in Attempt, KillAttempt(p)
    PROVE  DemoInv'
<1> DEFINE rec == [NotStarted EXCEPT !.pc = "dead"]
<1>1. /\ attempt' = [attempt EXCEPT ![p] = rec]
      /\ UNCHANGED <<request, master, suggestion, run, artifact>>
      /\ artifact \in Attempt \cup {NoArtifact}
  BY DEF KillAttempt, DemoInv, DemoTypeOK
<1>2. /\ rec.pc = "dead" /\ rec.at = 1 /\ rec.status = "none" /\ ~rec.wrote
      /\ \A l \in Line : rec.codes[l] = Unasked
      /\ rec \in AttemptKind
  BY NotStartedFacts DEF AttemptKind, PCs
<1> HIDE DEF rec
<1>3. attempt'[p] = rec
  BY <1>1, <1>2, AttemptChange DEF DemoInv
<1>4. AttemptFits(p)'
  <2>1. /\ \A l \in Line : attempt'[p].codes[l] = Unasked
        /\ attempt'[p].pc = "dead"
        /\ attempt'[p].at = 1 /\ ~attempt'[p].wrote /\ attempt'[p].status = "none"
    BY <1>2, <1>3
  <2> QED
    BY <2>1, Blank
<1> QED
  BY <1>1, <1>2, <1>4, QuietStep

\* A finished execution with the same codes, and tables that grow.
LEMMA EndFits ==
    ASSUME DemoInv, Grows, suggestion' \in [Line -> Codes \cup {Unasked}],
           NEW p \in Attempt, attempt'[p].codes = attempt[p].codes,
           attempt'[p].pc \in {"write", "done", "dead"},
           attempt'[p].wrote => \E l \in Line : Given(p, l),
           attempt'[p].status = "SUCCEEDED" => TablesHold(p),
           attempt'[p].status = "FAILED" => ~attempt'[p].wrote
    PROVE  AttemptFits(p)'
<1>1. AttemptFits(p) /\ UNCHANGED request /\ DemoTypeOK
  BY DEF DemoInv, Grows
<1>2. /\ \A l : Given(p, l)' <=> Given(p, l)
      /\ WholePackages(p)' <=> WholePackages(p)
  BY <1>1, SameCodes
<1>3. WholePackages(p)'
  BY <1>1, <1>2 DEF AttemptFits
<1>4. TablesHold(p) => TablesHold(p)'
  BY <1>1, TablesKept
<1> QED
  BY <1>2, <1>3, <1>4 DEF AttemptFits

LEMMA FinishFits ==
    ASSUME DemoInv, NEW p \in Attempt, Finish(p)
    PROVE  DemoInv'
<1> DEFINE a == attempt[p]
<1>1. /\ a \in AttemptKind /\ a.pc = "finish" /\ AttemptFits(p)
      /\ UNCHANGED <<request, master, suggestion, run, artifact>>
      /\ artifact \in Attempt \cup {NoArtifact}
      /\ suggestion \in [Line -> Codes \cup {Unasked}]
  BY DEF Finish, DemoInv, DemoTypeOK
<1>2. PICK errors \in {a.errors, a.errors \cup {"COMPLETION"}} :
         attempt' = [attempt EXCEPT ![p] =
            [a EXCEPT !.pc = "write", !.errors = errors, !.status = StatusOf(p, errors)]]
  BY DEF Finish
<1> DEFINE rec == [a EXCEPT !.pc = "write", !.errors = errors, !.status = StatusOf(p, errors)]
<1> HIDE DEF a
<1>3. StatusOf(p, errors) \in Statuses /\ errors \subseteq Stages
  BY <1>1, <1>2 DEF StatusOf, Statuses, AttemptKind, Stages
<1>4. /\ rec.pc = "write" /\ rec.codes = a.codes /\ rec.wrote = a.wrote
      /\ rec.status = StatusOf(p, errors)
      /\ rec \in AttemptKind
  BY <1>1, <1>2, <1>3 DEF AttemptKind, PCs
<1> HIDE DEF rec
<1>5. attempt' = [attempt EXCEPT ![p] = rec]
  BY <1>2 DEF rec
<1>6. attempt'[p] = rec
  BY <1>4, <1>5, AttemptChange DEF DemoInv
<1>7. StatusOf(p, errors) = "SUCCEEDED" => a.errors = {}
  BY <1>2 DEF StatusOf
<1>8. StatusOf(p, errors) = "FAILED" => \A l \in Line : ~Given(p, l)
  BY ResultsAreStored DEF StatusOf
<1>9. /\ a.errors = {} => TablesHold(p)
      /\ a.wrote => \E l \in Line : Given(p, l)
  BY <1>1 DEF AttemptFits, a
<1>10. AttemptFits(p)'
  <2>1. Grows
    BY <1>1 DEF Grows
  <2>2. /\ attempt'[p].codes = attempt[p].codes
        /\ attempt'[p].pc \in {"write", "done", "dead"}
        /\ attempt'[p].wrote => \E l \in Line : Given(p, l)
        /\ attempt'[p].status = "SUCCEEDED" => TablesHold(p)
        /\ attempt'[p].status = "FAILED" => ~attempt'[p].wrote
    <3> HIDE DEF Given
    <3> QED
      BY <1>4, <1>6, <1>7, <1>8, <1>9 DEF a
  <2> QED
    BY <1>1, <2>1, <2>2, EndFits
<1> QED
  BY <1>1, <1>4, <1>5, <1>10, QuietStep

LEMMA WriteResultFits ==
    ASSUME DemoInv, NEW p \in Attempt, WriteResult(p)
    PROVE  DemoInv'
<1> DEFINE a == attempt[p]
<1>1. /\ a \in AttemptKind /\ a.pc = "write" /\ AttemptFits(p)
      /\ UNCHANGED <<request, master, suggestion, run>>
      /\ artifact' \in Attempt \cup {NoArtifact}
      /\ suggestion \in [Line -> Codes \cup {Unasked}]
  BY DEF WriteResult, DemoInv, DemoTypeOK
<1>2. PICK pc \in {"done", "dead"} :
         attempt' = [attempt EXCEPT ![p] = [a EXCEPT !.pc = pc]]
  BY DEF WriteResult
<1> DEFINE rec == [a EXCEPT !.pc = pc]
<1> HIDE DEF a
<1>3. /\ rec.pc \in {"done", "dead"} /\ rec.codes = a.codes /\ rec.wrote = a.wrote
      /\ rec.status = a.status
      /\ rec \in AttemptKind
  BY <1>1, <1>2 DEF AttemptKind, PCs
<1> HIDE DEF rec
<1>4. attempt' = [attempt EXCEPT ![p] = rec]
  BY <1>2 DEF rec
<1>5. attempt'[p] = rec
  BY <1>3, <1>4, AttemptChange DEF DemoInv
<1>6. AttemptFits(p)'
  <2>1. Grows
    BY <1>1 DEF Grows
  <2>2. /\ a.status = "SUCCEEDED" => TablesHold(p)
        /\ a.status = "FAILED" => ~a.wrote
        /\ a.wrote => \E l \in Line : Given(p, l)
    BY <1>1 DEF AttemptFits, a
  <2>3. /\ attempt'[p].codes = attempt[p].codes
        /\ attempt'[p].pc \in {"write", "done", "dead"}
        /\ attempt'[p].wrote => \E l \in Line : Given(p, l)
        /\ attempt'[p].status = "SUCCEEDED" => TablesHold(p)
        /\ attempt'[p].status = "FAILED" => ~attempt'[p].wrote
    BY <1>3, <1>5, <2>2 DEF a
  <2> QED
    BY <1>1, <2>1, <2>3, EndFits
<1> QED
  BY <1>1, <1>3, <1>4, <1>6, QuietStep

\* An execution with the package behind it.
LEMMA PackageFits ==
    ASSUME NEW p, NEW at \in DOMAIN Order, attempt'[p].at = at + 1,
           attempt'[p].pc = After(at, "packages", "bundling"),
           ~attempt'[p].wrote, attempt'[p].status = "none", WholePackages(p)',
           attempt'[p].errors = {} =>
              \A i \in DOMAIN Order : i <= at => \A l \in LinesOf(Order[i]) : Given(p, l)'
    PROVE  AttemptFits(p)'
<1>1. /\ attempt'[p].pc \in {"packages", "bundling"}
      /\ attempt'[p].pc = "bundling" => at = Len(Order)
  BY DEF After
<1>2. \A i \in DOMAIN Order : /\ i < at + 1 => i <= at
                              /\ at = Len(Order) => i <= at
  BY LinesAreOrdered
<1>3. \A l \in Line : \E i \in DOMAIN Order : l \in LinesOf(Order[i])
  BY LinesAreOrdered
<1>4. attempt'[p].errors = {} /\ attempt'[p].pc = "bundling" => \A l \in Line : Given(p, l)'
  BY <1>1, <1>2, <1>3
<1>5. attempt'[p].errors = {} => \A i \in DOMAIN Order :
         i < attempt'[p].at => \A l \in LinesOf(Order[i]) : Given(p, l)'
  BY <1>2
<1> QED
  BY <1>1, <1>4, <1>5 DEF AttemptFits

LEMMA ProcessPackageFits ==
    ASSUME DemoInv, NEW p \in Attempt, ProcessPackage(p)
    PROVE  DemoInv'
<1> DEFINE a == attempt[p]
           at == a.at
           lines == LinesOf(Order[at])
           next == After(at, "packages", "bundling")
<1>1. /\ a \in AttemptKind /\ a.pc = "packages" /\ AttemptFits(p) /\ at \in DOMAIN Order
      /\ UNCHANGED <<request, master, suggestion, run, artifact>>
      /\ artifact \in Attempt \cup {NoArtifact}
  BY DEF ProcessPackage, DemoInv, DemoTypeOK
<1>2. /\ ~a.wrote /\ a.status = "none" /\ WholePackages(p)
      /\ a.errors = {} => \A i \in DOMAIN Order : i < at => \A l \in LinesOf(Order[i]) : Given(p, l)
  BY <1>1, Zenon DEF AttemptFits
<1>3. /\ next \in PCs /\ at + 1 \in 1 .. Len(Order) + 1
      /\ next \in {"packages", "bundling"}
      /\ next \in {"packages", "tasks"} => at + 1 \in DOMAIN Order
  BY <1>1, LinesAreOrdered DEF After, PCs
<1>4. lines \subseteq Line
  BY DEF LinesOf
<1>5. \/ \E codes \in [lines -> Codes] :
            attempt' = [attempt EXCEPT
               ![p].codes = [l \in Line |-> IF l \in lines THEN codes[l] ELSE @[l]],
               ![p].at = at + 1, ![p].pc = next]
      \/ attempt' = [attempt EXCEPT
            ![p].errors = @ \cup {"PACKAGE_PROCESSING"},
            ![p].at = at + 1, ![p].pc = next]
  BY Zenon DEF ProcessPackage
<1>6. \A i \in DOMAIN Order : i <= at => i < at \/ i = at
  BY <1>1, LinesAreOrdered
<1> HIDE DEF lines, next
<1>7. ASSUME NEW codes \in [lines -> Codes],
             attempt' = [attempt EXCEPT
               ![p].codes = [l \in Line |-> IF l \in lines THEN codes[l] ELSE @[l]],
               ![p].at = at + 1, ![p].pc = next]
      PROVE  DemoInv'
  <2> DEFINE given == [l \in Line |-> IF l \in lines THEN codes[l] ELSE a.codes[l]]
             rec == [a EXCEPT !.codes = given, !.at = at + 1, !.pc = next]
  <2>1. attempt' = [attempt EXCEPT ![p] = rec]
    BY <1>7
  <2>2. given \in [Line -> Codes \cup {Unasked}]
    BY <1>1 DEF AttemptKind
  <2>3. \A l \in Line : given[l] # Unasked <=> l \in lines \/ Given(p, l)
    BY WorkflowAssumption DEF Given
  <2> HIDE DEF given, a
  <2>4. /\ rec.pc = next /\ rec.at = at + 1 /\ rec.codes = given /\ rec.errors = a.errors
        /\ rec.wrote = a.wrote /\ rec.status = a.status
        /\ rec \in AttemptKind
    BY <1>1, <1>3, <2>2 DEF AttemptKind
  <2> HIDE DEF rec
  <2>5. attempt'[p] = rec
    BY <2>1, <2>4, AttemptChange DEF DemoInv
  <2>6. \A l \in Line : Given(p, l)' <=> l \in lines \/ Given(p, l)
    BY <2>3, <2>4, <2>5 DEF Given
  <2>7. WholePackages(p)'
    <3>1. \A l, m \in Line : Fact[l].package = Fact[m].package /\ l \in lines => m \in lines
      BY DEF lines, LinesOf
    <3> HIDE DEF Given
    <3> QED
      BY <1>2, <2>6, <3>1 DEF WholePackages
  <2>8. a.errors = {} =>
           \A i \in DOMAIN Order : i <= at => \A l \in LinesOf(Order[i]) : Given(p, l)'
    <3>1. \A i \in DOMAIN Order : LinesOf(Order[i]) \subseteq Line
      BY DEF LinesOf
    <3> HIDE DEF Given, at
    <3> QED
      BY <1>2, <1>6, <2>6, <3>1 DEF lines
  <2>9. AttemptFits(p)'
    BY <1>1, <1>2, <2>4, <2>5, <2>7, <2>8, PackageFits DEF next
  <2> QED
    BY <1>1, <1>3, <2>1, <2>4, <2>9, QuietStep
<1>8. ASSUME attempt' = [attempt EXCEPT
                ![p].errors = @ \cup {"PACKAGE_PROCESSING"},
                ![p].at = at + 1, ![p].pc = next]
      PROVE  DemoInv'
  <2> DEFINE rec == [a EXCEPT !.errors = a.errors \cup {"PACKAGE_PROCESSING"},
                              !.at = at + 1, !.pc = next]
  <2>1. attempt' = [attempt EXCEPT ![p] = rec]
    BY <1>8
  <2> HIDE DEF a
  <2>2. /\ rec.pc = next /\ rec.at = at + 1 /\ rec.codes = a.codes /\ rec.errors # {}
        /\ rec.wrote = a.wrote /\ rec.status = a.status
        /\ rec \in AttemptKind
    BY <1>1, <1>3 DEF AttemptKind, Stages
  <2> HIDE DEF rec
  <2>3. attempt'[p] = rec
    BY <2>1, <2>2, AttemptChange DEF DemoInv
  <2>4. attempt'[p].codes = attempt[p].codes
    BY <2>2, <2>3 DEF a
  <2>5. WholePackages(p)'
    BY <1>1, <1>2, <2>4, SameCodes
  <2>6. AttemptFits(p)'
    BY <1>1, <1>2, <2>2, <2>3, <2>5, PackageFits DEF next
  <2> QED
    BY <1>1, <1>3, <2>1, <2>2, <2>6, QuietStep
<1> QED
  BY <1>5, <1>7, <1>8

LEMMA BundleLinesFits ==
    ASSUME DemoInv, NEW p \in Attempt, BundleLines(p)
    PROVE  DemoInv'
<1> DEFINE a == attempt[p]
           codes == Determined(p)
           unfit == \E l \in Candidates(codes, request.mode) : Unfit(l, request.mode)
           pc == IF unfit \/ DOMAIN codes = {} THEN "finish" ELSE "tasks"
           errors == IF unfit THEN a.errors \cup {"BUNDLING"} ELSE a.errors
           rec == [a EXCEPT !.pc = pc, !.at = 1, !.errors = errors]
<1>1. /\ a \in AttemptKind /\ a.pc = "bundling" /\ AttemptFits(p)
      /\ UNCHANGED <<request, master, suggestion, run, artifact>>
      /\ artifact \in Attempt \cup {NoArtifact}
  BY DEF BundleLines, DemoInv, DemoTypeOK
<1>2. /\ ~a.wrote /\ a.status = "none" /\ WholePackages(p)
      /\ a.errors = {} => \A l \in Line : Given(p, l)
  BY <1>1, Zenon DEF AttemptFits
<1>3. attempt' = [attempt EXCEPT ![p] = rec]
  BY DEF BundleLines
<1>4. /\ pc = "tasks" => AllFit(codes) /\ \E l \in Line : Given(p, l)
      /\ pc \in {"finish", "tasks"}
  BY DEF AllFit, Determined, Given
<1>5. pc = "finish" => errors # {}
  <2>1. a.errors = {} => DOMAIN codes # {}
    BY <1>2, LinesAreOrdered, ResultsAreStored
  <2> QED
    BY <2>1
<1>6. errors \subseteq Stages /\ (errors = {} => a.errors = {})
  BY <1>1 DEF AttemptKind, Stages
<1>7. pc \in PCs /\ 1 \in 1 .. Len(Order) + 1
  BY <1>4, LinesAreOrdered DEF PCs
<1> HIDE DEF a, pc, errors, codes
<1>8. /\ rec.pc = pc /\ rec.at = 1 /\ rec.codes = a.codes /\ rec.errors = errors
      /\ rec.wrote = a.wrote /\ rec.status = a.status
      /\ rec \in AttemptKind
  BY <1>1, <1>6, <1>7 DEF AttemptKind
<1> HIDE DEF rec
<1>9. attempt'[p] = rec
  BY <1>3, <1>8, AttemptChange DEF DemoInv
<1>10. /\ \A l : Given(p, l)' <=> Given(p, l)
       /\ WholePackages(p)' <=> WholePackages(p)
       /\ AllFit(Determined(p))' <=> AllFit(Determined(p))
  <2>1. attempt'[p].codes = attempt[p].codes
    BY <1>8, <1>9 DEF a
  <2> QED
    BY <1>1, <2>1, SameCodes
<1>11. \A i \in DOMAIN Order : ~(i < 1)
  BY LinesAreOrdered
<1>12. AttemptFits(p)'
  BY <1>2, <1>4, <1>5, <1>6, <1>8, <1>9, <1>10, <1>11 DEF AttemptFits, codes
<1>13. rec.pc \in {"packages", "tasks"} => rec.at \in DOMAIN Order
  BY <1>8, LinesAreOrdered
<1> QED
  BY <1>1, <1>3, <1>8, <1>12, <1>13, QuietStep

\* An execution that gives up has an error to report.
LEMMA FailFits ==
    ASSUME DemoInv, UNCHANGED request, NEW p \in Attempt,
           attempt'[p].codes = attempt[p].codes, attempt'[p].pc = "finish",
           attempt'[p].errors # {}, attempt'[p].status = "none",
           attempt'[p].wrote => \E l \in Line : Given(p, l)
    PROVE  AttemptFits(p)'
<1>1. AttemptFits(p)
  BY DEF DemoInv
<1>2. /\ \A l : Given(p, l)' <=> Given(p, l)
      /\ WholePackages(p)' <=> WholePackages(p)
  BY SameCodes
<1>3. WholePackages(p)'
  BY <1>1, <1>2 DEF AttemptFits
<1> QED
  BY <1>2, <1>3 DEF AttemptFits

LEMMA FailStep ==
    ASSUME DemoInv, NEW p \in Attempt, attempt[p].status = "none",
           NEW wrote \in BOOLEAN, Fail(p, wrote), Grows, UNCHANGED master,
           suggestion' \in [Line -> Codes \cup {Unasked}],
           artifact' \in Attempt \cup {NoArtifact},
           wrote => \E l \in Line : Given(p, l),
           AssessedAsSuggested' /\ RunFits'
    PROVE  DemoInv'
<1> DEFINE a == attempt[p]
           rec == [a EXCEPT !.pc = "finish", !.errors = a.errors \cup {"PERSISTENCE"},
                            !.wrote = a.wrote \/ wrote]
<1>1. attempt' = [attempt EXCEPT ![p] = rec]
  BY DEF Fail
<1>2. a \in AttemptKind /\ UNCHANGED request
  BY DEF DemoInv, DemoTypeOK, Grows
<1>3. a.wrote => \E l \in Line : Given(p, l)
  BY Zenon DEF DemoInv, AttemptFits
<1> HIDE DEF a
<1>4. /\ rec.pc = "finish" /\ rec.codes = a.codes /\ rec.errors # {}
      /\ rec.status = a.status /\ rec.wrote = (a.wrote \/ wrote)
      /\ rec \in AttemptKind
  BY <1>2 DEF AttemptKind, PCs, Stages
<1> HIDE DEF rec
<1>5. attempt'[p] = rec
  BY <1>1, <1>4, AttemptChange DEF DemoInv
<1>6. AttemptFits(p)'
  BY <1>2, <1>3, <1>4, <1>5, FailFits DEF a
<1> QED
  BY <1>1, <1>4, <1>6, AttemptStep

\* The rows of a package, in place.
LEMMA RowsFit ==
    ASSUME DemoInv, Grows, NEW p \in Attempt, NEW at \in DOMAIN Order,
           attempt[p].pc = "tasks", attempt[p].at = at,
           attempt'[p].pc = After(at, "tasks", "results"), attempt'[p].at = at + 1,
           attempt'[p].codes = attempt[p].codes, attempt'[p].errors = attempt[p].errors,
           attempt'[p].status = "none",
           attempt'[p].wrote => \E l \in Line : Given(p, l),
           \A l \in LinesOf(Order[at]) : Kept(p, l)'
    PROVE  AttemptFits(p)'
<1>1. AttemptFits(p) /\ UNCHANGED request
  BY DEF DemoInv, Grows
<1>2. /\ \A l : Given(p, l)' <=> Given(p, l)
      /\ WholePackages(p)' <=> WholePackages(p)
      /\ AllFit(Determined(p))' <=> AllFit(Determined(p))
  BY <1>1, SameCodes
<1>3. /\ WholePackages(p)' /\ AllFit(Determined(p))' /\ \E l \in Line : Given(p, l)'
      /\ attempt'[p].errors = {} => \A l \in Line : Given(p, l)'
  BY <1>1, <1>2 DEF AttemptFits
<1>4. \A i \in DOMAIN Order : i < at + 1 => \A l \in LinesOf(Order[i]) : Kept(p, l)'
  <2>1. \A l \in Line : Kept(p, l) => Kept(p, l)'
    BY DEF Kept, Given, Grows
  <2>2. \A i \in DOMAIN Order : i < at => \A l \in LinesOf(Order[i]) : Kept(p, l)
    BY <1>1 DEF AttemptFits
  <2>3. \A i \in DOMAIN Order : LinesOf(Order[i]) \subseteq Line
    BY DEF LinesOf
  <2>4. \A i \in DOMAIN Order : i < at + 1 => i < at \/ i = at
    BY LinesAreOrdered
  <2> QED
    BY <2>1, <2>2, <2>3, <2>4
<1>5. /\ attempt'[p].pc \in {"tasks", "results"}
      /\ attempt'[p].pc = "results" => \A l \in Line : Kept(p, l)'
  <2>1. \A i \in DOMAIN Order : at = Len(Order) => i < at + 1
    BY LinesAreOrdered
  <2>2. \A l \in Line : \E i \in DOMAIN Order : l \in LinesOf(Order[i])
    BY LinesAreOrdered
  <2> QED
    BY <1>4, <2>1, <2>2 DEF After
<1> QED
  BY <1>2, <1>3, <1>4, <1>5 DEF AttemptFits

\* Rows that are not refused are added to those that are there.
LEMMA RowsAreAdded ==
    ASSUME DemoInv, NEW p \in Attempt, NEW k, ~TasksRefused(p, k), TasksStored(p, k),
           UNCHANGED <<request, run>>
    PROVE  /\ Grows
           /\ suggestion' \in [Line -> Codes \cup {Unasked}]
           /\ \A l \in LinesOf(k) : suggestion'[l] = attempt[p].codes[l]
<1>1. /\ suggestion \in [Line -> Codes \cup {Unasked}]
      /\ attempt[p].codes \in [Line -> Codes \cup {Unasked}]
  BY DEF DemoInv, DemoTypeOK, AttemptKind
<1>2. suggestion' \in [Line -> Codes \cup {Unasked}]
  BY <1>1 DEF TasksStored
<1>3. \A l \in LinesOf(k) : suggestion'[l] = attempt[p].codes[l]
  BY DEF TasksStored, LinesOf
<1>4. \A l \in Line : suggestion[l] # Unasked => suggestion'[l] = suggestion[l]
  BY DEF TasksStored, TasksRefused
<1> QED
  BY <1>2, <1>3, <1>4 DEF Grows

LEMMA PersistTasksFits ==
    ASSUME DemoInv, NEW p \in Attempt, PersistTasks(p)
    PROVE  DemoInv'
<1> DEFINE a == attempt[p]
           at == a.at
           k == Order[at]
           next == After(at, "tasks", "results")
           dropped == LinesOf(k) \cap DOMAIN Determined(p) = {}
<1>1. /\ a \in AttemptKind /\ a.pc = "tasks" /\ AttemptFits(p) /\ at \in DOMAIN Order
      /\ UNCHANGED <<request, master, run, artifact>>
      /\ artifact' \in Attempt \cup {NoArtifact}
      /\ suggestion \in [Line -> Codes \cup {Unasked}]
  BY DEF PersistTasks, DemoInv, DemoTypeOK
<1>2. /\ a.status = "none"
      /\ a.wrote => \E l \in Line : Given(p, l)
  BY <1>1, Zenon DEF AttemptFits
<1>3. /\ next \in PCs /\ at + 1 \in 1 .. Len(Order) + 1
      /\ next \in {"packages", "tasks"} => at + 1 \in DOMAIN Order
  BY <1>1, LinesAreOrdered DEF After, PCs
<1>4. dropped <=> \A l \in LinesOf(k) : ~Given(p, l)
  BY DEF Determined, Given, LinesOf
<1>5. LinesOf(k) \subseteq Line
  BY DEF LinesOf
<1>6. \/ /\ dropped
         /\ attempt' = [attempt EXCEPT ![p].at = at + 1, ![p].pc = next]
         /\ UNCHANGED suggestion
      \/ /\ ~dropped /\ ~TasksRefused(p, k)
         /\ TasksStored(p, k)
         /\ attempt' = [attempt EXCEPT ![p].at = at + 1, ![p].pc = next,
                                       ![p].wrote = TRUE]
      \/ /\ ~dropped /\ ~TasksRefused(p, k)
         /\ TasksStored(p, k)
         /\ Fail(p, TRUE)
      \/ /\ ~dropped
         /\ Fail(p, FALSE)
         /\ UNCHANGED suggestion
  BY Zenon DEF PersistTasks
<1> HIDE DEF next, k, dropped
<1>7. ASSUME dropped, attempt' = [attempt EXCEPT ![p].at = at + 1, ![p].pc = next],
             UNCHANGED suggestion
      PROVE  DemoInv'
  <2> DEFINE rec == [a EXCEPT !.at = at + 1, !.pc = next]
  <2>1. attempt' = [attempt EXCEPT ![p] = rec]
    BY <1>7
  <2> HIDE DEF a
  <2>2. /\ rec.pc = next /\ rec.at = at + 1 /\ rec.codes = a.codes /\ rec.errors = a.errors
        /\ rec.wrote = a.wrote /\ rec.status = a.status
        /\ rec \in AttemptKind
    BY <1>1, <1>3 DEF AttemptKind
  <2> HIDE DEF rec
  <2>3. attempt'[p] = rec
    BY <2>1, <2>2, AttemptChange DEF DemoInv
  <2>4. Grows
    BY <1>1, <1>7 DEF Grows
  <2>5. \A l \in LinesOf(k) : Kept(p, l)'
    BY <1>4, <1>7, <2>2, <2>3 DEF Kept, Given, a
  <2>6. AttemptFits(p)'
    BY <1>1, <1>2, <2>2, <2>3, <2>4, <2>5, RowsFit DEF next, k, a
  <2> QED
    BY <1>1, <1>3, <1>7, <2>1, <2>2, <2>6, QuietStep
<1>8. ASSUME ~dropped, ~TasksRefused(p, k), TasksStored(p, k)
      PROVE  /\ Grows
             /\ suggestion' \in [Line -> Codes \cup {Unasked}]
             /\ \A l \in LinesOf(k) : suggestion'[l] = attempt[p].codes[l]
             /\ \E l \in Line : Given(p, l)
             /\ AssessedAsSuggested' /\ RunFits'
  <2>1. /\ Grows
        /\ suggestion' \in [Line -> Codes \cup {Unasked}]
        /\ \A l \in LinesOf(k) : suggestion'[l] = attempt[p].codes[l]
    BY <1>1, <1>8, RowsAreAdded
  <2>2. \E l \in Line : Given(p, l)
    BY <1>4, <1>5, <1>8
  <2> QED
    BY <1>1, <2>1, <2>2, StoredKept
<1>9. ASSUME ~dropped, ~TasksRefused(p, k), TasksStored(p, k),
             attempt' = [attempt EXCEPT ![p].at = at + 1, ![p].pc = next, ![p].wrote = TRUE]
      PROVE  DemoInv'
  <2> DEFINE rec == [a EXCEPT !.at = at + 1, !.pc = next, !.wrote = TRUE]
  <2>1. attempt' = [attempt EXCEPT ![p] = rec]
    BY <1>9
  <2> HIDE DEF a
  <2>2. /\ rec.pc = next /\ rec.at = at + 1 /\ rec.codes = a.codes /\ rec.errors = a.errors
        /\ rec.status = a.status
        /\ rec \in AttemptKind
    BY <1>1, <1>3 DEF AttemptKind
  <2> HIDE DEF rec
  <2>3. attempt'[p] = rec
    BY <2>1, <2>2, AttemptChange DEF DemoInv
  <2>4. /\ Grows
        /\ suggestion' \in [Line -> Codes \cup {Unasked}]
        /\ \A l \in LinesOf(k) : suggestion'[l] = attempt[p].codes[l]
        /\ \E l \in Line : Given(p, l)
        /\ AssessedAsSuggested' /\ RunFits'
    BY <1>8, <1>9
  <2>5. \A l \in LinesOf(k) : Kept(p, l)'
    BY <2>2, <2>3, <2>4 DEF Kept, a
  <2>6. AttemptFits(p)'
    BY <1>1, <1>2, <2>2, <2>3, <2>4, <2>5, RowsFit DEF next, k, a
  <2> QED
    BY <1>1, <1>3, <2>1, <2>2, <2>4, <2>6, AttemptStep
<1>10. ASSUME ~dropped, ~TasksRefused(p, k), TasksStored(p, k), Fail(p, TRUE)
       PROVE  DemoInv'
  BY <1>1, <1>2, <1>8, <1>10, FailStep
<1>11. ASSUME Fail(p, FALSE), UNCHANGED suggestion
       PROVE  DemoInv'
  <2>1. Grows
    BY <1>1, <1>11 DEF Grows
  <2>2. AssessedAsSuggested' /\ RunFits'
    BY <1>1, <2>1, StoredKept
  <2> QED
    BY <1>1, <1>2, <1>11, <2>1, <2>2, FailStep
<1> QED
  BY <1>6, <1>7, <1>9, <1>10, <1>11

\* The codes of an execution, and the results made of them.
LEMMA ResultLines ==
    ASSUME DemoInv, NEW p \in Attempt
    PROVE  LET codes == Determined(p)
           IN  /\ DOMAIN codes = {l \in Line : Given(p, l)}
               /\ DOMAIN Results(p).lines = DOMAIN codes
               /\ \A l \in DOMAIN codes :
                     /\ codes[l] = attempt[p].codes[l] /\ codes[l] \in Codes
                     /\ Results(p).lines[l].code = codes[l]
               /\ codes = [l \in DOMAIN Results(p).lines |-> Results(p).lines[l].code]
               /\ Results(p).bundles = Bundles(codes, request.mode)
               /\ Results(p).lines = [l \in DOMAIN codes |->
                     Assessment(l, codes[l], Results(p).bundles, request.mode)]
<1> DEFINE codes == Determined(p)
           bundles == Bundles(codes, request.mode)
<1>1. /\ DOMAIN codes = {l \in Line : Given(p, l)}
      /\ codes = [l \in DOMAIN codes |-> codes[l]]
      /\ \A l \in DOMAIN codes : codes[l] = attempt[p].codes[l]
  BY DEF Determined, Given
<1>2. \A l \in DOMAIN codes : codes[l] \in Codes
  BY <1>1 DEF DemoInv, DemoTypeOK, AttemptKind, Given
<1> HIDE DEF codes
<1>3. /\ Results(p).bundles = bundles
      /\ Results(p).lines = [l \in DOMAIN codes |-> Assessment(l, codes[l], bundles, request.mode)]
  BY DEF Results, codes
<1>4. \A l \in DOMAIN codes : Assessment(l, codes[l], bundles, request.mode).code = codes[l]
  BY DEF Assessment
<1> HIDE DEF bundles
<1>5. /\ DOMAIN Results(p).lines = DOMAIN codes
      /\ \A l \in DOMAIN codes : Results(p).lines[l].code = codes[l]
  BY <1>3, <1>4
<1>6. codes = [l \in DOMAIN Results(p).lines |-> Results(p).lines[l].code]
  BY <1>1, <1>5
<1> QED
  BY <1>1, <1>2, <1>3, <1>5, <1>6 DEF codes, bundles

\* Results are right once the rows are there.
LEMMA ResultsFit ==
    ASSUME DemoInv, NEW p \in Attempt, attempt[p].pc = "results", run' = Results(p),
           UNCHANGED <<request, suggestion>>
    PROVE  AssessedAsSuggested' /\ RunFits'
<1> DEFINE codes == Determined(p)
<1>1. /\ WholePackages(p) /\ AllFit(codes)
      /\ \A l \in Line : Kept(p, l)
  BY Zenon DEF DemoInv, AttemptFits
<1>2. /\ DOMAIN codes = {l \in Line : Given(p, l)}
      /\ DOMAIN Results(p).lines = DOMAIN codes
      /\ \A l \in DOMAIN codes :
            /\ codes[l] = attempt[p].codes[l] /\ codes[l] \in Codes
            /\ Results(p).lines[l].code = codes[l]
      /\ codes = [l \in DOMAIN Results(p).lines |-> Results(p).lines[l].code]
      /\ Results(p).bundles = Bundles(codes, request.mode)
      /\ Results(p).lines = [l \in DOMAIN codes |->
            Assessment(l, codes[l], Results(p).bundles, request.mode)]
  BY ResultLines, Zenon
<1> HIDE DEF codes
<1>3. /\ DOMAIN codes = {l \in Line : Given(p, l)}
      /\ DOMAIN run'.lines = DOMAIN codes
      /\ \A l \in DOMAIN codes :
            /\ codes[l] = attempt[p].codes[l] /\ codes[l] \in Codes
            /\ run'.lines[l].code = codes[l]
  <2>1. /\ DOMAIN run'.lines = DOMAIN codes
        /\ \A l \in DOMAIN codes : run'.lines[l].code = codes[l]
    BY <1>2, Zenon
  <2> QED
    BY <1>2, <2>1, Zenon
<1>4. /\ run'.bundles = Bundles(codes, request.mode)
      /\ run'.lines = [l \in DOMAIN codes |->
            Assessment(l, codes[l], run'.bundles, request.mode)]
  <2> DEFINE made(b) == [l \in DOMAIN codes |-> Assessment(l, codes[l], b, request.mode)]
  <2>1. /\ Results(p).bundles = Bundles(codes, request.mode)
        /\ Results(p).lines = made(Results(p).bundles)
    BY <1>2, Zenon
  <2> HIDE DEF made
  <2>2. run'.bundles = Bundles(codes, request.mode) /\ run'.lines = made(run'.bundles)
    BY <2>1, Zenon
  <2> QED
    BY <2>2, Zenon DEF made
<1>5. StoredCodes' = codes
  BY <1>2 DEF StoredCodes
<1>6. RunFits'
  <2>1. AllFit(StoredCodes)'
    BY <1>1, <1>5, Zenon DEF AllFit
  <2>2. /\ run'.bundles = Bundles(StoredCodes', request'.mode)
        /\ run'.lines = [l \in DOMAIN run'.lines |->
              Assessment(l, StoredCodes'[l], run'.bundles, request'.mode)]
    BY <1>3, <1>4, <1>5, Zenon
  <2>3. /\ DOMAIN run'.lines \subseteq Line
        /\ \A l \in DOMAIN run'.lines : run'.lines[l].code \in Codes
    BY <1>3
  <2> QED
    BY <2>1, <2>2, <2>3, Zenon DEF RunFits
<1>7. AssessedAsSuggested'
  <2>1. \A l \in DOMAIN run'.lines : suggestion'[l] = run'.lines[l].code
    BY <1>1, <1>3 DEF Kept
  <2>2. \A l, m \in Line : Fact[l].package = Fact[m].package /\ l \in DOMAIN run'.lines
           => m \in DOMAIN run'.lines
    BY <1>1, <1>3 DEF WholePackages
  <2> QED
    BY <2>1, <2>2, Zenon DEF AssessedAsSuggested
<1> QED
  BY <1>6, <1>7

LEMMA PersistResultsFits ==
    ASSUME DemoInv, NEW p \in Attempt, PersistResults(p)
    PROVE  DemoInv'
<1> DEFINE a == attempt[p]
<1>1. /\ a \in AttemptKind /\ a.pc = "results" /\ AttemptFits(p)
      /\ UNCHANGED <<request, master, suggestion, artifact>>
      /\ artifact' \in Attempt \cup {NoArtifact}
      /\ suggestion \in [Line -> Codes \cup {Unasked}]
  BY DEF PersistResults, DemoInv, DemoTypeOK
<1>2. /\ a.status = "none" /\ WholePackages(p)
      /\ \E l \in Line : Given(p, l)
      /\ \A l \in Line : Kept(p, l)
      /\ a.errors = {} => \A l \in Line : Given(p, l)
  BY <1>1, Zenon DEF AttemptFits
<1>3. \/ /\ ~ResultsRefused(p) /\ run' = Results(p)
         /\ attempt' = [attempt EXCEPT ![p].pc = "finish", ![p].wrote = TRUE]
      \/ ~ResultsRefused(p) /\ run' = Results(p) /\ Fail(p, TRUE)
      \/ Fail(p, FALSE) /\ UNCHANGED run
  BY Zenon DEF PersistResults
<1>4. ASSUME ~ResultsRefused(p), run' = Results(p)
      PROVE  Grows /\ AssessedAsSuggested' /\ RunFits'
  <2>1. Stored => run = Results(p)
    BY <1>4 DEF ResultsRefused, Stored
  <2>2. Grows
    BY <1>1, <1>4, <2>1 DEF Grows
  <2> QED
    BY <1>1, <1>4, <2>2, ResultsFit
<1>5. ASSUME ~ResultsRefused(p), run' = Results(p),
             attempt' = [attempt EXCEPT ![p].pc = "finish", ![p].wrote = TRUE]
      PROVE  DemoInv'
  <2> DEFINE rec == [a EXCEPT !.pc = "finish", !.wrote = TRUE]
  <2>1. attempt' = [attempt EXCEPT ![p] = rec]
    BY <1>5
  <2> HIDE DEF a
  <2>2. /\ rec.pc = "finish" /\ rec.codes = a.codes /\ rec.errors = a.errors
        /\ rec.status = a.status
        /\ rec \in AttemptKind
    BY <1>1 DEF AttemptKind, PCs
  <2> HIDE DEF rec
  <2>3. attempt'[p] = rec
    BY <2>1, <2>2, AttemptChange DEF DemoInv
  <2>4. /\ \A l : Given(p, l)' <=> Given(p, l)
        /\ Results(p)' = Results(p)
        /\ WholePackages(p)' <=> WholePackages(p)
    <3>1. attempt'[p].codes = attempt[p].codes
      BY <2>2, <2>3 DEF a
    <3> QED
      BY <1>1, <3>1, SameCodes
  <2>5. a.errors = {} => TablesHold(p)'
    <3>1. a.errors = {} => suggestion = a.codes
      <4>1. a.errors = {} => \A l \in Line : suggestion[l] = a.codes[l]
        BY <1>2 DEF Kept, a
      <4>2. a.codes \in [Line -> Codes \cup {Unasked}]
        BY <1>1 DEF AttemptKind
      <4> QED
        BY <1>1, <4>1, <4>2
    <3> QED
      BY <1>1, <1>2, <1>5, <2>2, <2>3, <2>4, <3>1 DEF TablesHold
  <2>6. AttemptFits(p)'
    BY <1>2, <2>2, <2>3, <2>4, <2>5 DEF AttemptFits
  <2>7. Grows /\ AssessedAsSuggested' /\ RunFits'
    BY <1>4, <1>5
  <2> QED
    BY <1>1, <2>1, <2>2, <2>6, <2>7, AttemptStep
<1>6. ASSUME ~ResultsRefused(p), run' = Results(p), Fail(p, TRUE)
      PROVE  DemoInv'
  BY <1>1, <1>2, <1>4, <1>6, FailStep
<1>7. ASSUME Fail(p, FALSE), UNCHANGED run
      PROVE  DemoInv'
  <2>1. Grows
    BY <1>1, <1>7 DEF Grows
  <2>2. AssessedAsSuggested' /\ RunFits'
    BY <1>7, <2>1, StoredKept
  <2> QED
    BY <1>1, <1>2, <1>7, <2>1, <2>2, FailStep
<1> QED
  BY <1>3, <1>5, <1>6, <1>7

\* A step that moves no execution and touches no table: the master data change, or
\* nothing does.
LEMMA IdleStepFits ==
    ASSUME DemoInv, master' \in Masters, UNCHANGED <<request, suggestion, run, artifact, attempt>>
    PROVE  DemoInv'
<1>1. Grows
  BY DEF Grows
<1>2. DemoTypeOK'
  BY DEF DemoInv, DemoTypeOK
<1>3. AssessedAsSuggested' /\ RunFits'
  BY <1>1, StoredKept
<1>4. \A q \in Attempt : AttemptFits(q)'
  BY <1>1, OthersFitDemo DEF DemoInv, DemoTypeOK
<1> QED
  BY <1>2, <1>3, <1>4 DEF DemoInv

-----------------------------------------------------------------------------
(* The demo batch: the theorems. *)

LEMMA DemoInitInv == DemoInit => DemoInv
<1> SUFFICES ASSUME DemoInit
             PROVE  DemoInv
  OBVIOUS
<1>1. \A p \in Attempt : attempt[p] = NotStarted
  BY DEF DemoInit
<1>2. DemoTypeOK
  BY <1>1, NotStartedFacts DEF DemoInit, DemoTypeOK
<1>3. ~Stored
  BY DEF DemoInit, Stored
<1>4. \A p \in Attempt : AttemptFits(p)
  <2> SUFFICES ASSUME NEW p \in Attempt
               PROVE  AttemptFits(p)
    OBVIOUS
  <2>1. \A l \in Line : ~Given(p, l)
    BY <1>1, NotStartedFacts DEF Given
  <2> QED
    BY <1>1, <2>1, NotStartedFacts DEF AttemptFits, WholePackages
<1> QED
  BY <1>2, <1>3, <1>4 DEF DemoInv, AssessedAsSuggested, RunFits

LEMMA DemoStepInv == DemoInv /\ [DemoNext]_demoVars => DemoInv'
<1> SUFFICES ASSUME DemoInv, [DemoNext]_demoVars
             PROVE  DemoInv'
  OBVIOUS
<1>1. CASE UNCHANGED demoVars
  BY <1>1, IdleStepFits DEF demoVars, DemoInv, DemoTypeOK
<1>2. CASE Republish
  BY <1>2, IdleStepFits DEF Republish
<1>3. ASSUME NEW p \in Attempt,
             \/ StartJob(p) \/ StartSqlJob(p) \/ CheckFresh(p)
             \/ ProcessPackage(p) \/ BundleLines(p)
             \/ PersistTasks(p) \/ PersistResults(p)
             \/ Finish(p) \/ WriteResult(p)
             \/ KillAttempt(p)
      PROVE  DemoInv'
  BY <1>3, StartJobFits, StartSqlJobFits, CheckFreshFits, ProcessPackageFits, BundleLinesFits,
     PersistTasksFits, PersistResultsFits, FinishFits, WriteResultFits, KillAttemptFits
<1> QED
  BY <1>1, <1>2, <1>3, Zenon DEF DemoNext

\* The demo batch keeps its invariant: executions of one workflow run that overlap,
\* crash and are retried.
THEOREM DemoInvariant == DemoSpec => []DemoInv
<1> QED
  BY DemoInitInv, DemoStepInv, PTL DEF DemoSpec

\* The variables keep their types (DemoWorkflow.DemoTypeOK).
THEOREM DemoTyped == DemoSpec => []DemoTypeOK
<1>1. DemoInv => DemoTypeOK
  BY DEF DemoInv
<1> QED
  BY <1>1, DemoInvariant, PTL

\* Whatever executions wrote them, stored assessments are those of the stored
\* determinations, whole package by whole package.
THEOREM AssessmentsMatchRows == DemoSpec => []AssessedAsSuggested
<1>1. DemoInv => AssessedAsSuggested
  BY DEF DemoInv
<1> QED
  BY <1>1, DemoInvariant, PTL

\* Stored bundles have the lines the grouping policy gives them, no more and no fewer.
THEOREM StoredBundlesAreSound == DemoSpec => []BundlesAreSound
<1>1. DemoInv => BundlesAreSound
  BY BundlesFollow DEF DemoInv
<1> QED
  BY <1>1, DemoInvariant, PTL

\* Stored recommendations rest on governed tasks, regions and rules.
THEOREM RecommendationsAreGoverned == DemoSpec => []DecisionsAreGoverned
<1>1. DemoInv => DecisionsAreGoverned
  BY DecisionsFollow DEF DemoInv
<1> QED
  BY <1>1, DemoInvariant, PTL

\* A job's report can be believed: success has stored everything the execution
\* decided, and failure has written nothing.
THEOREM ReportsTellTheTruth == DemoSpec => []ReportsAreTrue
<1>1. DemoInv => ReportsAreTrue
  BY DEF DemoInv, AttemptFits, TablesHold, ReportsAreTrue
<1> QED
  BY <1>1, DemoInvariant, PTL

\* Evidence grows: no step changes a determination or the results that are stored.
LEMMA DemoStepGrows == DemoInv /\ [DemoNext]_demoVars => [Grows]_demoVars
<1> SUFFICES ASSUME DemoInv, [DemoNext]_demoVars
             PROVE  Grows
  OBVIOUS
<1>1. CASE UNCHANGED <<request, suggestion, run>>
  BY <1>1 DEF Grows
<1>2. ASSUME NEW p \in Attempt, PersistTasks(p)
      PROVE  Grows
  <2>1. /\ UNCHANGED <<request, run>>
        /\ \/ UNCHANGED suggestion
           \/ ~TasksRefused(p, Order[attempt[p].at]) /\ TasksStored(p, Order[attempt[p].at])
    BY <1>2, Zenon DEF PersistTasks
  <2> QED
    BY <1>1, <2>1, RowsAreAdded
<1>3. ASSUME NEW p \in Attempt, PersistResults(p)
      PROVE  Grows
  <2>1. /\ UNCHANGED <<request, suggestion>>
        /\ run' = run \/ (~ResultsRefused(p) /\ run' = Results(p))
    BY <1>3, Zenon DEF PersistResults
  <2> QED
    BY <2>1 DEF Grows, ResultsRefused, Stored
<1>4. ASSUME NEW p \in Attempt,
             \/ StartJob(p) \/ StartSqlJob(p) \/ CheckFresh(p)
             \/ ProcessPackage(p) \/ BundleLines(p)
             \/ Finish(p) \/ WriteResult(p) \/ KillAttempt(p)
      PROVE  UNCHANGED <<request, suggestion, run>>
  BY <1>4, Zenon DEF StartJob, StartSqlJob, CheckFresh, ProcessPackage, BundleLines, Finish,
     WriteResult, KillAttempt
<1>5. CASE Republish \/ UNCHANGED demoVars
  BY <1>1, <1>5 DEF Republish, demoVars
<1> QED
  BY <1>1, <1>2, <1>3, <1>4, <1>5, Zenon DEF DemoNext

\* Determinations and results of a workflow run are final, whoever runs it again.
THEOREM EvidenceStays == DemoSpec => EvidenceIsFinal
<1>1. DemoInv /\ [DemoNext]_demoVars =>
         [/\ \A l \in Line : suggestion[l] # Unasked => suggestion'[l] = suggestion[l]
          /\ Stored => run' = run]_demoVars
  BY DemoStepGrows DEF Grows
<1> QED
  BY <1>1, DemoInvariant, PTL DEF EvidenceIsFinal, DemoSpec

=============================================================================
