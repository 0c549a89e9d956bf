----------------------------- MODULE DurableRun -----------------------------
(***************************************************************************)
(* One run ID under Agent.run and Agent.enact (autarch/agent.py), with the *)
(* three stores they write one after the other, each with its own commit:  *)
(* the run journal (runlog.py), the precedents (precedent.py) and the why  *)
(* memory (memory.py).  Processes that resume the run may crash between    *)
(* any two of these writes, and may overlap: nothing locks a run ID.       *)
(*                                                                         *)
(* Any exception that leaves run or enact is a crash here: the stores are  *)
(* left in the same state.  What the council, the kernel, the policies and *)
(* the budget say is abstracted to whether the action is executed.         *)
(***************************************************************************)
EXTENDS Integers, Sequences, FiniteSets

CONSTANTS
    Processes,  \* processes that may run or resume the run ID
    MaxStarts   \* bound: how many times it is started without an answer on record

ASSUME DurableAssumption ==
    /\ IsFiniteSet(Processes)
    /\ MaxStarts \in Nat

VARIABLES
    journal,      \* the row of table runs: its status, step and why_id
    memory,       \* the why records of the run, in the order they were written
    rulings,      \* count of the run's rulings in the precedent store
    effects,      \* how often the action was executed
    proc,         \* proc[p]: where process p is
    starts,       \* how often the run was started (not in the code)
    overlaps,     \* how many of them found another still at it (not in the code)
    unclosed,     \* crashes between an execution and its Close (not in the code)
    pruned,       \* executed records pruned from under a resume (not in the code)
    lostRulings   \* rulings that died before their record (not in the code)

stores == <<journal, memory, rulings, effects>>
history == <<starts, overlaps, unclosed, pruned, lostRulings>>
vars == <<stores, proc, history>>

-----------------------------------------------------------------------------
NoRecord == 0  \* why_id IS NULL

Idle == [phase |-> "idle", way |-> "run", executed |-> FALSE, ruled |-> FALSE,
         why |-> NoRecord]

Busy == {p \in Processes : proc[p].phase # "idle"}

Terminal == journal.status \in {"complete", "blocked"}

\* A variant that takes a run that was blocked for one that can be tried again.
RecordedIfComplete ==
    /\ journal.status = "complete"
    /\ journal.why # NoRecord
    /\ memory[journal.why].kept

\* The guard of the early return: the journal is terminal, has a why_id, and
\* _cached_result finds the record.
Recorded ==
    /\ Terminal
    /\ journal.why # NoRecord
    /\ memory[journal.why].kept

Init ==
    /\ journal = [status |-> "absent", step |-> "none", why |-> NoRecord]
    /\ memory = <<>>
    /\ rulings = 0
    /\ effects = 0
    /\ proc = [p \in Processes |-> Idle]
    /\ starts = 0 /\ overlaps = 0
    /\ unclosed = 0 /\ pruned = 0 /\ lostRulings = 0

\* The run is looked up and, unless its outcome is on record, started: start
\* inserts the row or leaves the one it finds.  A run on record is returned as
\* it is, which changes nothing.
Begin(p, way) ==
    /\ proc[p].phase = "idle"
    /\ starts < MaxStarts
    /\ ~Recorded
    /\ journal' = IF journal.status = "absent"
                  THEN [status |-> "running", step |-> "created",
                        why |-> NoRecord]
                  ELSE journal
    /\ proc' = [proc EXCEPT ![p].phase = "started", ![p].way = way]
    /\ starts' = starts + 1
    /\ overlaps' = IF Busy = {} THEN overlaps ELSE overlaps + 1
    /\ UNCHANGED <<memory, rulings, effects, unclosed, pruned, lostRulings>>

\* run: the council has no actionable proposal.
FindNoMotion(p) ==
    /\ proc[p].phase = "started" /\ proc[p].way = "run"
    /\ proc' = [proc EXCEPT ![p].phase = "acted"]
    /\ UNCHANGED <<stores, history>>

\* record_step without a status sets it to running, without a why_id it keeps
\* the one that is there.
RecordStep(step) ==
    journal' = [status |-> "running", step |-> step, why |-> journal.why]

\* run: all rounds of deliberation and sending back are over.
RecordDeliberated(p) ==
    /\ proc[p].phase = "started" /\ proc[p].way = "run"
    /\ RecordStep("deliberated")
    /\ proc' = [proc EXCEPT ![p].phase = "deliberated"]
    /\ UNCHANGED <<memory, rulings, effects, history>>

RecordDecided(p) ==
    /\ proc[p].phase = "deliberated"
    /\ RecordStep("decided")
    /\ proc' = [proc EXCEPT ![p].phase = "decided"]
    /\ UNCHANGED <<memory, rulings, effects, history>>

\* The action is executed, or it is not: overruled, blocked, without an adapter
\* or failed.
Acted(p, executed, ruled) ==
    /\ effects' = effects + (IF executed THEN 1 ELSE 0)
    /\ proc' = [proc EXCEPT ![p].phase = "acted",
                            ![p].executed = executed, ![p].ruled = ruled]
    /\ UNCHANGED <<journal, memory, rulings, history>>

\* run: a genuine ruling is that of a human or custom presider, for or against
\* an action that kernel and policies would let pass.
Execute(p) ==
    /\ proc[p].phase = "decided"
    /\ \E executed, ruled \in BOOLEAN : Acted(p, executed, ruled)

\* enact: the caller has decided, no step is journaled before the last one, and
\* the command is no precedent.
Enact(p) ==
    /\ proc[p].phase = "started" /\ proc[p].way = "enact"
    /\ \E executed \in BOOLEAN : Acted(p, executed, FALSE)

Act(p) == Execute(p) \/ Enact(p)

\* A variant that lets a mechanical outcome harden into precedent.
MechanicalRecordRuling(p) ==
    /\ proc[p].phase = "acted"
    /\ rulings' = rulings + 1
    /\ proc' = [proc EXCEPT ![p].phase = "ruled"]
    /\ UNCHANGED <<journal, memory, effects, history>>

RecordRuling(p) ==
    /\ proc[p].phase = "acted" /\ proc[p].ruled
    /\ rulings' = rulings + 1
    /\ proc' = [proc EXCEPT ![p].phase = "ruled"]
    /\ UNCHANGED <<journal, memory, effects, history>>

\* _record: the why record is sealed, signed and committed.
RecordWhy(p) ==
    /\ \/ proc[p].phase = "acted" /\ ~proc[p].ruled
       \/ proc[p].phase = "ruled"
    /\ memory' = Append(memory, [executed |-> proc[p].executed,
                                 ruled |-> proc[p].ruled, kept |-> TRUE])
    /\ proc' = [proc EXCEPT ![p].phase = "recorded",
                            ![p].why = Len(memory) + 1]
    /\ UNCHANGED <<journal, rulings, effects, history>>

\* Variants of the last journal step: one keeps a why_id that is there, one
\* leaves the status at its default.
StaleClose(p) ==
    /\ proc[p].phase = "recorded"
    /\ journal' = [status |-> IF proc[p].executed THEN "complete" ELSE "blocked",
                   step |-> "complete",
                   why |-> IF journal.why = NoRecord THEN proc[p].why
                           ELSE journal.why]
    /\ proc' = [proc EXCEPT ![p] = Idle]
    /\ UNCHANGED <<memory, rulings, effects, history>>

OpenClose(p) ==
    /\ proc[p].phase = "recorded"
    /\ journal' = [status |-> "running", step |-> "complete",
                   why |-> proc[p].why]
    /\ proc' = [proc EXCEPT ![p] = Idle]
    /\ UNCHANGED <<memory, rulings, effects, history>>

\* The terminal state is persisted together with the why_id.
Close(p) ==
    /\ proc[p].phase = "recorded"
    /\ journal' = [status |-> IF proc[p].executed THEN "complete" ELSE "blocked",
                   step |-> "complete",
                   why |-> proc[p].why]
    /\ proc' = [proc EXCEPT ![p] = Idle]
    /\ UNCHANGED <<memory, rulings, effects, history>>

\* The process has executed the action and has not closed the journal; its
\* record, if it is written, is there.
InWindow(p) ==
    /\ proc[p].executed
    /\ proc[p].phase = "recorded" => memory[proc[p].why].kept

\* The process dies.  What it had committed stays; of an execution it has not
\* closed the journal for, the next resume knows nothing, not even when the why
\* record is written: a resume looks it up only through the journal.
Crash(p) ==
    /\ proc[p].phase # "idle"
    /\ proc' = [proc EXCEPT ![p] = Idle]
    /\ unclosed' = unclosed + (IF InWindow(p) THEN 1 ELSE 0)
    /\ lostRulings' = lostRulings + (IF proc[p].phase = "ruled" THEN 1 ELSE 0)
    /\ UNCHANGED <<stores, starts, overlaps, pruned>>

\* The records a resume relies on, or will: the one of a terminal journal, and
\* those of the processes about to close it.
ReliedOn ==
    {n \in DOMAIN memory :
        \/ Terminal /\ n = journal.why
        \/ \E p \in Processes : proc[p].why = n}

\* WhyMemory.prune deletes the records older than a cutoff.
Prune(n) ==
    /\ \E i \in 1..n : memory[i].kept
    /\ memory' = [i \in DOMAIN memory |->
                    [executed |-> memory[i].executed, ruled |-> memory[i].ruled,
                     kept |-> memory[i].kept /\ i > n]]
    /\ pruned' = pruned + Cardinality({i \in ReliedOn :
                             i <= n /\ memory[i].kept /\ memory[i].executed})
    /\ UNCHANGED <<journal, rulings, effects, proc, starts, overlaps, unclosed,
                   lostRulings>>

Step(p) ==
    \/ \E way \in {"run", "enact"} : Begin(p, way)
    \/ FindNoMotion(p) \/ RecordDeliberated(p) \/ RecordDecided(p) \/ Act(p)
    \/ RecordRuling(p) \/ RecordWhy(p) \/ Close(p) \/ Crash(p)

Next ==
    \/ \E p \in Processes : Step(p)
    \/ \E n \in DOMAIN memory : Prune(n)

Spec == Init /\ [][Next]_vars

-----------------------------------------------------------------------------
Phases == {"idle", "started", "deliberated", "decided", "acted", "ruled",
           "recorded"}
Journals == [status : {"absent", "running", "complete", "blocked"},
             step : {"none", "created", "deliberated", "decided", "complete"},
             why : Nat]
Passes == [phase : Phases, way : {"run", "enact"}, executed : BOOLEAN,
           ruled : BOOLEAN, why : Nat]
Records == [executed : BOOLEAN, ruled : BOOLEAN, kept : BOOLEAN]

\* The stores and the processes hold values of their kind, and every why_id is
\* that of a record that was committed.
TypeOK ==
    /\ journal \in Journals
    /\ memory \in Seq(Records)
    /\ proc \in [Processes -> Passes]
    /\ journal.why <= Len(memory)
    /\ \A p \in Processes : proc[p].why <= Len(memory)
    /\ rulings \in Nat /\ effects \in Nat
    /\ starts \in 0..MaxStarts /\ overlaps \in Nat
    /\ unclosed \in Nat /\ pruned \in Nat /\ lostRulings \in Nat

\* What a resume answers is what happened: a terminal journal points at the why
\* record of the very pass that closed it, also when another pass has crashed or
\* moved the row back to running in between.
TerminalVouches ==
    Terminal =>
        /\ journal.why \in DOMAIN memory
        /\ journal.status = "complete" <=> memory[journal.why].executed

\* A resume repeats the side effect only where the code leaves it no trace: once
\* for each crash between the adapter's execute and the last journal step, for
\* each record pruned from under the journal, and for each pass that overlapped
\* another.  A crash at any other step, a blocked pass or any number of resumes
\* repeats nothing.  This is less than runlog.py, which
\* promises no repeat at all: the crash and the prune are real repeats.
RepeatsAreExplained == effects <= 1 + unclosed + pruned + overlaps

\* A ruling in the precedent store is attested by a why record, unless its
\* process died between the two; no mechanical outcome counts as one.
Attested == {n \in DOMAIN memory : memory[n].ruled}
Unwritten == {p \in Processes : proc[p].phase = "ruled"}
RulingsAreAttested ==
    rulings = Cardinality(Attested) + lostRulings + Cardinality(Unwritten)

\* As long as passes do not overlap, a run whose outcome is on record, be it
\* complete or blocked, stays as it is and is not executed (again).
OnRecord == Terminal /\ \E n \in DOMAIN memory : n = journal.why /\ memory[n].kept
OutcomeIsFinal ==
    [][overlaps = 0 /\ OnRecord => journal' = journal /\ effects' = effects]_vars
=============================================================================
