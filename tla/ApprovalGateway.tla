--------------------------- MODULE ApprovalGateway ---------------------------
(***************************************************************************)
(* One action that a policy wants ratified, from the request that parks it *)
(* (GovernanceGateway.enact, autarch/gateway.py) over its row in the       *)
(* approval queue (autarch/approval.py) to its execution.                  *)
(*                                                                         *)
(* A thread serves one HTTP request.  Threads share the row through        *)
(* SQLite, from one gateway process or several, and every decision is a    *)
(* SELECT of the payload, a change of the copy in memory and an UPDATE of  *)
(* the whole row by its id: nothing holds the row in between.              *)
(*                                                                         *)
(* Rows do not depend on each other, so one is enough; pending_list, which *)
(* goes over all of them, is a thread per row.  Actions that need no       *)
(* ratification never touch the queue and are left out, and so is what the *)
(* agent's kernel, policies and budget say of the execution in the end.    *)
(***************************************************************************)
EXTENDS Integers, Sequences, FiniteSets

CONSTANTS
    Threads,  \* the HTTP requests that are served
    Voters,   \* the names that ratify
    Quorums   \* the quorums that requests ask for

ASSUME ApprovalAssumption ==
    /\ IsFiniteSet(Voters)
    /\ Quorums \subseteq Int

VARIABLES
    row,        \* the row of table approvals: status and payload
    due,        \* time.time() has passed expires_at
    thread,     \* thread[t]: where the request t is
    enacted,    \* how often Agent.enact was called for the action
    votes,      \* who has voted to ratify (not in the code)
    overruled,  \* an overrule was stored (not in the code)
    disturbed,  \* a store overwrote what its thread had not read, or a thread
                \* died before its store (not in the code)
    abandoned   \* a thread died before it executed (not in the code)

history == <<votes, overruled, disturbed, abandoned>>
vars == <<row, due, thread, enacted, history>>

-----------------------------------------------------------------------------
NoRow == [status |-> "absent", approvals |-> <<>>, quorum |-> 1,
          expires |-> FALSE]

Idle == [phase |-> "idle", op |-> "none", seen |-> NoRow, copy |-> NoRow,
         late |-> FALSE]

\* A thread that has nothing of the row in hand.
At(phase) == [Idle EXCEPT !.phase = phase]

Decided == row.status \in {"ratified", "overruled", "expired"}

Names(seq) == {seq[i] : i \in DOMAIN seq}

Init ==
    /\ row = NoRow
    /\ due = FALSE
    /\ thread = [t \in Threads |-> Idle]
    /\ enacted = 0
    /\ votes = {} /\ overruled = FALSE
    /\ disturbed = FALSE /\ abandoned = FALSE

\* enact: the policy requires ratification, so a row is inserted; its quorum is
\* at least 1.  The caller waits for the decision if the request says so.
Park(t, quorum, expires, waits) ==
    /\ thread[t].phase = "idle"
    /\ row.status = "absent"
    /\ row' = [status |-> "pending", approvals |-> <<>>,
               quorum |-> IF quorum < 1 THEN 1 ELSE quorum,
               expires |-> expires]
    /\ thread' = [thread EXCEPT ![t] = At(IF waits THEN "waiting" ELSE "done")]
    /\ UNCHANGED <<due, enacted, history>>

-----------------------------------------------------------------------------
(* Every operation reads the row first: ratify, overrule and pending_list   *)
(* once, wait in each round.                                                *)

\* A request arrives, or a waiting one begins another round, with op.
Arrives(t, op) ==
    \/ thread[t].phase = "idle" /\ op \in {"ratify", "overrule", "list"}
    \/ thread[t].phase = "waiting" /\ ~thread[t].late /\ op = "wait"

\* A variant that does not ask whether the row is still pending.
ReadAny(t, op) ==
    /\ Arrives(t, op)
    /\ row.status # "absent"
    /\ thread' = [thread EXCEPT ![t].phase = "read", ![t].op = op,
                                ![t].seen = row, ![t].copy = row]
    /\ UNCHANGED <<row, due, enacted, history>>

\* The row is pending: the thread has a copy of it in hand.
ReadPending(t, op) ==
    /\ Arrives(t, op)
    /\ row.status = "pending"
    /\ thread' = [thread EXCEPT ![t].phase = "read", ![t].op = op,
                                ![t].seen = row, ![t].copy = row]
    /\ UNCHANGED <<row, due, enacted, history>>

\* The row is decided.  The gateway's ratify and its waiting enact go on to
\* execute a ratified action, whoever ratified it and when.
Heed(t, op) ==
    thread' = [thread EXCEPT
        ![t] = At(IF row.status = "ratified" /\ op \in {"ratify", "wait"}
                  THEN "execute" ELSE "done")]

ReadDecided(t, op) ==
    /\ Arrives(t, op)
    /\ Decided
    /\ Heed(t, op)
    /\ UNCHANGED <<row, due, enacted, history>>

\* wait gives up at its deadline, after one more look at the row.
GiveUp(t) ==
    /\ thread[t].phase = "waiting" /\ thread[t].late
    /\ Heed(t, "wait")
    /\ UNCHANGED <<row, due, enacted, history>>

-----------------------------------------------------------------------------
(* The copy in hand is changed; only overrule does not look at the time.    *)

Prepare(t, copy) ==
    /\ thread' = [thread EXCEPT ![t].phase = "store", ![t].copy = copy]
    /\ UNCHANGED <<row, due, enacted>>

Expire(t) ==
    /\ thread[t].phase = "read" /\ thread[t].op # "overrule"
    /\ due
    /\ Prepare(t, [thread[t].copy EXCEPT !.status = "expired"])
    /\ UNCHANGED history

\* A variant that counts a name each time it votes.
RepeatBallot(copy, v) == Append(copy.approvals, v)

\* The copy with one more vote on it, unless it has that vote already.
Ballot(copy, v) ==
    IF v \in Names(copy.approvals) THEN copy.approvals
    ELSE Append(copy.approvals, v)

CastVote(t, v) ==
    /\ thread[t].phase = "read" /\ thread[t].op = "ratify"
    /\ ~due
    /\ LET ballot == Ballot(thread[t].copy, v)
       IN  Prepare(t, [thread[t].copy EXCEPT
                           !.approvals = ballot,
                           !.status = IF Len(ballot) >= thread[t].copy.quorum
                                      THEN "ratified" ELSE "pending"])
    /\ votes' = votes \cup {v}
    /\ UNCHANGED <<overruled, disturbed, abandoned>>

Overrule(t) ==
    /\ thread[t].phase = "read" /\ thread[t].op = "overrule"
    /\ Prepare(t, [thread[t].copy EXCEPT !.status = "overruled"])
    /\ UNCHANGED history

\* pending_list leaves a row that has time left alone; wait sleeps.
LeaveBe(t) ==
    /\ thread[t].phase = "read" /\ thread[t].op \in {"list", "wait"}
    /\ ~due
    /\ thread' = [thread EXCEPT
           ![t] = IF thread[t].op = "wait"
                  THEN [At("waiting") EXCEPT !.late = thread[t].late]
                  ELSE At("done")]
    /\ UNCHANGED <<row, due, enacted, history>>

-----------------------------------------------------------------------------
\* A variant whose ratify reports the decision and leaves the action parked.
ParkedStore(t) ==
    /\ thread[t].phase = "store"
    /\ row' = thread[t].copy
    /\ thread' = [thread EXCEPT ![t] = At("done")]
    /\ overruled' = (overruled \/ thread[t].copy.status = "overruled")
    /\ disturbed' = (disturbed \/ row # thread[t].seen)
    /\ UNCHANGED <<due, enacted, votes, abandoned>>

\* _store: the UPDATE replaces the whole row, whatever it has become.
Store(t) ==
    /\ thread[t].phase = "store"
    /\ row' = thread[t].copy
    /\ thread' = [thread EXCEPT
           ![t] = At(IF thread[t].copy.status = "ratified"
                     THEN "execute" ELSE "done")]
    /\ overruled' = (overruled \/ thread[t].copy.status = "overruled")
    /\ disturbed' = (disturbed \/ row # thread[t].seen)
    /\ UNCHANGED <<due, enacted, votes, abandoned>>

\* _execute: Agent.enact under the gateway's lock.
Execute(t) ==
    /\ thread[t].phase = "execute"
    /\ enacted' = enacted + 1
    /\ thread' = [thread EXCEPT ![t] = At("done")]
    /\ UNCHANGED <<row, due, history>>

-----------------------------------------------------------------------------
(* Time, and what can end a thread early: the process dies, or SQLite stays *)
(* locked for longer than its busy_timeout.                                 *)

Elapse ==
    /\ row.expires /\ ~due
    /\ due' = TRUE
    /\ UNCHANGED <<row, thread, enacted, history>>

DeadlinePasses(t) ==
    /\ \/ thread[t].phase = "waiting"
       \/ thread[t].phase = "read" /\ thread[t].op = "wait"
    /\ ~thread[t].late
    /\ thread' = [thread EXCEPT ![t].late = TRUE]
    /\ UNCHANGED <<row, due, enacted, history>>

Die(t) ==
    /\ thread[t].phase \notin {"idle", "done"}
    /\ thread' = [thread EXCEPT ![t] = At("done")]
    /\ disturbed' = (disturbed \/ thread[t].phase = "store")
    /\ abandoned' = (abandoned \/ thread[t].phase = "execute")
    /\ UNCHANGED <<row, due, enacted, votes, overruled>>

-----------------------------------------------------------------------------
Ops == {"ratify", "overrule", "list", "wait"}

\* A step of thread t that the gateway takes on its own once the request is in.
Serve(t) ==
    \/ ReadPending(t, "wait") \/ ReadDecided(t, "wait") \/ GiveUp(t)
    \/ Expire(t) \/ Overrule(t) \/ LeaveBe(t)
    \/ \E v \in Voters : CastVote(t, v)
    \/ Store(t) \/ Execute(t)

Next ==
    \/ \E t \in Threads :
        \/ \E q \in Quorums, expires, waits \in BOOLEAN :
               Park(t, q, expires, waits)
        \/ \E op \in Ops \ {"wait"} : ReadPending(t, op) \/ ReadDecided(t, op)
        \/ Serve(t)
        \/ DeadlinePasses(t)
        \/ Die(t)
    \/ Elapse

\* Threads are scheduled and a deadline comes; nobody has to send a request.
Fairness == \A t \in Threads : WF_vars(Serve(t)) /\ WF_vars(DeadlinePasses(t))

Spec == Init /\ [][Next]_vars /\ Fairness

-----------------------------------------------------------------------------
(* Properties. *)

Rows == [status : {"absent", "pending", "ratified", "overruled", "expired"},
         approvals : Seq(Voters), quorum : Nat \ {0}, expires : BOOLEAN]

Places ==
    [phase : {"idle", "waiting", "read", "store", "execute", "done"},
     op : Ops \cup {"none"}, seen : Rows, copy : Rows, late : BOOLEAN]

\* Row, copies and threads stay of their kind; no quorum is below 1.
TypeOK ==
    /\ row \in Rows
    /\ due \in BOOLEAN
    /\ thread \in [Threads -> Places]
    /\ enacted \in Nat
    /\ votes \in SUBSET Voters
    /\ overruled \in BOOLEAN /\ disturbed \in BOOLEAN /\ abandoned \in BOOLEAN

\* An action is executed only after as many different names have voted for it
\* as its quorum asks for: however the reads and stores of ratify, overrule,
\* wait and pending_list interleave, votes may get lost but none is made up or
\* counted twice.
QuorumBacksExecution == enacted > 0 => Cardinality(votes) >= row.quorum

\* What the queue promises holds as long as no store of ratify, overrule or an
\* expiry overwrites a row that has changed since it was read, and no thread
\* dies in between: an overrule stands and stops the action, only a ratified
\* action is executed, every vote is on the row or about to be stored, and the
\* row is ratified exactly when a quorum is on it.
ExactUnlessDisturbed ==
    ~disturbed =>
        /\ overruled => row.status = "overruled"
        /\ enacted > 0 => row.status = "ratified"
        /\ votes = Names(row.approvals) \cup
                   UNION {Names(thread[t].copy.approvals) : t \in Threads}
        /\ row.status = "ratified" <=>
               Cardinality(Names(row.approvals)) >= row.quorum

\* A ratified action is executed, unless a thread dies between the store of the
\* decision and the execution: nobody else takes that over from the row.
RatifiedIsCarriedOut == row.status = "ratified" ~> enacted > 0 \/ abandoned

\* What the queue's documentation says of an overrule: it decides the request
\* immediately, and further votes are ignored.  Two operations on one row at the
\* same time break it.
OverruleDecides == [][row.status = "overruled" => row'.status = "overruled"]_vars
=============================================================================
