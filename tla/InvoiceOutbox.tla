--------------------------- MODULE InvoiceOutbox ---------------------------
(***************************************************************************)
(* prep.InvoiceOutbox and the jobs that drain it                           *)
(* (autarch/capex/outbox_dispatcher.py, dispatch_job.py).  A job claims    *)
(* one row at a time, commits the claim before any network I/O, publishes  *)
(* the event and writes the outcome back.  Jobs are started by a schedule, *)
(* may overlap, and may be killed between any two of their steps.          *)
(*                                                                         *)
(* Time is kept relative to now, so that the model is finite without a     *)
(* horizon: every clock below is an age or a delay that Tick moves by one. *)
(* The broker is external: it is modelled by its duplicate detection,      *)
(* which drops a message whose MessageId (the EventId) it has seen less    *)
(* than DupWindow ago.                                                     *)
(***************************************************************************)
EXTENDS Integers, FiniteSets

CONSTANTS
    Events,       \* the events (one per READY package)
    Dispatchers,  \* slots for dispatch jobs that run at the same time
    MaxAttempts,  \* max_attempts
    LockTimeout,  \* lock_timeout_seconds, in ticks
    BaseRetry,    \* base_retry_seconds, in ticks
    MaxRetry,     \* max_retry_seconds, in ticks
    MaxMessages,  \* max_messages of one job
    JobTimeout,   \* replicaTimeout: a job that is older is killed, in ticks
    DupWindow,    \* the topic's duplicate detection window, in ticks
    OverdueCap,   \* bound: rows overdue for longer are not told apart
    NoEvent

ASSUME OutboxAssumption ==
    /\ MaxAttempts \in Nat \ {0}
    /\ LockTimeout \in Nat \ {0}
    /\ BaseRetry \in Nat \ {0}
    /\ MaxRetry \in Nat /\ MaxRetry >= BaseRetry
    /\ MaxMessages \in Nat \ {0}
    /\ JobTimeout \in Nat \ {0}
    /\ DupWindow \in Nat
    /\ OverdueCap \in Nat
    /\ NoEvent \notin Events

VARIABLES
    row,       \* row[e]: the outbox row of event e
    job,       \* job[d]: the dispatch job in slot d
    sends,     \* sends[e]: the attempts whose message the broker accepted
    window,    \* window[e]: ticks for which the broker still remembers e
    delivered  \* delivered[e]: copies the broker passed on to the topic

vars == <<row, job, sends, window, delivered>>
broker == <<sends, window, delivered>>

-----------------------------------------------------------------------------
Statuses == {"ABSENT", "PENDING", "PUBLISHING", "FAILED", "PUBLISHED"}

\* due is AvailableAtUtc - now, lockAge is now - LockedAtUtc (0 while NULL).
AbsentRow == [status |-> "ABSENT", attempts |-> 0, due |-> 0, lockAge |-> 0]

NoJob  == [phase |-> "off", event |-> NoEvent, attempt |-> 0,
           published |-> 0, age |-> 0]

Waiting(e)    == row[e].status \in {"PENDING", "FAILED"} /\ row[e].due <= 0
StaleClaim(e) == row[e].status = "PUBLISHING" /\ row[e].lockAge >= LockTimeout

\* A variant of a claim that leaves the claims of dead jobs alone.
UnrecoveredEligible(e) == row[e].attempts < MaxAttempts /\ Waiting(e)

Eligible(e) == row[e].attempts < MaxAttempts /\ (Waiting(e) \/ StaleClaim(e))

\* READPAST: a claim passes over the rows that open transactions of other jobs
\* have locked, one row each; they may be rolled back.
OpenTransactions(d) ==
    {c \in Dispatchers \ {d} : job[c].phase \in {"loop", "sent", "raised"}}

\* ORDER BY AvailableAtUtc; rows that became available together are taken in
\* any order.
NextInLine(d, e) ==
    /\ Eligible(e)
    /\ Cardinality({f \in Events : Eligible(f) /\ row[f].due < row[e].due})
          <= Cardinality(OpenTransactions(d))

RetryDelay(attempt) ==
    LET backoff == BaseRetry * 2^(attempt - 1)
    IN  IF backoff < MaxRetry THEN backoff ELSE MaxRetry

-----------------------------------------------------------------------------
Init ==
    /\ row = [e \in Events |-> AbsentRow]
    /\ job = [d \in Dispatchers |-> NoJob]
    /\ sends = [e \in Events |-> {}]
    /\ window = [e \in Events |-> 0]
    /\ delivered = [e \in Events |-> 0]

\* persist_invoice_package commits the READY package and its PENDING row in
\* one transaction.
Persist(e) ==
    /\ row[e].status = "ABSENT"
    /\ row' = [row EXCEPT ![e].status = "PENDING"]
    /\ UNCHANGED <<job, broker>>

StartJob(d) ==
    /\ job[d].phase = "off"
    /\ job' = [job EXCEPT ![d].phase = "loop"]
    /\ UNCHANGED <<row, broker>>

\* A variant of a claim that takes over a stale one under the old attempt number.
TakeOverClaim(d) ==
    /\ job[d].phase = "loop"
    /\ \E e \in Events :
          /\ NextInLine(d, e)
          /\ LET n == IF StaleClaim(e) THEN row[e].attempts
                      ELSE row[e].attempts + 1
             IN  /\ row' = [row EXCEPT ![e].status = "PUBLISHING",
                                       ![e].attempts = n, ![e].lockAge = 0]
                 /\ job' = [job EXCEPT ![d].phase = "claimed",
                                       ![d].event = e, ![d].attempt = n]
    /\ UNCHANGED broker

ClaimNext(d) ==
    /\ job[d].phase = "loop"
    /\ \E e \in Events :
          /\ NextInLine(d, e)
          /\ row' = [row EXCEPT ![e].status = "PUBLISHING",
                                ![e].attempts = @ + 1,
                                ![e].lockAge = 0]
          /\ job' = [job EXCEPT ![d].phase = "claimed",
                                ![d].event = e,
                                ![d].attempt = row[e].attempts + 1]
    /\ UNCHANGED broker

\* Nothing is eligible and unlocked: run_dispatch_job leaves its loop.
ClaimNothing(d) ==
    /\ job[d].phase = "loop"
    /\ Cardinality({e \in Events : Eligible(e)})
          <= Cardinality(OpenTransactions(d))
    /\ job' = [job EXCEPT ![d] = NoJob]
    /\ UNCHANGED <<row, broker>>

\* The broker takes the message of one attempt, and passes it on unless it
\* remembers the EventId.
BrokerAccepts(e, attempt) ==
    /\ sends' = [sends EXCEPT ![e] = @ \union {attempt}]
    /\ IF window[e] = 0
       THEN /\ delivered' = [delivered EXCEPT ![e] = @ + 1]
            /\ window' = [window EXCEPT ![e] = DupWindow]
       ELSE UNCHANGED <<delivered, window>>

PublishReturns(d) ==
    /\ job[d].phase = "claimed"
    /\ BrokerAccepts(job[d].event, job[d].attempt)
    /\ job' = [job EXCEPT ![d].phase = "sent"]
    /\ UNCHANGED row

\* Validation or the send raises; when it is the send, the broker may have
\* accepted the message before the error.
PublishRaises(d) ==
    /\ job[d].phase = "claimed"
    /\ \/ BrokerAccepts(job[d].event, job[d].attempt)
       \/ UNCHANGED broker
    /\ job' = [job EXCEPT ![d].phase = "raised"]
    /\ UNCHANGED row

\* The batch loop goes on until max_messages were published.
AfterPublished(d) ==
    IF job[d].published + 1 < MaxMessages
    THEN [NoJob EXCEPT !.phase = "loop", !.age = job[d].age,
                       !.published = job[d].published + 1]
    ELSE NoJob

\* A variant of a mark that does not look at the status it overwrites.

BlindMarkFailed(d) ==
    /\ job[d].phase = "raised"
    /\ row' = [row EXCEPT ![job[d].event].status = "FAILED",
                          ![job[d].event].lockAge = 0,
                          ![job[d].event].due = RetryDelay(job[d].attempt)]
    /\ job' = [job EXCEPT ![d] = NoJob]
    /\ UNCHANGED broker

MarkPublished(d) ==
    /\ job[d].phase = "sent"
    /\ row[job[d].event].status = "PUBLISHING"
    /\ row' = [row EXCEPT ![job[d].event].status = "PUBLISHED",
                          ![job[d].event].lockAge = 0]
    /\ job' = [job EXCEPT ![d] = AfterPublished(d)]
    /\ UNCHANGED broker

\* Every failure raises OutboxDispatchError, which ends the job.
MarkFailed(d) ==
    /\ job[d].phase = "raised"
    /\ row[job[d].event].status = "PUBLISHING"
    /\ row' = [row EXCEPT ![job[d].event].status = "FAILED",
                          ![job[d].event].lockAge = 0,
                          ![job[d].event].due = RetryDelay(job[d].attempt)]
    /\ job' = [job EXCEPT ![d] = NoJob]
    /\ UNCHANGED broker

\* THROW 51040 / 51041: another job has moved the row out of PUBLISHING.
MarkRefused(d) ==
    /\ job[d].phase \in {"sent", "raised"}
    /\ row[job[d].event].status # "PUBLISHING"
    /\ job' = [job EXCEPT ![d] = NoJob]
    /\ UNCHANGED <<row, broker>>

\* The replica is killed or loses the database: whatever transaction was open
\* is rolled back, and what was committed stays.
Crash(d) ==
    /\ job[d].phase # "off"
    /\ job' = [job EXCEPT ![d] = NoJob]
    /\ UNCHANGED <<row, broker>>

Older(r) ==
    [r EXCEPT !.due = IF @ > -OverdueCap THEN @ - 1 ELSE @,
              !.lockAge = IF r.status = "PUBLISHING" /\ @ < LockTimeout
                          THEN @ + 1 ELSE @]

\* A tick passes; no job lives to see a tick after its JobTimeout.
Tick ==
    /\ \A d \in Dispatchers : job[d].phase # "off" => job[d].age < JobTimeout
    /\ job' = [d \in Dispatchers |->
                 IF job[d].phase = "off" THEN job[d]
                 ELSE [job[d] EXCEPT !.age = @ + 1]]
    /\ row' = [e \in Events |->
                 IF row[e].status \in {"ABSENT", "PUBLISHED"}
                 THEN row[e] ELSE Older(row[e])]
    /\ window' = [e \in Events |->
                    IF window[e] > 0 THEN window[e] - 1 ELSE 0]
    /\ UNCHANGED <<sends, delivered>>

JobStep(d) ==
    \/ ClaimNothing(d)
    \/ PublishReturns(d)
    \/ PublishRaises(d)
    \/ MarkPublished(d)
    \/ MarkFailed(d)
    \/ MarkRefused(d)

Next ==
    \/ \E e \in Events : Persist(e)
    \/ \E d \in Dispatchers :
          StartJob(d) \/ ClaimNext(d) \/ JobStep(d) \/ Crash(d)
    \/ Tick

Spec == Init /\ [][Next]_vars

(***************************************************************************)
(* The schedule keeps starting jobs, time passes and a running job goes on *)
(* unless it is killed.  A job that can claim is not killed every single   *)
(* time before its first claim commits (strong fairness of ClaimNext).     *)
(***************************************************************************)
FairSpec ==
    /\ Spec
    /\ WF_vars(Tick)
    /\ \A d \in Dispatchers :
          /\ WF_vars(StartJob(d))
          /\ SF_vars(ClaimNext(d))
          /\ WF_vars(JobStep(d))

-----------------------------------------------------------------------------
Row == [status : Statuses, attempts : 0..MaxAttempts,
        due : Int, lockAge : 0..LockTimeout]

Job == [phase : {"off", "loop", "claimed", "sent", "raised"},
        event : Events \union {NoEvent},
        attempt : 0..MaxAttempts,
        published : 0..MaxMessages,
        age : 0..JobTimeout]

\* Rows, jobs and the broker's books hold values of their kind, and no row is
\* attempted more than max_attempts times.
TypeOK ==
    /\ row \in [Events -> Row]
    /\ job \in [Dispatchers -> Job]
    /\ sends \in [Events -> SUBSET (1..MaxAttempts)]
    /\ window \in [Events -> 0..DupWindow]
    /\ delivered \in [Events -> Nat]

Holding(d) == job[d].phase \in {"claimed", "sent", "raised"}
OpenAttempt(d) == job[d].phase = "claimed"

\* PUBLISHED is never a lie: whichever job wrote it, the broker had accepted
\* the event - also when the job's claim went stale and another job holds a
\* newer one, or the row was released and claimed again in between.
PublishedWasAccepted ==
    \A e \in Events : row[e].status = "PUBLISHED" => sends[e] # {}

\* Two jobs may hold the same row at once (the older claim is stale), but never
\* under the same attempt number, and an attempt that is still to be sent is not
\* among those sent: each attempt the row counts is one send at most.
AttemptsAreExclusive ==
    /\ \A d \in Dispatchers : OpenAttempt(d) =>
          job[d].attempt \notin sends[job[d].event]
    /\ \A c, d \in Dispatchers :
          /\ c # d /\ Holding(c) /\ Holding(d)
          /\ job[c].event = job[d].event
          => job[c].attempt # job[d].attempt

\* A send is charged to the row before it happens: the broker never accepts
\* more copies than AttemptCount says, so never more than max_attempts.
SendsAreCharged ==
    \A e \in Events : sends[e] \subseteq 1..row[e].attempts

\* No step takes a row out of PUBLISHED or attempts it again, not even the late
\* mark of a job whose claim went stale.
PublishedIsFinal ==
    [][\A e \in Events : row[e].status = "PUBLISHED" => row'[e] = row[e]]_vars

\* Every stored event is published or uses up its attempts.
Settled(e) == row[e].status = "PUBLISHED" \/ row[e].attempts = MaxAttempts
EventsSettle ==
    \A e \in Events : (row[e].status # "ABSENT") ~> Settled(e)

\* The table implements the abstract promise of the outbox.
Delivery == INSTANCE EventDelivery WITH
    stage <- [e \in Events |->
                CASE row[e].status = "ABSENT" -> "absent"
                  [] row[e].status = "PUBLISHED" -> "published"
                  [] OTHER -> "stored"],
    accepted <- sends
ImplementsDelivery == Delivery!Spec
=============================================================================
