---------------------------- MODULE CapexProofs ----------------------------
(***************************************************************************)
(* Proofs about the CapEx pipeline: the outbox and its dispatchers, for    *)
(* every number of events and overlapping jobs and every setting of the    *)
(* limits and clocks; and the way from a ZIP to a suggestion over it, for  *)
(* any runs, ZIPs, invoices, task codes and invocations at the same time.  *)
(***************************************************************************)
EXTENDS InvoiceOutbox, CapexPipeline, FiniteSetTheorems, TLAPS

-----------------------------------------------------------------------------
(* The outbox: jobs, rows and sends. *)

\* What a job remembers of its claim agrees with the row: the row is stored and
\* has counted the attempt, and a job whose publish returned was accepted.
HoldersAgree ==
    \A d \in Dispatchers : Holding(d) =>
        /\ job[d].event \in Events
        /\ job[d].attempt \in 1..row[job[d].event].attempts
        /\ row[job[d].event].status # "ABSENT"
        /\ job[d].phase = "sent" => job[d].attempt \in sends[job[d].event]

\* The inductive invariant of the outbox.
IInv ==
    /\ TypeOK
    /\ HoldersAgree
    /\ PublishedWasAccepted
    /\ AttemptsAreExclusive
    /\ SendsAreCharged

\* The retry delay is a number of ticks.
LEMMA RetryDelayInt ==
    ASSUME NEW a \in 0..MaxAttempts PROVE RetryDelay(a) \in Int
  BY OutboxAssumption DEF RetryDelay

\* What the broker's answer leaves well typed, whether or not it remembers e.
LEMMA BrokerType ==
    ASSUME TypeOK, NEW e \in Events, NEW a \in 1..MaxAttempts,
           BrokerAccepts(e, a)
    PROVE  /\ sends' \in [Events -> SUBSET (1..MaxAttempts)]
           /\ window' \in [Events -> 0..DupWindow]
           /\ delivered' \in [Events -> Nat]
  <1>1. CASE window[e] = 0
    BY <1>1, OutboxAssumption DEF TypeOK, BrokerAccepts
  <1>2. CASE window[e] # 0
    BY <1>2 DEF TypeOK, BrokerAccepts
  <1>3. QED BY <1>1, <1>2

\* The invariant holds before the first package is stored.
LEMMA InitIInv == Init => IInv
  <1>1. SUFFICES ASSUME Init PROVE IInv
    OBVIOUS
  <1>2. TypeOK
    BY <1>1, OutboxAssumption
    DEF Init, TypeOK, Row, Job, AbsentRow, NoJob, Statuses
  <1>3. \A d \in Dispatchers : ~Holding(d) /\ ~OpenAttempt(d)
    BY <1>1 DEF Init, NoJob, Holding, OpenAttempt
  <1>4. HoldersAgree /\ AttemptsAreExclusive
    BY <1>3 DEF HoldersAgree, AttemptsAreExclusive
  <1>5. PublishedWasAccepted /\ SendsAreCharged
    BY <1>1 DEF Init, AbsentRow, PublishedWasAccepted, SendsAreCharged
  <1>6. QED BY <1>2, <1>4, <1>5 DEF IInv

-----------------------------------------------------------------------------
(* The outbox: one lemma per kind of step. *)

LEMMA PersistKeeps ==
    ASSUME IInv, NEW e \in Events, Persist(e) PROVE IInv'
  <1>1. TypeOK'
    BY DEF IInv, TypeOK, Persist, Row, Statuses, broker
  <1>2. (PublishedWasAccepted /\ SendsAreCharged)'
    BY DEF IInv, TypeOK, Row, Persist, broker, PublishedWasAccepted,
           SendsAreCharged
  <1>3. HoldersAgree'
    BY DEF IInv, TypeOK, Row, Job, Persist, broker, HoldersAgree, Holding
  <1>4. AttemptsAreExclusive'
    BY DEF IInv, Persist, broker, AttemptsAreExclusive, Holding, OpenAttempt
  <1>5. QED BY <1>1, <1>2, <1>3, <1>4 DEF IInv

\* Steps that only end, start or age jobs: no job holds more than before.
LEMMA ReleaseKeeps ==
    ASSUME IInv, NEW d \in Dispatchers,
           StartJob(d) \/ ClaimNothing(d) \/ MarkRefused(d) \/ Crash(d)
    PROVE  IInv'
  <1>1. /\ job' \in [Dispatchers -> Job]
        /\ UNCHANGED <<row, broker>>
        /\ \A c \in Dispatchers : c # d => job'[c] = job[c]
        /\ job'[d].phase \in {"off", "loop"}
    BY OutboxAssumption
    DEF IInv, TypeOK, Job, NoJob, StartJob, ClaimNothing, MarkRefused, Crash
  <1>2. TypeOK'
    BY <1>1 DEF IInv, TypeOK, broker
  <1>3. (PublishedWasAccepted /\ SendsAreCharged)'
    BY <1>1 DEF IInv, broker, PublishedWasAccepted, SendsAreCharged
  <1>4. HoldersAgree'
    BY <1>1 DEF IInv, broker, HoldersAgree, Holding
  <1>5. AttemptsAreExclusive'
    BY <1>1 DEF IInv, broker, AttemptsAreExclusive, Holding, OpenAttempt
  <1>6. QED BY <1>2, <1>3, <1>4, <1>5 DEF IInv

\* The new attempt number is above every number the row has counted, so above
\* those of other holders and of every send.
LEMMA ClaimKeeps ==
    ASSUME IInv, NEW d \in Dispatchers, ClaimNext(d) PROVE IInv'
  <1>1. PICK e \in Events :
          /\ NextInLine(d, e)
          /\ row' = [row EXCEPT ![e].status = "PUBLISHING",
                                ![e].attempts = @ + 1,
                                ![e].lockAge = 0]
          /\ job' = [job EXCEPT ![d].phase = "claimed",
                                ![d].event = e,
                                ![d].attempt = row[e].attempts + 1]
    BY DEF ClaimNext
  <1>2. /\ row[e].attempts + 1 \in 1..MaxAttempts
        /\ row[e].status \notin {"ABSENT", "PUBLISHED"}
    BY <1>1, OutboxAssumption
    DEF NextInLine, Eligible, Waiting, StaleClaim, IInv, TypeOK, Row
  <1>3. UNCHANGED broker
    BY DEF ClaimNext
  <1>4. TypeOK'
    <2>1. row' \in [Events -> Row]
      BY <1>1, <1>2, OutboxAssumption DEF IInv, TypeOK, Row, Statuses
    <2>2. ASSUME NEW c \in Dispatchers PROVE job'[c] \in Job
      <3>1. job \in [Dispatchers -> Job]
        BY DEF IInv, TypeOK
      <3>2. CASE c = d
        <4>1. job'[c] = [job[c] EXCEPT !.phase = "claimed", !.event = e,
                                       !.attempt = row[e].attempts + 1]
          BY <1>1, <3>1, <3>2
        <4>2. row[e].attempts + 1 \in 0..MaxAttempts
          BY <1>2, OutboxAssumption
        <4>3. QED BY <3>1, <4>1, <4>2 DEF Job
      <3>3. CASE c # d
        BY <1>1, <3>1, <3>3
      <3>4. QED BY <3>2, <3>3
    <2>3. job' \in [Dispatchers -> Job]
      BY <1>1, <2>2 DEF IInv, TypeOK
    <2>4. QED BY <2>1, <2>3, <1>3 DEF IInv, TypeOK, broker
  <1>5. /\ \A f \in Events : row'[f].attempts >= row[f].attempts
        /\ \A f \in Events : f # e => row'[f] = row[f]
        /\ row'[e].status = "PUBLISHING"
        /\ row'[e].attempts = row[e].attempts + 1
    BY <1>1 DEF IInv, TypeOK, Row
  <1>6. /\ \A c \in Dispatchers : c # d => job'[c] = job[c]
        /\ job'[d].phase = "claimed" /\ job'[d].event = e
        /\ job'[d].attempt = row[e].attempts + 1
    BY <1>1 DEF IInv, TypeOK, Job
  <1>7. PublishedWasAccepted'
    BY <1>3, <1>5 DEF IInv, broker, PublishedWasAccepted
  <1>8. SendsAreCharged'
    BY <1>3, <1>4, <1>5 DEF IInv, TypeOK, Row, broker, SendsAreCharged
  <1>9. HoldersAgree'
    <2>1. SUFFICES ASSUME NEW c \in Dispatchers, Holding(c)'
                   PROVE /\ job'[c].event \in Events
                         /\ job'[c].attempt \in 1..row'[job'[c].event].attempts
                         /\ row'[job'[c].event].status # "ABSENT"
                         /\ job'[c].phase = "sent" =>
                              job'[c].attempt \in sends'[job'[c].event]
      BY DEF HoldersAgree
    <2>2. CASE c = d
      BY <2>2, <1>2, <1>5, <1>6 DEF IInv, TypeOK, Row
    <2>3. CASE c # d
      <3>1. job'[c] = job[c] /\ Holding(c)
        BY <2>1, <2>3, <1>6 DEF Holding
      <3>2. /\ job[c].event \in Events
            /\ job[c].attempt \in 1..row[job[c].event].attempts
            /\ row[job[c].event].status # "ABSENT"
            /\ job[c].phase = "sent" => job[c].attempt \in sends[job[c].event]
        BY <3>1 DEF IInv, HoldersAgree
      <3>3. row'[job[c].event].status # "ABSENT"
        BY <3>2, <1>5
      <3>4. job[c].attempt \in 1..row'[job[c].event].attempts
        BY <3>2, <1>4, <1>5 DEF IInv, TypeOK, Row
      <3>5. QED BY <3>1, <3>2, <3>3, <3>4, <1>3 DEF broker
    <2>4. QED BY <2>2, <2>3
  <1>10. AttemptsAreExclusive'
    <2>1. ASSUME NEW c \in Dispatchers, OpenAttempt(c)'
          PROVE  job'[c].attempt \notin sends'[job'[c].event]
      <3>1. CASE c = d
        BY <3>1, <1>3, <1>6 DEF IInv, TypeOK, Row, broker, SendsAreCharged
      <3>2. CASE c # d
        BY <2>1, <3>2, <1>3, <1>6
        DEF IInv, broker, AttemptsAreExclusive, OpenAttempt
      <3>3. QED BY <3>1, <3>2
    <2>2. ASSUME NEW b \in Dispatchers, NEW c \in Dispatchers, b # c,
                 Holding(b)', Holding(c)', job'[b].event = job'[c].event
          PROVE  job'[b].attempt # job'[c].attempt
      <3>1. CASE b # d /\ c # d
        BY <2>2, <3>1, <1>6 DEF IInv, AttemptsAreExclusive, Holding
      <3>2. ASSUME NEW o \in Dispatchers, o # d, Holding(o)',
                   job'[o].event = e
            PROVE  job'[o].attempt # job'[d].attempt
        <4>1. job'[o] = job[o] /\ Holding(o)
          BY <3>2, <1>6 DEF Holding
        <4>2. job[o].attempt \in 1..row[e].attempts
          BY <3>2, <4>1 DEF IInv, HoldersAgree
        <4>3. QED BY <4>1, <4>2, <1>6 DEF IInv, TypeOK, Row
      <3>3. QED BY <2>2, <3>1, <3>2, <1>6
    <2>3. QED BY <2>1, <2>2 DEF AttemptsAreExclusive
  <1>11. QED BY <1>4, <1>7, <1>8, <1>9, <1>10 DEF IInv

\* A send, whether publish then returns or raises, and whether or not the
\* broker took the message when it raises.
LEMMA PublishKeeps ==
    ASSUME IInv, NEW d \in Dispatchers, PublishReturns(d) \/ PublishRaises(d)
    PROVE  IInv'
  <1> DEFINE e == job[d].event
             a == job[d].attempt
  <1>1. /\ Holding(d) /\ OpenAttempt(d)
        /\ UNCHANGED row
        /\ \/ /\ job' = [job EXCEPT ![d].phase = "sent"]
              /\ BrokerAccepts(e, a)
           \/ /\ job' = [job EXCEPT ![d].phase = "raised"]
              /\ BrokerAccepts(e, a) \/ UNCHANGED broker
    BY DEF PublishReturns, PublishRaises, Holding, OpenAttempt
  <1>2. /\ e \in Events
        /\ a \in 1..row[e].attempts
        /\ a \in 1..MaxAttempts
        /\ row[e].status # "ABSENT"
    <2>1. /\ e \in Events
          /\ a \in 1..row[e].attempts
          /\ row[e].status # "ABSENT"
      BY <1>1 DEF IInv, HoldersAgree
    <2>2. row[e].attempts \in 0..MaxAttempts
      BY <2>1 DEF IInv, TypeOK, Row
    <2>3. QED BY <2>1, <2>2, OutboxAssumption
  <1>3. /\ job'[d].phase \in {"sent", "raised"}
        /\ job'[d].event = e /\ job'[d].attempt = a
        /\ \A c \in Dispatchers : c # d => job'[c] = job[c]
        /\ job' \in [Dispatchers -> Job]
    BY <1>1 DEF IInv, TypeOK, Job
  <1>4. /\ sends' \in [Events -> SUBSET (1..MaxAttempts)]
        /\ window' \in [Events -> 0..DupWindow]
        /\ delivered' \in [Events -> Nat]
    BY <1>1, <1>2, BrokerType DEF IInv, TypeOK, broker
  <1>5. /\ \A f \in Events : sends[f] \subseteq sends'[f]
        /\ \A f \in Events : f # e => sends'[f] = sends[f]
        /\ sends'[e] \subseteq sends[e] \union {a}
        /\ job'[d].phase = "sent" => a \in sends'[e]
    <2>1. sends \in [Events -> SUBSET (1..MaxAttempts)]
      BY DEF IInv, TypeOK
    <2>2. CASE BrokerAccepts(e, a)
      <3>1. sends' = [sends EXCEPT ![e] = sends[e] \union {a}]
        BY <2>2 DEF BrokerAccepts
      <3>2. QED BY <1>2, <2>1, <3>1
    <2>3. CASE UNCHANGED broker /\ PublishRaises(d)
      <3>1. job'[d].phase = "raised"
        BY <2>3 DEF PublishRaises, IInv, TypeOK, Job
      <3>2. QED BY <2>3, <3>1 DEF broker
    <2>4. BrokerAccepts(e, a) \/ (UNCHANGED broker /\ PublishRaises(d))
      BY DEF PublishReturns, PublishRaises
    <2>5. QED BY <2>2, <2>3, <2>4
  <1>6. TypeOK'
    BY <1>1, <1>3, <1>4 DEF IInv, TypeOK
  <1>7. PublishedWasAccepted'
    BY <1>1, <1>5 DEF IInv, PublishedWasAccepted
  <1>8. SendsAreCharged'
    <2>1. ASSUME NEW f \in Events PROVE sends'[f] \subseteq 1..row[f].attempts
      <3>1. sends[f] \subseteq 1..row[f].attempts
        BY DEF IInv, SendsAreCharged
      <3>2. CASE f = e
        BY <3>1, <3>2, <1>2, <1>5
      <3>3. CASE f # e
        BY <3>1, <3>3, <1>5
      <3>4. QED BY <3>2, <3>3
    <2>2. QED BY <2>1, <1>1 DEF SendsAreCharged
  <1>9. HoldersAgree'
    <2>1. SUFFICES ASSUME NEW c \in Dispatchers, Holding(c)'
                   PROVE /\ job'[c].event \in Events
                         /\ job'[c].attempt \in 1..row[job'[c].event].attempts
                         /\ row[job'[c].event].status # "ABSENT"
                         /\ job'[c].phase = "sent" =>
                              job'[c].attempt \in sends'[job'[c].event]
      BY <1>1 DEF HoldersAgree
    <2>2. CASE c = d
      BY <2>2, <1>2, <1>3, <1>5
    <2>3. CASE c # d
      BY <2>1, <2>3, <1>3, <1>5 DEF IInv, HoldersAgree, Holding
    <2>4. QED BY <2>2, <2>3
  <1>10. AttemptsAreExclusive'
    <2>1. ASSUME NEW c \in Dispatchers, OpenAttempt(c)'
          PROVE  job'[c].attempt \notin sends'[job'[c].event]
      <3>1. c # d /\ job'[c] = job[c] /\ OpenAttempt(c) /\ Holding(c)
        BY <2>1, <1>3 DEF OpenAttempt, Holding
      <3>2. /\ job[c].event \in Events
            /\ job[c].attempt \notin sends[job[c].event]
            /\ job[c].event = e => job[c].attempt # a
        BY <3>1, <1>1 DEF IInv, HoldersAgree, AttemptsAreExclusive
      <3>3. QED BY <3>1, <3>2, <1>5
    <2>2. ASSUME NEW b \in Dispatchers, NEW c \in Dispatchers, b # c,
                 Holding(b)', Holding(c)', job'[b].event = job'[c].event
          PROVE  job'[b].attempt # job'[c].attempt
      <3>1. \A o \in Dispatchers :
               /\ Holding(o)' => Holding(o)
               /\ job'[o].event = job[o].event
               /\ job'[o].attempt = job[o].attempt
        BY <1>1, <1>3 DEF Holding
      <3>2. QED BY <2>2, <3>1 DEF IInv, AttemptsAreExclusive
    <2>3. QED BY <2>1, <2>2 DEF AttemptsAreExclusive
  <1>11. QED BY <1>6, <1>7, <1>8, <1>9, <1>10 DEF IInv

\* The marks write the row a job holds, then let go of it.  Another job may
\* hold the same row under another attempt: it keeps agreeing with the row.
LEMMA MarkKeeps ==
    ASSUME IInv, NEW d \in Dispatchers, MarkPublished(d) \/ MarkFailed(d)
    PROVE  IInv'
  <1> DEFINE e == job[d].event
  <1>1. /\ Holding(d)
        /\ UNCHANGED broker
        /\ \/ job[d].phase = "sent" /\ MarkPublished(d)
           \/ job[d].phase = "raised" /\ MarkFailed(d)
    BY DEF MarkPublished, MarkFailed, Holding
  <1>2. /\ e \in Events
        /\ job[d].attempt \in 0..MaxAttempts
        /\ job[d].phase = "sent" => sends[e] # {}
    BY <1>1 DEF IInv, HoldersAgree, TypeOK, Job
  <1>3. RetryDelay(job[d].attempt) \in Int
    BY <1>2, RetryDelayInt
  <1>4. row' \in [Events -> Row]
    <2>1. row[e] \in Row /\ 0 \in 0..LockTimeout
      BY <1>2, OutboxAssumption DEF IInv, TypeOK
    <2>2. CASE MarkPublished(d)
      BY <2>1, <2>2, <1>2 DEF IInv, TypeOK, Row, Statuses, MarkPublished
    <2>3. CASE MarkFailed(d)
      BY <2>1, <2>3, <1>2, <1>3 DEF IInv, TypeOK, Row, Statuses, MarkFailed
    <2>4. QED BY <1>1, <2>2, <2>3
  <1>5. /\ \A f \in Events : f # e => row'[f] = row[f]
        /\ row'[e].attempts = row[e].attempts
        /\ row'[e].status = "FAILED" \/ row'[e].status = "PUBLISHED"
        /\ row'[e].status = "PUBLISHED" => sends[e] # {}
    <2>1. CASE MarkPublished(d)
      BY <2>1, <1>1, <1>2 DEF IInv, TypeOK, Row, MarkPublished
    <2>2. CASE MarkFailed(d)
      BY <2>2, <1>1, <1>2 DEF IInv, TypeOK, Row, MarkFailed
    <2>3. QED BY <2>1, <2>2
  <1>6. /\ job' \in [Dispatchers -> Job]
        /\ \A c \in Dispatchers : c # d => job'[c] = job[c]
        /\ job'[d].phase \in {"off", "loop"}
    <2>1. /\ NoJob \in Job
          /\ AfterPublished(d) \in Job
          /\ NoJob.phase = "off"
          /\ AfterPublished(d).phase \in {"off", "loop"}
      <3>1. NoJob \in Job /\ NoJob.phase = "off"
        BY OutboxAssumption DEF Job, NoJob
      <3>2. job[d].published \in Nat /\ job[d].age \in 0..JobTimeout
        BY OutboxAssumption DEF IInv, TypeOK, Job
      <3>3. CASE job[d].published + 1 < MaxMessages
        <4>1. AfterPublished(d) =
                [phase |-> "loop", event |-> NoEvent, attempt |-> 0,
                 published |-> job[d].published + 1, age |-> job[d].age]
          BY <3>3 DEF AfterPublished, NoJob
        <4>2. job[d].published + 1 \in 0..MaxMessages /\ 0 \in 0..MaxAttempts
          BY <3>2, <3>3, OutboxAssumption
        <4>3. AfterPublished(d) \in Job /\ AfterPublished(d).phase = "loop"
          BY <4>1, <4>2, <3>2 DEF Job
        <4>4. QED BY <4>3, <3>1
      <3>4. CASE ~(job[d].published + 1 < MaxMessages)
        BY <3>1, <3>4 DEF AfterPublished
      <3>5. QED BY <3>1, <3>3, <3>4
    <2>2. CASE MarkPublished(d)
      BY <2>1, <2>2 DEF IInv, TypeOK, MarkPublished
    <2>3. CASE MarkFailed(d)
      BY <2>1, <2>3 DEF IInv, TypeOK, MarkFailed
    <2>4. QED BY <2>2, <2>3
  <1>7. TypeOK'
    BY <1>1, <1>4, <1>6 DEF IInv, TypeOK, broker
  <1>8. PublishedWasAccepted'
    BY <1>1, <1>5 DEF IInv, PublishedWasAccepted, broker
  <1>9. SendsAreCharged'
    <2>1. \A f \in Events : row'[f].attempts = row[f].attempts
      BY <1>5
    <2>2. QED BY <1>1, <2>1 DEF IInv, SendsAreCharged, broker
  <1>10. HoldersAgree'
    BY <1>1, <1>5, <1>6 DEF IInv, HoldersAgree, Holding, broker
  <1>11. AttemptsAreExclusive'
    BY <1>1, <1>6
    DEF IInv, AttemptsAreExclusive, Holding, OpenAttempt, broker
  <1>12. QED BY <1>7, <1>8, <1>9, <1>10, <1>11 DEF IInv

\* Time moves the clocks and nothing the other conjuncts read.
LEMMA TickKeeps == ASSUME IInv, Tick PROVE IInv'
  <1>1. row' \in [Events -> Row]
    <2>1. ASSUME NEW r \in Row PROVE Older(r) \in Row
      <3>1. /\ r.due \in Int /\ r.due - 1 \in Int
            /\ r.lockAge < LockTimeout => r.lockAge + 1 \in 0..LockTimeout
        BY OutboxAssumption DEF Row
      <3>2. QED BY <3>1 DEF Older, Row
    <2>2. QED BY <2>1 DEF IInv, TypeOK, Tick
  <1>2. \A e \in Events : /\ row'[e].status = row[e].status
                          /\ row'[e].attempts = row[e].attempts
    BY DEF IInv, TypeOK, Row, Tick, Older
  <1>3. job' \in [Dispatchers -> Job]
    <2>1. ASSUME NEW d \in Dispatchers PROVE job'[d] \in Job
      <3>1. job[d] \in Job
        BY DEF IInv, TypeOK
      <3>2. CASE job[d].phase = "off"
        BY <3>1, <3>2 DEF Tick
      <3>3. CASE job[d].phase # "off"
        <4>1. job'[d] = [job[d] EXCEPT !.age = @ + 1]
          BY <3>3 DEF Tick
        <4>2. job[d].age \in 0..JobTimeout /\ job[d].age < JobTimeout
          BY <3>1, <3>3 DEF Tick, Job
        <4>3. job[d].age + 1 \in 0..JobTimeout
          BY <4>2, OutboxAssumption
        <4>4. QED BY <3>1, <4>1, <4>3 DEF Job
      <3>4. QED BY <3>2, <3>3
    <2>2. QED BY <2>1 DEF Tick
  <1>4. \A d \in Dispatchers : /\ job'[d].phase = job[d].phase
                               /\ job'[d].event = job[d].event
                               /\ job'[d].attempt = job[d].attempt
    BY DEF IInv, TypeOK, Job, Tick
  <1>5. UNCHANGED <<sends, delivered>> /\ window' \in [Events -> 0..DupWindow]
    BY OutboxAssumption DEF IInv, TypeOK, Tick
  <1>6. TypeOK'
    BY <1>1, <1>3, <1>5 DEF IInv, TypeOK
  <1>7. PublishedWasAccepted' /\ SendsAreCharged'
    BY <1>2, <1>5 DEF IInv, PublishedWasAccepted, SendsAreCharged
  <1>8. HoldersAgree'
    BY <1>2, <1>4, <1>5 DEF IInv, HoldersAgree, Holding
  <1>9. AttemptsAreExclusive'
    BY <1>4, <1>5 DEF IInv, AttemptsAreExclusive, Holding, OpenAttempt
  <1>10. QED BY <1>6, <1>7, <1>8, <1>9 DEF IInv

\* The invariant is inductive.
LEMMA StepIInv == IInv /\ [Next]_vars => IInv'
  <1> SUFFICES ASSUME IInv, [Next]_vars PROVE IInv'
    OBVIOUS
  <1>1. CASE \E e \in Events : Persist(e)
    BY <1>1, PersistKeeps
  <1>2. ASSUME NEW d \in Dispatchers,
               StartJob(d) \/ ClaimNext(d) \/ JobStep(d) \/ Crash(d)
        PROVE  IInv'
    BY <1>2, ReleaseKeeps, ClaimKeeps, PublishKeeps, MarkKeeps DEF JobStep
  <1>3. CASE Tick
    BY <1>3, TickKeeps
  <1>4. CASE UNCHANGED vars
    BY <1>4
    DEF vars, IInv, TypeOK, HoldersAgree, PublishedWasAccepted,
        AttemptsAreExclusive, SendsAreCharged, Holding, OpenAttempt
  <1>5. QED BY <1>1, <1>2, <1>3, <1>4 DEF Next

-----------------------------------------------------------------------------
\* Rows, jobs and the broker's books hold values of their kind; in particular
\* the claims of overlapping jobs never push AttemptCount over max_attempts.
THEOREM TypeCorrect == Spec => []TypeOK
  <1>1. IInv => TypeOK
    BY DEF IInv
  <1>2. QED BY InitIInv, StepIInv, <1>1, PTL DEF Spec

\* A row marked PUBLISHED stands for an event the broker has accepted, however
\* many jobs held the row and in whatever order they marked it.
THEOREM PublishedMeansAccepted == Spec => []PublishedWasAccepted
  <1>1. IInv => PublishedWasAccepted
    BY DEF IInv
  <1>2. QED BY InitIInv, StepIInv, <1>1, PTL DEF Spec

\* No two jobs send under the same attempt number, and no attempt is sent twice.
THEOREM ExclusiveAttempts == Spec => []AttemptsAreExclusive
  <1>1. IInv => AttemptsAreExclusive
    BY DEF IInv
  <1>2. QED BY InitIInv, StepIInv, <1>1, PTL DEF Spec

\* The broker never accepts a copy that AttemptCount has not counted.
THEOREM ChargedSends == Spec => []SendsAreCharged
  <1>1. IInv => SendsAreCharged
    BY DEF IInv
  <1>2. QED BY InitIInv, StepIInv, <1>1, PTL DEF Spec

\* PUBLISHED is final: claims skip the row, and the marks of jobs whose claim
\* went stale are refused by the row's status.
THEOREM PublishedStays == Spec => PublishedIsFinal
  <1>1. ASSUME IInv, [Next]_vars, NEW e \in Events, row[e].status = "PUBLISHED"
        PROVE  row'[e] = row[e]
    <2>1. CASE \E f \in Events : Persist(f)
      BY <1>1, <2>1 DEF Persist, IInv, TypeOK
    <2>2. ASSUME NEW d \in Dispatchers, ClaimNext(d) PROVE row'[e] = row[e]
      BY <1>1, <2>2
      DEF ClaimNext, NextInLine, Eligible, Waiting, StaleClaim, IInv, TypeOK
    <2>3. ASSUME NEW d \in Dispatchers, MarkPublished(d) \/ MarkFailed(d)
          PROVE  row'[e] = row[e]
      <3>1. job[d].event # e
        BY <1>1, <2>3 DEF MarkPublished, MarkFailed
      <3>2. CASE MarkPublished(d)
        BY <1>1, <3>1, <3>2 DEF MarkPublished, IInv, TypeOK
      <3>3. CASE MarkFailed(d)
        BY <1>1, <3>1, <3>3 DEF MarkFailed, IInv, TypeOK
      <3>4. QED BY <2>3, <3>2, <3>3
    <2>4. ASSUME NEW d \in Dispatchers,
                 \/ StartJob(d) \/ ClaimNothing(d) \/ MarkRefused(d)
                 \/ Crash(d) \/ PublishReturns(d) \/ PublishRaises(d)
          PROVE  row'[e] = row[e]
      BY <2>4 DEF StartJob, ClaimNothing, MarkRefused, Crash, PublishReturns,
                  PublishRaises
    <2>5. CASE Tick
      BY <1>1, <2>5 DEF Tick
    <2>6. CASE UNCHANGED vars
      BY <2>6 DEF vars
    <2>7. QED BY <1>1, <2>1, <2>2, <2>3, <2>4, <2>5, <2>6 DEF Next, JobStep
  <1>2. IInv /\ [Next]_vars =>
          [\A e \in Events : row[e].status = "PUBLISHED"
                               => row'[e] = row[e]]_vars
    BY <1>1
  <1>3. QED BY InitIInv, StepIInv, <1>2, PTL DEF Spec, PublishedIsFinal

-----------------------------------------------------------------------------
\* The outbox keeps the abstract promise: events are stored once, accepted at
\* most once per attempt, and called published for good after an acceptance.
THEOREM OutboxDelivers == Spec => ImplementsDelivery
  <1> DEFINE stages == [e \in Events |->
                CASE row[e].status = "ABSENT" -> "absent"
                  [] row[e].status = "PUBLISHED" -> "published"
                  [] OTHER -> "stored"]
  <1>1. Init => Delivery!Init
    BY DEF Init, AbsentRow, Delivery!Init
  <1>2. IInv /\ [Next]_vars => [Delivery!Next]_(<<stages, sends>>)
    <2> SUFFICES ASSUME IInv, [Next]_vars
                 PROVE  [Delivery!Next]_(<<stages, sends>>)
      OBVIOUS
    <2>1. ASSUME NEW e \in Events, Persist(e) PROVE Delivery!Store(e)
      BY <2>1 DEF Persist, broker, Delivery!Store, IInv, TypeOK, Row
    <2>2. ASSUME NEW d \in Dispatchers, ClaimNext(d)
          PROVE  UNCHANGED <<stages, sends>>
      <3>1. \A e \in Events :
              /\ row'[e].status = "ABSENT" <=> row[e].status = "ABSENT"
              /\ row'[e].status = "PUBLISHED" <=> row[e].status = "PUBLISHED"
        BY <2>2 DEF ClaimNext, NextInLine, Eligible, Waiting, StaleClaim,
                    IInv, TypeOK, Row
      <3>2. QED BY <3>1, <2>2 DEF ClaimNext, broker
    <2>3. ASSUME NEW d \in Dispatchers, PublishReturns(d) \/ PublishRaises(d)
          PROVE  \/ \E e \in Events : Delivery!Accept(e)
                 \/ UNCHANGED <<stages, sends>>
      <3> DEFINE e == job[d].event
                 a == job[d].attempt
      <3>1. /\ UNCHANGED row
            /\ BrokerAccepts(e, a) \/ UNCHANGED broker
            /\ OpenAttempt(d) /\ Holding(d)
        BY <2>3 DEF PublishReturns, PublishRaises, OpenAttempt, Holding
      <3>2. /\ e \in Events
            /\ a \in (1..MaxAttempts) \ sends[e]
            /\ row[e].status # "ABSENT"
        <4>1. /\ e \in Events /\ a \in 1..row[e].attempts
              /\ row[e].status # "ABSENT" /\ a \notin sends[e]
          BY <3>1 DEF IInv, HoldersAgree, AttemptsAreExclusive
        <4>2. row[e].attempts \in 0..MaxAttempts
          BY <4>1 DEF IInv, TypeOK, Row
        <4>3. QED BY <4>1, <4>2, OutboxAssumption
      <3>3. stages[e] # "absent" /\ UNCHANGED stages
        BY <3>1, <3>2
      <3>4. CASE BrokerAccepts(e, a)
        BY <3>2, <3>3, <3>4 DEF BrokerAccepts, Delivery!Accept
      <3>5. CASE UNCHANGED broker
        BY <3>3, <3>5 DEF broker
      <3>6. QED BY <3>1, <3>4, <3>5
    <2>4. ASSUME NEW d \in Dispatchers, MarkPublished(d)
          PROVE  \E e \in Events : Delivery!Confirm(e)
      <3>1. job[d].event \in Events /\ sends[job[d].event] # {}
        BY <2>4 DEF MarkPublished, Holding, IInv, HoldersAgree
      <3>2. PICK e \in Events : e = job[d].event /\ sends[e] # {}
        BY <3>1
      <3>3. /\ row[e].status = "PUBLISHING"
            /\ row'[e].status = "PUBLISHED"
            /\ \A f \in Events : f # e => row'[f] = row[f]
            /\ UNCHANGED sends
        BY <2>4, <3>2 DEF MarkPublished, IInv, TypeOK, Row, broker
      <3>4. stages[e] = "stored"
        BY <3>2, <3>3
      <3>5. stages' = [stages EXCEPT ![e] = "published"]
        BY <3>2, <3>3
      <3>6. Delivery!Confirm(e)
        BY <3>2, <3>3, <3>4, <3>5 DEF Delivery!Confirm
      <3>7. QED BY <3>6
    <2>5. ASSUME NEW d \in Dispatchers, MarkFailed(d)
          PROVE  UNCHANGED <<stages, sends>>
      <3>1. job[d].event \in Events
        BY <2>5 DEF MarkFailed, Holding, IInv, HoldersAgree
      <3>2. \A e \in Events :
              /\ row'[e].status = "ABSENT" <=> row[e].status = "ABSENT"
              /\ row'[e].status = "PUBLISHED" <=> row[e].status = "PUBLISHED"
        BY <2>5, <3>1 DEF MarkFailed, IInv, TypeOK, Row
      <3>3. QED BY <3>2, <2>5 DEF MarkFailed, broker
    <2>6. ASSUME NEW d \in Dispatchers,
                 StartJob(d) \/ ClaimNothing(d) \/ MarkRefused(d) \/ Crash(d)
          PROVE  UNCHANGED <<stages, sends>>
      BY <2>6 DEF StartJob, ClaimNothing, MarkRefused, Crash, broker
    <2>7. CASE Tick
      <3>1. \A e \in Events : row'[e].status = row[e].status
        BY <2>7 DEF Tick, Older, IInv, TypeOK, Row
      <3>2. QED BY <2>7, <3>1 DEF Tick
    <2>8. CASE UNCHANGED vars
      BY <2>8 DEF vars
    <2>9. QED
      BY <2>1, <2>2, <2>3, <2>4, <2>5, <2>6, <2>7, <2>8
      DEF Next, JobStep, Delivery!Next
  <1>3. QED
    BY InitIInv, StepIInv, <1>1, <1>2, PTL
    DEF Spec, ImplementsDelivery, Delivery!Spec

-----------------------------------------------------------------------------
(* The pipeline: what its parts rely on. *)

\* What a message and an invocation may be.
Copies == [state : {"none", "queued", "locked", "done", "dead"}, tries : 0 .. MaxDelivery]

Invocations ==
    [phase : {"idle", "received", "asked", "answered", "validated", "persisted"},
     package : Packages \union {None}, copy : 0 .. MaxSends,
     tries : 0 .. MaxDelivery, result : Results \union {None}, inForce : BOOLEAN]

\* Copies are of accepted sends, one each, and one that can be delivered has a
\* delivery left.
CopiesFit ==
    \A p \in Packages, a \in 1 .. MaxSends :
        /\ copy[p][a].state = "none" => copy[p][a].tries = 0
        /\ copy[p][a].state = "queued" => copy[p][a].tries < MaxDelivery
        /\ copy[p][a].state # "none" => a <= Cardinality(accepted[p])

\* What has been accepted or committed is in the outbox.
StagesFit ==
    \A p \in Packages : accepted[p] # {} \/ committed[p] # None => stage[p] # "absent"

\* The books of run r: a success has its package in the directory and the database;
\* what the run has uploaded is a success, and all of it before a quarantine.
RunFits(r) ==
    /\ phase[r] = "preparing" => \A i \in Invoices : blob[<<r, i>>] = None
    /\ phase[r] \in {"preparing", "uploading"} => quarantined[r] = {}
    /\ phase[r] \in {"uploading", "quarantining"} =>
          /\ \A s \in Sources : outcome[r][s] # "todo"
          /\ \A i \in Invoices : blob[<<r, i>>] # None =>
                \E s \in Sources : /\ outcome[r][s] = "ok" /\ InvoiceOf[s] = i
                                   /\ blob[<<r, i>>] = s
    /\ \A s \in Sources : outcome[r][s] = "ok" =>
          /\ InvoiceOf[s] \in seen[r]
          /\ local[<<r, InvoiceOf[s]>>] = s
          /\ committed[<<r, InvoiceOf[s]>>] = s
    /\ phase[r] = "quarantining" => \A s \in Sources :
          /\ outcome[r][s] = "ok" => blob[<<r, InvoiceOf[s]>>] = s
          /\ s \in quarantined[r] => outcome[r][s] = "failed"

\* A run that is done has accounted for its ZIPs.
Accounted(r) ==
    phase[r] = "done" => \A s \in Sources :
        \/ s \in quarantined[r] /\ blob[<<r, InvoiceOf[s]>>] # s
        \/ /\ s \notin quarantined[r] /\ blob[<<r, InvoiceOf[s]>>] = s
           /\ stage[<<r, InvoiceOf[s]>>] # "absent"

\* What an invocation has in hand: its message, and what its phase says was there.
HandlerFits(h) ==
    handler[h].phase # "idle" =>
        /\ handler[h].package \in Packages /\ handler[h].copy \in 1 .. MaxSends
        /\ copy[handler[h].package][handler[h].copy].state # "none"
        /\ handler[h].phase # "received" => blob[handler[h].package] # None
        /\ handler[h].phase \in {"asked", "answered", "validated"} =>
              handler[h].result \in Results
        /\ handler[h].phase = "answered" /\ CodesOf(handler[h].result) \subseteq taskMaster =>
              handler[h].inForce
        /\ handler[h].phase = "validated" => handler[h].inForce
        /\ handler[h].phase = "persisted" => suggestion[handler[h].package] # None

\* The preparation's part of the invariant, and the function's.
PrepInv ==
    /\ StagesFit
    /\ OutputMatchesCommit
    /\ \A r \in Runs : RunFits(r) /\ Accounted(r)

FuncInv ==
    /\ CopiesFit
    /\ SuggestionHasOrigin
    /\ DoneMeansSuggested
    /\ \A h \in Handlers : HandlerFits(h)

\* The inductive invariant of the pipeline.
PipelineInv == PipelineTypeOK /\ PrepInv /\ FuncInv

-----------------------------------------------------------------------------
(* The pipeline: what a part does not touch. *)

\* A package is named by a run and an invoice.
LEMMA PackageOf ==
    /\ \A r \in Runs, i \in Invoices : <<r, i>> \in Packages
    /\ \A s \in Sources : InvoiceOf[s] \in Invoices
    /\ \A p \in Packages : p[1] \in Runs /\ p[2] \in Invoices /\ p = <<p[1], p[2]>>
  BY PipelineAssumption DEF Packages

\* What a run relies on: its own books, what was committed, and that the outbox
\* forgets nothing.
LEMMA RunKept ==
    ASSUME NEW q \in Runs, RunFits(q), Accounted(q),
           phase'[q] = phase[q], outcome'[q] = outcome[q], seen'[q] = seen[q],
           quarantined'[q] = quarantined[q],
           \A i \in Invoices :
              /\ local'[<<q, i>>] = local[<<q, i>>]
              /\ blob'[<<q, i>>] = blob[<<q, i>>]
              /\ committed'[<<q, i>>] = committed[<<q, i>>]
              /\ stage[<<q, i>>] # "absent" => stage'[<<q, i>>] # "absent"
    PROVE  RunFits(q)' /\ Accounted(q)'
<1>1. \A s \in Sources : InvoiceOf[s] \in Invoices
  BY PackageOf
<1>2. RunFits(q)'
  BY <1>1 DEF RunFits
<1>3. Accounted(q)'
  BY <1>1 DEF Accounted
<1> QED
  BY <1>2, <1>3

\* Steps of the broker and the function leave the preparation alone.
LEMMA PrepKept ==
    ASSUME PrepInv, UNCHANGED <<prepVars, committed>>,
           \A p \in Packages : stage[p] # "absent" => stage'[p] # "absent",
           \A p \in Packages : accepted'[p] # {} => stage'[p] # "absent"
    PROVE  PrepInv'
<1>1. UNCHANGED <<phase, outcome, seen, local, blob, quarantined, committed>>
  BY DEF prepVars
<1>2. StagesFit' /\ OutputMatchesCommit'
  BY <1>1 DEF PrepInv, StagesFit, OutputMatchesCommit
<1>3. \A r \in Runs : RunFits(r)' /\ Accounted(r)'
  BY <1>1, PackageOf, RunKept DEF PrepInv
<1> QED
  BY <1>2, <1>3 DEF PrepInv

\* Steps of the preparation and the broker leave the function alone.
LEMMA FuncKept ==
    ASSUME PipelineTypeOK, FuncInv, UNCHANGED <<funcVars>>, CopiesFit',
           \A p \in Packages :
              /\ blob[p] # None => blob'[p] # None
              /\ stage[p] # "absent" => stage'[p] # "absent"
              /\ accepted[p] # {} => accepted'[p] # {}
              /\ \A a \in 1 .. MaxSends :
                    /\ copy[p][a].state # "none" => copy'[p][a].state # "none"
                    /\ copy'[p][a].state = "done" => copy[p][a].state = "done"
    PROVE  FuncInv'
<1>1. UNCHANGED <<handler, taskMaster, suggestion>>
  BY DEF funcVars
<1>2. SuggestionHasOrigin' /\ DoneMeansSuggested'
  BY <1>1 DEF FuncInv, SuggestionHasOrigin, DoneMeansSuggested
<1>3. \A h \in Handlers : HandlerFits(h)'
  BY <1>1 DEF FuncInv, HandlerFits
<1> QED
  BY <1>2, <1>3 DEF FuncInv

\* The preparation's own steps.
LEMMA PrepFuncKept ==
    ASSUME PipelineTypeOK, FuncInv, UNCHANGED <<busVars, funcVars>>,
           \A p \in Packages :
              /\ blob[p] # None => blob'[p] # None
              /\ stage[p] # "absent" => stage'[p] # "absent"
    PROVE  FuncInv'
<1>1. UNCHANGED <<accepted, copy>>
  BY DEF busVars
<1>2. CopiesFit'
  BY <1>1 DEF FuncInv, CopiesFit
<1> QED
  BY <1>1, <1>2, FuncKept

-----------------------------------------------------------------------------
(* The pipeline: the steps of a run. *)

\* A ZIP that is turned away leaves the packages of the run as they are.
LEMMA RejectKeeps ==
    ASSUME PipelineInv, NEW r \in Runs, NEW s \in Sources, RejectSource(r, s)
    PROVE  PipelineInv'
<1>1. /\ phase[r] = "preparing" /\ outcome[r][s] = "todo"
      /\ outcome' = [outcome EXCEPT ![r][s] = "failed"]
      /\ UNCHANGED <<phase, seen, local, blob, quarantined>>
      /\ UNCHANGED <<stage, committed, accepted, copy, handler, taskMaster, suggestion>>
  BY DEF RejectSource, sqlVars, busVars, funcVars
<1>2. /\ outcome' \in [Runs -> [Sources -> {"todo", "ok", "failed"}]]
      /\ \A q \in Runs : q # r => outcome'[q] = outcome[q]
      /\ \A t \in Sources : outcome'[r][t] = "ok" => outcome[r][t] = "ok"
  BY <1>1 DEF PipelineInv, PipelineTypeOK
<1>3. PipelineTypeOK'
  BY <1>1, <1>2 DEF PipelineInv, PipelineTypeOK
<1>4. ASSUME NEW q \in Runs
      PROVE  RunFits(q)' /\ Accounted(q)'
  <2>1. CASE q = r
    <3>1. RunFits(r) /\ Accounted(r) /\ phase'[r] = "preparing"
      BY <1>1 DEF PipelineInv, PrepInv
    <3>2. RunFits(r)'
      BY <1>1, <1>2, <3>1 DEF RunFits
    <3>3. Accounted(r)'
      BY <3>1 DEF Accounted
    <3> QED
      BY <2>1, <3>2, <3>3
  <2>2. CASE q # r
    BY <1>1, <1>2, <2>2, RunKept DEF PipelineInv, PrepInv
  <2> QED
    BY <2>1, <2>2
<1>5. StagesFit' /\ OutputMatchesCommit'
  BY <1>1 DEF PipelineInv, PrepInv, StagesFit, OutputMatchesCommit
<1>6. FuncInv'
  BY <1>1, PrepFuncKept DEF PipelineInv, busVars, funcVars
<1> QED
  BY <1>3, <1>4, <1>5, <1>6 DEF PipelineInv, PrepInv

\* A ZIP whose invoice the run has not seen takes the place of no success.
LEMMA PrepareKeeps ==
    ASSUME PipelineInv, NEW r \in Runs, NEW s \in Sources, PrepareSource(r, s)
    PROVE  PipelineInv'
<1> DEFINE p == <<r, InvoiceOf[s]>>
<1>1. /\ phase[r] = "preparing" /\ outcome[r][s] = "todo" /\ InvoiceOf[s] \notin seen[r]
      /\ seen' = [seen EXCEPT ![r] = @ \union {InvoiceOf[s]}]
      /\ local' = [local EXCEPT ![p] = s]
      /\ UNCHANGED <<phase, blob, quarantined, copy, handler, taskMaster, suggestion>>
      /\ UNCHANGED accepted
  BY DEF PrepareSource, Fresh, funcVars, busVars, Outbox!Store
<1>2. PICK o \in {"ok", "failed"} :
         /\ outcome' = [outcome EXCEPT ![r][s] = o]
         /\ \/ /\ stage[p] = "absent" /\ stage' = [stage EXCEPT ![p] = "stored"]
               /\ committed' = [committed EXCEPT ![p] = s]
            \/ o = "failed" /\ UNCHANGED <<stage, committed>>
  BY DEF PrepareSource, sqlVars, Outbox!Store
<1>3. p \in Packages /\ InvoiceOf[s] \in Invoices
  BY PackageOf
<1>4. /\ outcome' \in [Runs -> [Sources -> {"todo", "ok", "failed"}]]
      /\ \A q \in Runs : q # r => outcome'[q] = outcome[q]
      /\ \A t \in Sources : t # s => outcome'[r][t] = outcome[r][t]
      /\ outcome'[r][s] = o
  BY <1>2 DEF PipelineInv, PipelineTypeOK
<1>5. /\ seen' \in [Runs -> SUBSET Invoices]
      /\ seen'[r] = seen[r] \union {InvoiceOf[s]}
      /\ \A q \in Runs : q # r => seen'[q] = seen[q]
  BY <1>1, <1>3 DEF PipelineInv, PipelineTypeOK
<1>6. /\ local' \in [Packages -> Sources \union {None}]
      /\ local'[p] = s /\ \A q \in Packages : q # p => local'[q] = local[q]
  BY <1>1, <1>3 DEF PipelineInv, PipelineTypeOK
<1>7. /\ stage' \in [Packages -> {"absent", "stored", "published"}]
      /\ committed' \in [Packages -> Sources \union {None}]
      /\ \A q \in Packages : q # p => stage'[q] = stage[q] /\ committed'[q] = committed[q]
      /\ stage[p] # "absent" => stage'[p] = stage[p] /\ committed'[p] = committed[p]
      /\ committed'[p] # committed[p] => stage'[p] # "absent"
      /\ o = "ok" => committed'[p] = s
  <2>1. /\ stage \in [Packages -> {"absent", "stored", "published"}]
        /\ committed \in [Packages -> Sources \union {None}]
    BY DEF PipelineInv, PipelineTypeOK
  <2> HIDE DEF p
  <2>2. CASE UNCHANGED <<stage, committed>> /\ o = "failed"
    BY <2>1, <2>2
  <2>3. CASE /\ stage[p] = "absent" /\ stage' = [stage EXCEPT ![p] = "stored"]
             /\ committed' = [committed EXCEPT ![p] = s]
    BY <1>3, <2>1, <2>3
  <2> QED
    BY <1>2, <2>2, <2>3
<1>8. PipelineTypeOK'
  BY <1>1, <1>4, <1>5, <1>6, <1>7 DEF PipelineInv, PipelineTypeOK
<1>9. \A q \in Packages : stage[q] # "absent" => stage'[q] # "absent" /\ committed'[q] = committed[q]
  BY <1>7
<1>10. blob[p] = None
  BY <1>1, <1>3 DEF PipelineInv, PrepInv, RunFits
<1>11. StagesFit' /\ OutputMatchesCommit'
  BY <1>1, <1>7, <1>9, <1>10 DEF PipelineInv, PrepInv, StagesFit, OutputMatchesCommit
<1> HIDE DEF p
<1>12. ASSUME NEW q \in Runs
       PROVE  RunFits(q)' /\ Accounted(q)'
  <2>1. CASE q = r
    <3>1. \A t \in Sources : outcome'[r][t] = "ok" =>
             /\ InvoiceOf[t] \in seen'[r]
             /\ local'[<<r, InvoiceOf[t]>>] = t
             /\ committed'[<<r, InvoiceOf[t]>>] = t
      <4>1. ASSUME NEW t \in Sources, t # s, outcome'[r][t] = "ok"
            PROVE  /\ InvoiceOf[t] \in seen'[r]
                   /\ local'[<<r, InvoiceOf[t]>>] = t
                   /\ committed'[<<r, InvoiceOf[t]>>] = t
        <5>1. /\ InvoiceOf[t] \in seen[r] /\ local[<<r, InvoiceOf[t]>>] = t
              /\ committed[<<r, InvoiceOf[t]>>] = t
          BY <1>4, <4>1 DEF PipelineInv, PrepInv, RunFits
        <5>2. <<r, InvoiceOf[t]>> # p /\ <<r, InvoiceOf[t]>> \in Packages
          BY <1>1, <5>1, PackageOf DEF p
        <5> QED
          BY <1>5, <1>6, <1>7, <5>1, <5>2
      <4>2. outcome'[r][s] = "ok" =>
             /\ InvoiceOf[s] \in seen'[r]
             /\ local'[<<r, InvoiceOf[s]>>] = s
             /\ committed'[<<r, InvoiceOf[s]>>] = s
        BY <1>4, <1>5, <1>6, <1>7 DEF p
      <4> QED
        BY <4>1, <4>2
    <3> QED
      BY <1>1, <2>1, <3>1 DEF PipelineInv, PrepInv, RunFits, Accounted
  <2>2. CASE q # r
    <3>1. \A i \in Invoices : <<q, i>> \in Packages /\ <<q, i>> # p
      BY <2>2, PackageOf DEF p
    <3> QED
      BY <1>1, <1>4, <1>5, <1>6, <1>7, <2>2, <3>1, RunKept DEF PipelineInv, PrepInv
  <2> QED
    BY <2>1, <2>2
<1>13. FuncInv'
  BY <1>1, <1>9, PrepFuncKept DEF PipelineInv, busVars, funcVars
<1> QED
  BY <1>8, <1>11, <1>12, <1>13 DEF PipelineInv, PrepInv

\* A success is uploaded as it was committed.
LEMMA UploadKeeps ==
    ASSUME PipelineInv, NEW r \in Runs, NEW p \in Packages, Upload(r, p)
    PROVE  PipelineInv'
<1>1. /\ phase[r] = "uploading" /\ p \in ToUpload(r) /\ blob[p] = None
      /\ blob' = [blob EXCEPT ![p] = local[p]]
      /\ UNCHANGED <<phase, outcome, seen, local, quarantined>>
      /\ UNCHANGED <<stage, committed, accepted, copy, handler, taskMaster, suggestion>>
  BY DEF Upload, sqlVars, busVars, funcVars
<1>2. PICK s \in Sources : outcome[r][s] = "ok" /\ p = <<r, InvoiceOf[s]>>
  BY <1>1 DEF ToUpload
<1>3. local[p] = s /\ committed[p] = s
  BY <1>2 DEF PipelineInv, PrepInv, RunFits
<1>4. /\ blob' \in [Packages -> Sources \union {None}]
      /\ blob'[p] = s /\ \A q \in Packages : q # p => blob'[q] = blob[q]
  BY <1>1, <1>3 DEF PipelineInv, PipelineTypeOK
<1>5. PipelineTypeOK'
  BY <1>1, <1>4 DEF PipelineInv, PipelineTypeOK
<1>6. StagesFit' /\ OutputMatchesCommit'
  BY <1>1, <1>3, <1>4 DEF PipelineInv, PrepInv, StagesFit, OutputMatchesCommit
<1>7. ASSUME NEW q \in Runs
      PROVE  RunFits(q)' /\ Accounted(q)'
  <2>1. CASE q = r
    <3>1. \A i \in Invoices : blob'[<<r, i>>] # None =>
              \E t \in Sources : /\ outcome[r][t] = "ok" /\ InvoiceOf[t] = i
                                 /\ blob'[<<r, i>>] = t
      <4>1. ASSUME NEW i \in Invoices, blob'[<<r, i>>] # None, <<r, i>> # p
            PROVE  \E t \in Sources : /\ outcome[r][t] = "ok" /\ InvoiceOf[t] = i
                                      /\ blob'[<<r, i>>] = t
        <5>1. blob'[<<r, i>>] = blob[<<r, i>>]
          BY <1>4, <4>1, PackageOf
        <5> QED
          BY <1>1, <4>1, <5>1 DEF PipelineInv, PrepInv, RunFits
      <4>2. ASSUME NEW i \in Invoices, <<r, i>> = p
            PROVE  /\ outcome[r][s] = "ok" /\ InvoiceOf[s] = i /\ blob'[<<r, i>>] = s
        BY <1>2, <1>4, <4>2
      <4> QED
        BY <4>1, <4>2
    <3> QED
      BY <1>1, <2>1, <3>1 DEF PipelineInv, PrepInv, RunFits, Accounted
  <2>2. CASE q # r
    <3>1. \A i \in Invoices : <<q, i>> \in Packages /\ <<q, i>> # p
      BY <1>2, <2>2, PackageOf
    <3> QED
      BY <1>1, <1>4, <2>2, <3>1, RunKept DEF PipelineInv, PrepInv
  <2> QED
    BY <2>1, <2>2
<1>8. FuncInv'
  <2>1. s # None
    BY PipelineAssumption
  <2> QED
    BY <1>1, <1>4, <2>1, PrepFuncKept DEF PipelineInv, busVars, funcVars
<1> QED
  BY <1>5, <1>6, <1>7, <1>8 DEF PipelineInv, PrepInv

\* A run goes on when all its ZIPs are decided, and then when all is uploaded.
LEMMA PhaseKeeps ==
    ASSUME PipelineInv, NEW r \in Runs, StartUploads(r) \/ UploadSummary(r)
    PROVE  PipelineInv'
<1>1. /\ UNCHANGED <<outcome, seen, local, blob, quarantined>>
      /\ UNCHANGED <<stage, committed, accepted, copy, handler, taskMaster, suggestion>>
  BY DEF StartUploads, UploadSummary, sqlVars, busVars, funcVars
<1>2. PICK next \in {"uploading", "quarantining"} : phase' = [phase EXCEPT ![r] = next]
  BY DEF StartUploads, UploadSummary
<1>3. /\ phase' \in [Runs -> {"preparing", "uploading", "quarantining", "done", "aborted"}]
      /\ phase'[r] = next /\ \A q \in Runs : q # r => phase'[q] = phase[q]
  BY <1>2 DEF PipelineInv, PipelineTypeOK
<1>4. PipelineTypeOK'
  BY <1>1, <1>3 DEF PipelineInv, PipelineTypeOK
<1>5. StagesFit' /\ OutputMatchesCommit'
  BY <1>1 DEF PipelineInv, PrepInv, StagesFit, OutputMatchesCommit
<1>6. RunFits(r)' /\ Accounted(r)'
  <2>1. CASE StartUploads(r)
    <3>1. phase[r] = "preparing" /\ (\A s \in Sources : outcome[r][s] # "todo")
          /\ phase'[r] = "uploading"
      BY <2>1 DEF StartUploads, PipelineInv, PipelineTypeOK
    <3> QED
      BY <1>1, <3>1 DEF PipelineInv, PrepInv, RunFits, Accounted
  <2>2. CASE UploadSummary(r)
    <3>1. phase[r] = "uploading" /\ (\A p \in ToUpload(r) : blob[p] # None)
          /\ phase'[r] = "quarantining"
      BY <2>2 DEF UploadSummary, PipelineInv, PipelineTypeOK
    <3>2. ASSUME NEW s \in Sources, outcome[r][s] = "ok"
          PROVE  blob[<<r, InvoiceOf[s]>>] = s
      <4>1. blob[<<r, InvoiceOf[s]>>] # None
        BY <3>1, <3>2 DEF ToUpload
      <4>2. PICK t \in Sources : /\ outcome[r][t] = "ok" /\ InvoiceOf[t] = InvoiceOf[s]
                                /\ blob[<<r, InvoiceOf[s]>>] = t
        BY <3>1, <4>1, PackageOf DEF PipelineInv, PrepInv, RunFits
      <4>3. local[<<r, InvoiceOf[s]>>] = s /\ local[<<r, InvoiceOf[t]>>] = t
        BY <3>2, <4>2 DEF PipelineInv, PrepInv, RunFits
      <4> QED
        BY <4>2, <4>3
    <3> QED
      BY <1>1, <3>1, <3>2 DEF PipelineInv, PrepInv, RunFits, Accounted
  <2> QED
    BY <2>1, <2>2
<1>7. ASSUME NEW q \in Runs
      PROVE  RunFits(q)' /\ Accounted(q)'
  BY <1>1, <1>3, <1>6, RunKept DEF PipelineInv, PrepInv
<1>8. FuncInv'
  BY <1>1, PrepFuncKept DEF PipelineInv, busVars, funcVars
<1> QED
  BY <1>4, <1>5, <1>7, <1>8 DEF PipelineInv, PrepInv

\* Only what failed is quarantined.
LEMMA QuarantineKeeps ==
    ASSUME PipelineInv, NEW r \in Runs, NEW s \in Sources, Quarantine(r, s)
    PROVE  PipelineInv'
<1>1. /\ phase[r] = "quarantining" /\ outcome[r][s] = "failed"
      /\ quarantined' = [quarantined EXCEPT ![r] = @ \union {s}]
      /\ UNCHANGED <<phase, outcome, seen, local, blob>>
      /\ UNCHANGED <<stage, committed, accepted, copy, handler, taskMaster, suggestion>>
  BY DEF Quarantine, sqlVars, busVars, funcVars
<1>2. /\ quarantined' \in [Runs -> SUBSET Sources]
      /\ quarantined'[r] = quarantined[r] \union {s}
      /\ \A q \in Runs : q # r => quarantined'[q] = quarantined[q]
  BY <1>1 DEF PipelineInv, PipelineTypeOK
<1>3. PipelineTypeOK'
  BY <1>1, <1>2 DEF PipelineInv, PipelineTypeOK
<1>4. RunFits(r)' /\ Accounted(r)'
  BY <1>1, <1>2 DEF PipelineInv, PrepInv, RunFits, Accounted
<1>5. ASSUME NEW q \in Runs
      PROVE  RunFits(q)' /\ Accounted(q)'
  BY <1>1, <1>2, <1>4, RunKept DEF PipelineInv, PrepInv
<1>6. StagesFit' /\ OutputMatchesCommit'
  BY <1>1 DEF PipelineInv, PrepInv, StagesFit, OutputMatchesCommit
<1>7. FuncInv'
  BY <1>1, PrepFuncKept DEF PipelineInv, busVars, funcVars
<1> QED
  BY <1>3, <1>5, <1>6, <1>7 DEF PipelineInv, PrepInv

\* The directory of a run goes with it; what it committed and uploaded stays.
LEMMA EndKeeps ==
    ASSUME PipelineInv, NEW r \in Runs, CompleteRun(r) \/ AbortRun(r)
    PROVE  PipelineInv'
<1>1. PICK ending \in {"done", "aborted"} :
         /\ EndRun(r, ending)
         /\ ending = "done" => /\ phase[r] = "quarantining"
                              /\ \A s \in Sources :
                                    outcome[r][s] = "failed" => s \in quarantined[r]
  BY DEF CompleteRun, AbortRun
<1>2. /\ phase' = [phase EXCEPT ![r] = ending]
      /\ outcome' = [outcome EXCEPT ![r] = [s \in Sources |-> "todo"]]
      /\ seen' = [seen EXCEPT ![r] = {}]
      /\ local' = [p \in Packages |-> IF p[1] = r THEN None ELSE local[p]]
      /\ UNCHANGED <<blob, quarantined, stage, committed, accepted, copy>>
      /\ UNCHANGED <<handler, taskMaster, suggestion>>
  BY <1>1 DEF EndRun, sqlVars, busVars, funcVars
<1>3. /\ phase' \in [Runs -> {"preparing", "uploading", "quarantining", "done", "aborted"}]
      /\ phase'[r] = ending /\ \A q \in Runs : q # r => phase'[q] = phase[q]
  BY <1>2 DEF PipelineInv, PipelineTypeOK
<1>4. /\ outcome' \in [Runs -> [Sources -> {"todo", "ok", "failed"}]]
      /\ \A s \in Sources : outcome'[r][s] = "todo"
      /\ \A q \in Runs : q # r => outcome'[q] = outcome[q]
  BY <1>2 DEF PipelineInv, PipelineTypeOK
<1>5. /\ seen' \in [Runs -> SUBSET Invoices]
      /\ \A q \in Runs : q # r => seen'[q] = seen[q]
  BY <1>2 DEF PipelineInv, PipelineTypeOK
<1>6. /\ local' \in [Packages -> Sources \union {None}]
      /\ \A q \in Runs, i \in Invoices : q # r => local'[<<q, i>>] = local[<<q, i>>]
  BY <1>2, PackageOf DEF PipelineInv, PipelineTypeOK
<1>7. PipelineTypeOK'
  BY <1>2, <1>3, <1>4, <1>5, <1>6 DEF PipelineInv, PipelineTypeOK
<1>8. StagesFit' /\ OutputMatchesCommit'
  BY <1>2 DEF PipelineInv, PrepInv, StagesFit, OutputMatchesCommit
<1>9. RunFits(r)'
  BY <1>3, <1>4 DEF RunFits
<1>10. Accounted(r)'
  <2>1. ASSUME ending = "done", NEW s \in Sources
        PROVE  \/ s \in quarantined[r] /\ blob[<<r, InvoiceOf[s]>>] # s
               \/ /\ s \notin quarantined[r] /\ blob[<<r, InvoiceOf[s]>>] = s
                  /\ stage[<<r, InvoiceOf[s]>>] # "absent"
    <3>1. /\ phase[r] = "quarantining" /\ RunFits(r)
          /\ outcome[r][s] \in {"todo", "ok", "failed"} /\ s # None
          /\ InvoiceOf[s] \in Invoices /\ <<r, InvoiceOf[s]>> \in Packages
      BY <1>1, <2>1, PackageOf, PipelineAssumption DEF PipelineInv, PrepInv, PipelineTypeOK
    <3>2. CASE outcome[r][s] = "ok"
      <4>1. /\ s \notin quarantined[r] /\ blob[<<r, InvoiceOf[s]>>] = s
            /\ committed[<<r, InvoiceOf[s]>>] = s
        BY <3>1, <3>2 DEF RunFits
      <4>2. stage[<<r, InvoiceOf[s]>>] # "absent"
        BY <3>1, <4>1 DEF PipelineInv, PrepInv, StagesFit
      <4> QED
        BY <4>1, <4>2
    <3>3. CASE outcome[r][s] = "failed"
      <4>1. s \in quarantined[r]
        BY <1>1, <2>1, <3>3
      <4>2. blob[<<r, InvoiceOf[s]>>] # s
        BY <3>1, <3>3 DEF RunFits
      <4> QED
        BY <4>1, <4>2
    <3> QED
      BY <3>1, <3>2, <3>3 DEF RunFits
  <2> QED
    BY <1>2, <1>3, <2>1 DEF Accounted
<1>11. ASSUME NEW q \in Runs
       PROVE  RunFits(q)' /\ Accounted(q)'
  BY <1>2, <1>3, <1>4, <1>5, <1>6, <1>9, <1>10, RunKept DEF PipelineInv, PrepInv
<1>12. FuncInv'
  BY <1>2, PrepFuncKept DEF PipelineInv, busVars, funcVars
<1> QED
  BY <1>7, <1>8, <1>11, <1>12 DEF PipelineInv, PrepInv

-----------------------------------------------------------------------------
(* The pipeline: messages. *)

\* Every message is one.
LEMMA CopyTyped ==
    ASSUME PipelineTypeOK
    PROVE  /\ copy \in [Packages -> [1 .. MaxSends -> Copies]]
           /\ \A p \in Packages, a \in 1 .. MaxSends : copy[p][a] \in Copies
<1>1. copy \in [Packages -> [1 .. MaxSends -> Copies]]
  BY Zenon DEF PipelineTypeOK, Copies
<1> QED
  BY <1>1, Zenon

\* Only the a-th copy of p changes.
OnlyCopy(p, a) ==
    \A q \in Packages, b \in 1 .. MaxSends : q # p \/ b # a => copy'[q][b] = copy[q][b]

\* No copy disappears, and none is done but one of p that has become m.
CopiesGoOn(p, m) ==
    \A q \in Packages, b \in 1 .. MaxSends :
        /\ copy[q][b].state # "none" => copy'[q][b].state # "none"
        /\ copy'[q][b].state = "done" =>
              copy[q][b].state = "done" \/ (q = p /\ m.state = "done")

\* One copy changes.
LEMMA CopyChange ==
    ASSUME PipelineTypeOK, NEW p \in Packages, NEW a \in 1 .. MaxSends, NEW m \in Copies,
           copy' = [copy EXCEPT ![p][a] = m]
    PROVE  /\ copy' \in [Packages -> [1 .. MaxSends -> Copies]]
           /\ copy'[p][a] = m
           /\ OnlyCopy(p, a)
<1>1. copy \in [Packages -> [1 .. MaxSends -> Copies]]
  BY CopyTyped
<1>2. copy' \in [Packages -> [1 .. MaxSends -> Copies]] /\ copy'[p][a] = m
  BY <1>1
<1>3. OnlyCopy(p, a)
  BY <1>1 DEF OnlyCopy
<1> QED
  BY <1>2, <1>3

\* A copy that was sent goes from one state to another.
LEMMA CopyMoves ==
    ASSUME PipelineTypeOK, FuncInv, NEW p \in Packages, NEW a \in 1 .. MaxSends, NEW m \in Copies,
           copy' = [copy EXCEPT ![p][a] = m], UNCHANGED accepted,
           copy[p][a].state # "none", m.state # "none",
           m.state = "queued" => m.tries < MaxDelivery
    PROVE  /\ copy' \in [Packages -> [1 .. MaxSends -> Copies]]
           /\ CopiesFit'
           /\ CopiesGoOn(p, m)
<1>1. /\ copy' \in [Packages -> [1 .. MaxSends -> Copies]]
      /\ copy'[p][a] = m
      /\ OnlyCopy(p, a)
  BY CopyChange, Zenon
<1>2. ASSUME NEW q \in Packages, NEW b \in 1 .. MaxSends
      PROVE  /\ copy'[q][b].state = "none" => copy'[q][b].tries = 0
             /\ copy'[q][b].state = "queued" => copy'[q][b].tries < MaxDelivery
             /\ copy'[q][b].state # "none" => b <= Cardinality(accepted'[q])
  <2>1. CASE q = p /\ b = a
    BY <1>1, <2>1 DEF FuncInv, CopiesFit
  <2>2. CASE q # p \/ b # a
    <3>1. copy'[q][b] = copy[q][b]
      BY <1>1, <2>2 DEF OnlyCopy
    <3> QED
      BY <3>1 DEF FuncInv, CopiesFit
  <2> QED
    BY <2>1, <2>2
<1>3. CopiesFit'
  BY <1>2 DEF CopiesFit
<1>4. CopiesGoOn(p, m)
  BY <1>1 DEF OnlyCopy, CopiesGoOn
<1> QED
  BY <1>1, <1>3, <1>4

\* A returned message is queued with a delivery left, or dead.
LEMMA ReturnedFits ==
    ASSUME NEW m \in Copies
    PROVE  /\ Returned(m) \in Copies
           /\ Returned(m).state \in {"queued", "dead"}
           /\ Returned(m).state = "queued" => Returned(m).tries < MaxDelivery
  BY DEF Returned, Copies

\* A send is of a stored event and puts the next copy into the subscription.
LEMMA SendKeeps ==
    ASSUME PipelineInv, NEW p \in Packages, Send(p)
    PROVE  PipelineInv'
<1>1. PICK a \in (1 .. MaxSends) \ accepted[p] :
         accepted' = [accepted EXCEPT ![p] = @ \union {a}]
  BY DEF Send, Outbox!Accept
<1>2. /\ stage[p] # "absent" /\ UNCHANGED <<stage, committed>>
      /\ UNCHANGED <<phase, outcome, seen, local, blob, quarantined>>
      /\ UNCHANGED <<handler, taskMaster, suggestion>>
  BY DEF Send, Outbox!Accept, prepVars, funcVars
<1>3. copy' = copy \/ copy' = [copy EXCEPT ![p][Cardinality(accepted'[p])].state = "queued"]
  BY DEF Send
<1>4. /\ accepted' \in [Packages -> SUBSET (1 .. MaxSends)]
      /\ accepted'[p] = accepted[p] \union {a}
      /\ \A q \in Packages : q # p => accepted'[q] = accepted[q]
  BY <1>1 DEF PipelineInv, PipelineTypeOK
<1>5. PICK n \in 1 .. MaxSends :
         /\ n = Cardinality(accepted'[p])
         /\ Cardinality(accepted[p]) \in Nat /\ n = Cardinality(accepted[p]) + 1
  <2>1. MaxSends \in Nat /\ IsFiniteSet(1 .. MaxSends) /\ Cardinality(1 .. MaxSends) = MaxSends
    BY FS_Interval, PipelineAssumption
  <2>2. accepted[p] \in SUBSET (1 .. MaxSends) /\ accepted'[p] \in SUBSET (1 .. MaxSends)
    BY <1>4 DEF PipelineInv, PipelineTypeOK
  <2>3. /\ IsFiniteSet(accepted[p]) /\ Cardinality(accepted[p]) \in Nat
        /\ Cardinality(accepted'[p]) <= MaxSends
    BY <2>1, <2>2, FS_Subset, FS_CardinalityType
  <2>4. Cardinality(accepted'[p]) = Cardinality(accepted[p]) + 1
    BY <1>1, <1>4, <2>3, FS_AddElement
  <2> QED
    BY <2>1, <2>3, <2>4
<1> DEFINE m == [copy[p][n] EXCEPT !.state = "queued"]
<1>6. copy[p][n] \in Copies /\ copy[p][n].state = "none" /\ copy[p][n].tries = 0
  <2>1. copy[p][n] \in Copies
    BY <1>5, CopyTyped DEF PipelineInv
  <2> QED
    BY <1>5, <2>1 DEF PipelineInv, FuncInv, CopiesFit
<1>7. m \in Copies /\ m.state = "queued" /\ m.tries = 0
  <2> QED
    BY <1>6 DEF Copies
<1>8. /\ copy' \in [Packages -> [1 .. MaxSends -> Copies]]
      /\ copy'[p][n] = copy[p][n] \/ copy'[p][n] = m
      /\ \A q \in Packages, b \in 1 .. MaxSends : q # p \/ b # n => copy'[q][b] = copy[q][b]
  <2>1. CASE copy' = copy
    BY <2>1, CopyTyped DEF PipelineInv
  <2>2. CASE copy' = [copy EXCEPT ![p][n].state = "queued"]
    <3>1. copy' = [copy EXCEPT ![p][n] = m]
      BY <2>2
    <3>2. m \in Copies /\ n \in 1 .. MaxSends /\ PipelineTypeOK
      BY <1>5, <1>7 DEF PipelineInv
    <3> HIDE DEF m
    <3>3. copy' \in [Packages -> [1 .. MaxSends -> Copies]]
      BY <3>1, <3>2, CopyChange, Zenon
    <3>4. copy'[p][n] = m
      BY <3>1, <3>2, CopyChange, Zenon
    <3>5. OnlyCopy(p, n)
      BY <3>1, <3>2, CopyChange, Zenon
    <3> QED
      BY <3>3, <3>4, <3>5, Zenon DEF OnlyCopy
  <2> QED
    BY <1>3, <1>5, <2>1, <2>2
<1>9. \A q \in Packages : Cardinality(accepted'[q]) = IF q = p THEN n ELSE Cardinality(accepted[q])
  BY <1>4, <1>5
<1> HIDE DEF m
<1>10. CopiesFit'
  <2> SUFFICES ASSUME NEW q \in Packages, NEW b \in 1 .. MaxSends
               PROVE  /\ copy'[q][b].state = "none" => copy'[q][b].tries = 0
                      /\ copy'[q][b].state = "queued" => copy'[q][b].tries < MaxDelivery
                      /\ copy'[q][b].state # "none" => b <= Cardinality(accepted'[q])
    BY DEF CopiesFit
  <2>1. CASE q = p /\ b = n
    <3>1. 0 < MaxDelivery
      BY PipelineAssumption
    <3> QED
      BY <1>5, <1>6, <1>7, <1>8, <1>9, <2>1, <3>1
  <2>2. CASE q # p
    BY <1>8, <1>9, <2>2 DEF PipelineInv, FuncInv, CopiesFit
  <2>3. CASE q = p /\ b # n
    <3>1. /\ copy[q][b].state = "none" => copy[q][b].tries = 0
          /\ copy[q][b].state = "queued" => copy[q][b].tries < MaxDelivery
          /\ copy[q][b].state # "none" => b <= Cardinality(accepted[p])
      BY <2>3 DEF PipelineInv, FuncInv, CopiesFit
    <3> QED
      BY <1>5, <1>8, <1>9, <2>3, <3>1
  <2> QED
    BY <2>1, <2>2, <2>3
<1>11. \A q \in Packages :
          /\ accepted[q] # {} => accepted'[q] # {}
          /\ \A b \in 1 .. MaxSends :
                /\ copy[q][b].state # "none" => copy'[q][b].state # "none"
                /\ copy'[q][b].state = "done" => copy[q][b].state = "done"
  BY <1>4, <1>6, <1>7, <1>8
<1>12. FuncInv'
  BY <1>2, <1>10, <1>11, FuncKept DEF PipelineInv, funcVars
<1>13. PrepInv'
  <2>1. \A q \in Packages : accepted'[q] # {} => stage'[q] # "absent"
    BY <1>2, <1>4 DEF PipelineInv, PrepInv, StagesFit
  <2> QED
    BY <1>2, <2>1, PrepKept DEF PipelineInv, prepVars
<1>14. PipelineTypeOK'
  BY <1>2, <1>4, <1>8 DEF PipelineInv, PipelineTypeOK, Copies
<1> QED
  BY <1>12, <1>13, <1>14 DEF PipelineInv

\* The row of an event is written after one of its sends.
LEMMA MarkEventKeeps ==
    ASSUME PipelineInv, NEW p \in Packages, MarkEventPublished(p)
    PROVE  PipelineInv'
<1>1. /\ stage' = [stage EXCEPT ![p] = "published"] /\ UNCHANGED <<accepted, committed, copy>>
      /\ UNCHANGED <<phase, outcome, seen, local, blob, quarantined>>
      /\ UNCHANGED <<handler, taskMaster, suggestion>>
  BY DEF MarkEventPublished, Outbox!Confirm, prepVars, funcVars
<1>2. /\ stage' \in [Packages -> {"absent", "stored", "published"}]
      /\ \A q \in Packages : stage[q] # "absent" => stage'[q] # "absent"
  BY <1>1 DEF PipelineInv, PipelineTypeOK
<1>3. PipelineTypeOK'
  BY <1>1, <1>2 DEF PipelineInv, PipelineTypeOK
<1>4. PrepInv'
  <2>1. \A q \in Packages : accepted'[q] # {} => stage'[q] # "absent"
    BY <1>1, <1>2 DEF PipelineInv, PrepInv, StagesFit
  <2> QED
    BY <1>1, <1>2, <2>1, PrepKept DEF PipelineInv, prepVars
<1>5. FuncInv'
  BY <1>1, <1>2, PrepFuncKept DEF PipelineInv, busVars, funcVars
<1> QED
  BY <1>3, <1>4, <1>5 DEF PipelineInv

\* A delivery whose lock runs out.
LEMMA ExpiryKeeps ==
    ASSUME PipelineInv, NEW p \in Packages, NEW a \in 1 .. MaxSends, LockExpires(p, a)
    PROVE  PipelineInv'
<1> DEFINE m == Returned(copy[p][a])
<1>1. /\ copy[p][a].state = "locked" /\ copy' = [copy EXCEPT ![p][a] = m]
      /\ UNCHANGED <<stage, committed, accepted>>
      /\ UNCHANGED <<phase, outcome, seen, local, blob, quarantined>>
      /\ UNCHANGED <<handler, taskMaster, suggestion>>
  BY DEF LockExpires, prepVars, sqlVars, funcVars
<1>2. copy[p][a] \in Copies
  BY CopyTyped DEF PipelineInv
<1>3. /\ m \in Copies /\ m.state \in {"queued", "dead"}
      /\ m.state = "queued" => m.tries < MaxDelivery
  BY <1>2, ReturnedFits
<1> HIDE DEF m
<1>4. /\ copy' \in [Packages -> [1 .. MaxSends -> Copies]]
      /\ CopiesFit'
      /\ \A q \in Packages, b \in 1 .. MaxSends :
            /\ copy[q][b].state # "none" => copy'[q][b].state # "none"
            /\ copy'[q][b].state = "done" => copy[q][b].state = "done"
  <2>1. m.state # "none" /\ copy[p][a].state # "none" /\ m.state # "done"
    BY <1>1, <1>3
  <2>2. PipelineTypeOK /\ FuncInv
    BY DEF PipelineInv
  <2>3. /\ copy' \in [Packages -> [1 .. MaxSends -> Copies]]
        /\ CopiesFit'
        /\ CopiesGoOn(p, m)
    BY <1>1, <1>3, <2>1, <2>2, CopyMoves, Zenon
  <2> QED
    BY <2>1, <2>3 DEF CopiesGoOn
<1>5. PipelineTypeOK'
  BY <1>1, <1>4 DEF PipelineInv, PipelineTypeOK, Copies
<1>6. FuncInv'
  BY <1>1, <1>4, FuncKept DEF PipelineInv, funcVars
<1>7. PrepInv'
  BY <1>1, PrepKept DEF PipelineInv, PrepInv, StagesFit, prepVars
<1> QED
  BY <1>5, <1>6, <1>7 DEF PipelineInv

-----------------------------------------------------------------------------
(* The pipeline: the steps of the function. *)

\* What another invocation has in hand is not taken back by a step of this one.
LEMMA OthersFit ==
    ASSUME FuncInv, NEW h \in Handlers, UNCHANGED <<blob, taskMaster>>,
           \A g \in Handlers : g # h => handler'[g] = handler[g],
           \A p \in Packages :
              /\ suggestion[p] # None => suggestion'[p] # None
              /\ \A a \in 1 .. MaxSends :
                    copy[p][a].state # "none" => copy'[p][a].state # "none"
    PROVE  \A g \in Handlers : g # h => HandlerFits(g)'
  BY DEF FuncInv, HandlerFits

\* A step of an invocation: it goes on to rec, settles no message without a
\* suggestion, and suggests only for a package it has read.
LEMMA InvocationKeeps ==
    ASSUME PipelineInv, NEW h \in Handlers, NEW rec \in Invocations,
           handler' = [handler EXCEPT ![h] = rec],
           UNCHANGED <<prepVars, sqlVars, accepted, taskMaster>>,
           copy' \in [Packages -> [1 .. MaxSends -> Copies]], CopiesFit',
           suggestion' \in [Packages -> Results \union {None}],
           \A p \in Packages :
              /\ suggestion[p] # None => suggestion'[p] # None
              /\ suggestion'[p] # None =>
                    suggestion[p] # None \/ (blob[p] # None /\ accepted[p] # {})
              /\ \A a \in 1 .. MaxSends :
                    /\ copy[p][a].state # "none" => copy'[p][a].state # "none"
                    /\ copy'[p][a].state = "done" =>
                          copy[p][a].state = "done" \/ suggestion[p] # None,
           HandlerFits(h)'
    PROVE  PipelineInv'
<1>1. /\ UNCHANGED <<phase, outcome, seen, local, blob, quarantined>>
      /\ UNCHANGED <<stage, committed, accepted, taskMaster>>
  BY DEF prepVars, sqlVars
<1>2. handler \in [Handlers -> Invocations]
  BY Zenon DEF PipelineInv, PipelineTypeOK, Invocations
<1>3. /\ handler' \in [Handlers -> Invocations]
      /\ \A g \in Handlers : g # h => handler'[g] = handler[g]
  BY <1>2
<1>4. PipelineTypeOK'
  BY <1>1, <1>3, Zenon DEF PipelineInv, PipelineTypeOK, Invocations, Copies
<1>5. \A g \in Handlers : HandlerFits(g)'
  BY <1>1, <1>3, OthersFit DEF PipelineInv
<1>6. SuggestionHasOrigin' /\ DoneMeansSuggested'
  BY <1>1 DEF PipelineInv, PrepInv, StagesFit, FuncInv, SuggestionHasOrigin, DoneMeansSuggested
<1>7. PrepInv'
  BY <1>1, PrepKept DEF PipelineInv, PrepInv, StagesFit
<1> QED
  BY <1>4, <1>5, <1>6, <1>7 DEF PipelineInv, FuncInv

\* A step that touches no message and no suggestion.
LEMMA HandlerOnly ==
    ASSUME PipelineInv, NEW h \in Handlers, NEW rec \in Invocations,
           handler' = [handler EXCEPT ![h] = rec],
           UNCHANGED <<prepVars, sqlVars, busVars, taskMaster, suggestion>>,
           HandlerFits(h)'
    PROVE  PipelineInv'
<1>1. UNCHANGED <<accepted, copy>>
  BY DEF busVars
<1>2. CopiesFit'
  BY <1>1 DEF PipelineInv, FuncInv, CopiesFit
<1>3. /\ copy' \in [Packages -> [1 .. MaxSends -> Copies]]
      /\ suggestion' \in [Packages -> Results \union {None}]
  BY <1>1, CopyTyped DEF PipelineInv, PipelineTypeOK
<1> QED
  BY <1>1, <1>2, <1>3, InvocationKeeps DEF PipelineInv, FuncInv, DoneMeansSuggested

\* An invocation that is under way, and its message.
LEMMA InHand ==
    ASSUME PipelineInv, NEW h \in Handlers, handler[h].phase # "idle"
    PROVE  /\ handler[h] \in Invocations /\ handler \in [Handlers -> Invocations]
           /\ handler[h].package \in Packages /\ handler[h].copy \in 1 .. MaxSends
           /\ Message(h) \in Copies /\ Message(h).state # "none"
           /\ accepted[handler[h].package] # {}
<1>1. handler \in [Handlers -> Invocations]
  BY Zenon DEF PipelineInv, PipelineTypeOK, Invocations
<1>2. /\ handler[h].package \in Packages /\ handler[h].copy \in 1 .. MaxSends
      /\ Message(h).state # "none"
  BY DEF PipelineInv, FuncInv, HandlerFits, Message
<1>3. Message(h) \in Copies
  BY <1>2, CopyTyped DEF PipelineInv, Message
<1>4. accepted[handler[h].package] # {}
  <2>1. handler[h].copy <= Cardinality(accepted[handler[h].package])
    BY <1>2 DEF PipelineInv, FuncInv, CopiesFit, Message
  <2>2. Cardinality({}) = 0
    BY FS_EmptySet
  <2> QED
    BY <1>2, <2>1, <2>2
<1> QED
  BY <1>1, <1>2, <1>3, <1>4

\* A queued message is taken, which uses up one of its deliveries.
LEMMA ReceiveKeeps ==
    ASSUME PipelineInv, NEW h \in Handlers, NEW p \in Packages, NEW a \in 1 .. MaxSends,
           Receive(h, p, a)
    PROVE  PipelineInv'
<1> DEFINE m == [copy[p][a] EXCEPT !.state = "locked", !.tries = @ + 1]
           rec == [Idle EXCEPT !.phase = "received", !.package = p, !.copy = a,
                               !.tries = copy[p][a].tries + 1]
<1>1. /\ handler[h].phase = "idle" /\ copy[p][a].state = "queued"
      /\ copy' = [copy EXCEPT ![p][a].state = "locked", ![p][a].tries = @ + 1]
      /\ handler' = [handler EXCEPT ![h] = rec]
      /\ UNCHANGED <<prepVars, sqlVars, accepted, taskMaster, suggestion>>
  BY Zenon DEF Receive
<1>2. copy[p][a] \in Copies /\ copy[p][a].tries < MaxDelivery
  BY <1>1, CopyTyped DEF PipelineInv, FuncInv, CopiesFit
<1>3. copy' = [copy EXCEPT ![p][a] = m]
  BY <1>1, CopyTyped DEF PipelineInv
<1>4. copy[p][a].tries + 1 \in 0 .. MaxDelivery /\ a \in 0 .. MaxSends
  BY <1>2, PipelineAssumption DEF Copies
<1>5. m \in Copies /\ m.state = "locked"
  BY <1>2, <1>4 DEF Copies
<1>6. /\ rec \in Invocations /\ rec.phase = "received" /\ rec.package = p /\ rec.copy = a
  BY <1>4 DEF Invocations, Idle
<1> HIDE DEF m, rec
<1>7. /\ copy' \in [Packages -> [1 .. MaxSends -> Copies]]
      /\ CopiesFit'
      /\ \A q \in Packages, b \in 1 .. MaxSends :
            /\ copy[q][b].state # "none" => copy'[q][b].state # "none"
            /\ copy'[q][b].state = "done" => copy[q][b].state = "done"
  <2>1. /\ UNCHANGED accepted /\ copy[p][a].state # "none"
        /\ m.state # "none" /\ m.state # "queued" /\ m.state # "done"
    BY <1>1, <1>5
  <2>2. PipelineTypeOK /\ FuncInv
    BY DEF PipelineInv
  <2>3. /\ copy' \in [Packages -> [1 .. MaxSends -> Copies]]
        /\ CopiesFit'
        /\ CopiesGoOn(p, m)
    BY <1>3, <1>5, <2>1, <2>2, CopyMoves, Zenon
  <2> QED
    BY <2>1, <2>3 DEF CopiesGoOn
<1>8. HandlerFits(h)'
  <2>1. handler'[h] = rec
    BY <1>1, Zenon DEF PipelineInv, PipelineTypeOK
  <2>2. copy'[p][a].state # "none"
    BY <1>1, <1>7
  <2> QED
    BY <1>6, <2>1, <2>2 DEF HandlerFits
<1>9. suggestion' \in [Packages -> Results \union {None}]
  BY <1>1 DEF PipelineInv, PipelineTypeOK
<1>10. \A q \in Packages :
              /\ suggestion[q] # None => suggestion'[q] # None
              /\ suggestion'[q] # None => suggestion[q] # None
              /\ \A b \in 1 .. MaxSends :
                    /\ copy[q][b].state # "none" => copy'[q][b].state # "none"
                    /\ copy'[q][b].state = "done" =>
                          copy[q][b].state = "done" \/ suggestion[q] # None
  BY <1>1, <1>7
<1> QED
  BY <1>1, <1>6, <1>7, <1>8, <1>9, <1>10, InvocationKeeps

\* The model is asked about a package whose JSON is there, from the catalog as it is.
LEMMA InvokeKeeps ==
    ASSUME PipelineInv, NEW h \in Handlers, InvokeAgent(h)
    PROVE  PipelineInv'
<1>1. /\ handler[h].phase = "received" /\ blob[handler[h].package] # None
      /\ UNCHANGED <<prepVars, sqlVars, busVars, taskMaster, suggestion>>
  BY DEF InvokeAgent
<1>2. PICK result \in [Lines -> taskMaster \union {Unresolved}] :
         handler' = [handler EXCEPT ![h].phase = "asked", ![h].result = result]
  BY DEF InvokeAgent
<1>3. result \in Results
  BY DEF PipelineInv, PipelineTypeOK, Results
<1>4. PICK rec : rec = [handler[h] EXCEPT !.phase = "asked", !.result = result]
  OBVIOUS
<1>5. /\ handler[h] \in Invocations /\ handler \in [Handlers -> Invocations]
      /\ handler[h].package \in Packages /\ handler[h].copy \in 1 .. MaxSends
      /\ Message(h).state # "none"
  BY <1>1, InHand
<1>6. handler' = [handler EXCEPT ![h] = rec]
  BY <1>2, <1>4, <1>5
<1>7. /\ rec \in Invocations /\ rec.phase = "asked" /\ rec.result = result
      /\ rec.package = handler[h].package /\ rec.copy = handler[h].copy
  BY <1>3, <1>4, <1>5 DEF Invocations
<1>8. HandlerFits(h)'
  <2>1. handler'[h] = rec /\ UNCHANGED <<blob, copy>>
    BY <1>1, <1>5, <1>6 DEF prepVars, busVars
  <2> QED
    BY <1>1, <1>3, <1>5, <1>7, <2>1 DEF HandlerFits, Message
<1> QED
  BY <1>1, <1>6, <1>7, <1>8, HandlerOnly

\* Its answer is noted with whether the codes are in force now.
LEMMA AnswerKeeps ==
    ASSUME PipelineInv, NEW h \in Handlers, AgentAnswers(h)
    PROVE  PipelineInv'
<1>1. /\ handler[h].phase = "asked"
      /\ handler' = [handler EXCEPT ![h].phase = "answered",
                        ![h].inForce = CodesOf(handler[h].result) \subseteq taskMaster]
      /\ UNCHANGED <<prepVars, sqlVars, busVars, taskMaster, suggestion>>
  BY Zenon DEF AgentAnswers
<1>2. PICK b \in BOOLEAN : b = (CodesOf(handler[h].result) \subseteq taskMaster)
  OBVIOUS
<1>3. PICK rec : rec = [handler[h] EXCEPT !.phase = "answered", !.inForce = b]
  OBVIOUS
<1>4. /\ handler[h] \in Invocations /\ handler \in [Handlers -> Invocations]
      /\ handler[h].package \in Packages /\ handler[h].copy \in 1 .. MaxSends
      /\ Message(h).state # "none"
  BY <1>1, InHand
<1>5. /\ blob[handler[h].package] # None /\ handler[h].result \in Results
  BY <1>1 DEF PipelineInv, FuncInv, HandlerFits
<1>6. handler' = [handler EXCEPT ![h] = rec]
  BY <1>1, <1>2, <1>3, <1>4
<1>7. /\ rec \in Invocations /\ rec.phase = "answered" /\ rec.result = handler[h].result
      /\ rec.package = handler[h].package /\ rec.copy = handler[h].copy
      /\ rec.inForce = b
  BY <1>3, <1>4 DEF Invocations
<1>8. HandlerFits(h)'
  <2>1. handler'[h] = rec /\ UNCHANGED <<blob, copy, taskMaster>>
    BY <1>1, <1>4, <1>6 DEF prepVars, busVars
  <2> QED
    BY <1>2, <1>4, <1>5, <1>7, <2>1 DEF HandlerFits, Message, CodesOf
<1> QED
  BY <1>1, <1>6, <1>7, <1>8, HandlerOnly

\* What is validated is in TaskMaster, so it has been in force since its answer.
LEMMA ValidateKeeps ==
    ASSUME PipelineInv, NEW h \in Handlers, ValidateCodes(h)
    PROVE  PipelineInv'
<1>1. /\ handler[h].phase = "answered" /\ CodesOf(handler[h].result) \subseteq taskMaster
      /\ handler' = [handler EXCEPT ![h].phase = "validated"]
      /\ UNCHANGED <<prepVars, sqlVars, busVars, taskMaster, suggestion>>
  BY DEF ValidateCodes
<1>2. PICK rec : rec = [handler[h] EXCEPT !.phase = "validated"]
  OBVIOUS
<1>3. /\ handler[h] \in Invocations /\ handler \in [Handlers -> Invocations]
      /\ handler[h].package \in Packages /\ handler[h].copy \in 1 .. MaxSends
      /\ Message(h).state # "none"
  BY <1>1, InHand
<1>4. /\ blob[handler[h].package] # None /\ handler[h].result \in Results
      /\ handler[h].inForce
  BY <1>1 DEF PipelineInv, FuncInv, HandlerFits
<1>5. handler' = [handler EXCEPT ![h] = rec]
  BY <1>1, <1>2, <1>3
<1>6. /\ rec \in Invocations /\ rec.phase = "validated" /\ rec.result = handler[h].result
      /\ rec.package = handler[h].package /\ rec.copy = handler[h].copy
      /\ rec.inForce = handler[h].inForce
  BY <1>2, <1>3 DEF Invocations
<1>7. HandlerFits(h)'
  <2>1. handler'[h] = rec /\ UNCHANGED <<blob, copy, taskMaster>>
    BY <1>1, <1>3, <1>5 DEF prepVars, busVars
  <2> QED
    BY <1>3, <1>4, <1>6, <2>1 DEF HandlerFits, Message
<1> QED
  BY <1>1, <1>5, <1>6, <1>7, HandlerOnly

\* An invocation that is gone holds nothing.
LEMMA IdleFits ==
    ASSUME PipelineTypeOK, NEW h \in Handlers, handler' = [handler EXCEPT ![h] = Idle]
    PROVE  Idle \in Invocations /\ HandlerFits(h)'
<1>1. handler \in [Handlers -> Invocations]
  BY Zenon DEF PipelineTypeOK, Invocations
<1>2. handler'[h].phase = "idle"
  BY <1>1 DEF Idle
<1>3. Idle \in Invocations
  BY PipelineAssumption DEF Idle, Invocations
<1> QED
  BY <1>2, <1>3 DEF HandlerFits

\* An invocation that dies leaves its message locked.
LEMMA DeathKeeps ==
    ASSUME PipelineInv, NEW h \in Handlers, HandlerDies(h)
    PROVE  PipelineInv'
<1>1. /\ handler' = [handler EXCEPT ![h] = Idle]
      /\ UNCHANGED <<prepVars, sqlVars, busVars, taskMaster, suggestion>>
  BY DEF HandlerDies
<1>2. Idle \in Invocations /\ HandlerFits(h)'
  BY <1>1, IdleFits DEF PipelineInv
<1> QED
  BY <1>1, <1>2, HandlerOnly

\* A suggestion that may be stored: the first of its event, or the one on record.
LEMMA MayPersistFacts ==
    ASSUME PipelineInv, NEW h \in Handlers, MayPersist(h),
           suggestion' = [suggestion EXCEPT ![handler[h].package] = handler[h].result]
    PROVE  /\ handler[h].phase = "validated" /\ handler[h].inForce
           /\ suggestion' \in [Packages -> Results \union {None}]
           /\ suggestion'[handler[h].package] # None
           /\ suggestion'[handler[h].package] = handler[h].result
           /\ \A p \in Packages :
                 /\ suggestion[p] # None => suggestion'[p] = suggestion[p]
                 /\ suggestion'[p] # suggestion[p] =>
                       /\ p = handler[h].package
                       /\ blob[p] # None /\ accepted[p] # {}
<1>1. /\ handler[h].phase = "validated"
      /\ suggestion[handler[h].package] \in {None, handler[h].result}
  BY DEF MayPersist
<1>2. handler[h].package \in Packages /\ accepted[handler[h].package] # {}
  BY <1>1, InHand
<1>3. /\ handler[h].result \in Results /\ handler[h].inForce
      /\ blob[handler[h].package] # None
  BY <1>1 DEF PipelineInv, FuncInv, HandlerFits
<1>4. handler[h].result # None
  BY <1>3, PipelineAssumption
<1>5. suggestion \in [Packages -> Results \union {None}]
  BY DEF PipelineInv, PipelineTypeOK
<1>6. suggestion' \in [Packages -> Results \union {None}]
  BY <1>2, <1>3, <1>5
<1>7. /\ suggestion'[handler[h].package] = handler[h].result
      /\ \A p \in Packages : p # handler[h].package => suggestion'[p] = suggestion[p]
  BY <1>2, <1>5
<1> QED
  BY <1>1, <1>2, <1>3, <1>4, <1>6, <1>7

\* The rows of the event are stored, once.
LEMMA StoreKeeps ==
    ASSUME PipelineInv, NEW h \in Handlers, PersistSuggestion(h)
    PROVE  PipelineInv'
<1>1. /\ MayPersist(h)
      /\ suggestion' = [suggestion EXCEPT ![handler[h].package] = handler[h].result]
      /\ handler' = [handler EXCEPT ![h].phase = "persisted", ![h].result = None,
                                    ![h].inForce = FALSE]
      /\ UNCHANGED <<prepVars, sqlVars, busVars, taskMaster>>
  BY Zenon DEF PersistSuggestion
<1>2. /\ handler[h].phase = "validated"
      /\ suggestion' \in [Packages -> Results \union {None}]
      /\ suggestion'[handler[h].package] # None
      /\ \A p \in Packages :
            /\ suggestion[p] # None => suggestion'[p] = suggestion[p]
            /\ suggestion'[p] # suggestion[p] => blob[p] # None /\ accepted[p] # {}
  BY <1>1, MayPersistFacts
<1>3. /\ handler[h] \in Invocations /\ handler \in [Handlers -> Invocations]
      /\ handler[h].package \in Packages /\ handler[h].copy \in 1 .. MaxSends
      /\ Message(h).state # "none"
  BY <1>2, InHand
<1>4. blob[handler[h].package] # None
  BY <1>2 DEF PipelineInv, FuncInv, HandlerFits
<1>5. PICK rec : rec = [handler[h] EXCEPT !.phase = "persisted", !.result = None,
                                          !.inForce = FALSE]
  OBVIOUS
<1>6. handler' = [handler EXCEPT ![h] = rec]
  BY <1>1, <1>3, <1>5
<1>7. /\ rec \in Invocations /\ rec.phase = "persisted"
      /\ rec.package = handler[h].package /\ rec.copy = handler[h].copy
  BY <1>3, <1>5 DEF Invocations
<1>8. UNCHANGED <<blob, copy, accepted>>
  BY <1>1 DEF prepVars, busVars
<1>9. HandlerFits(h)'
  <2>1. handler'[h] = rec
    BY <1>3, <1>6
  <2> QED
    BY <1>2, <1>3, <1>4, <1>7, <1>8, <2>1 DEF HandlerFits, Message
<1>10. CopiesFit' /\ copy' \in [Packages -> [1 .. MaxSends -> Copies]]
  BY <1>8, CopyTyped DEF PipelineInv, FuncInv, CopiesFit
<1>11. \A p \in Packages :
              /\ suggestion[p] # None => suggestion'[p] # None
              /\ suggestion'[p] # None =>
                    suggestion[p] # None \/ (blob[p] # None /\ accepted[p] # {})
              /\ \A a \in 1 .. MaxSends :
                    /\ copy[p][a].state # "none" => copy'[p][a].state # "none"
                    /\ copy'[p][a].state = "done" =>
                          copy[p][a].state = "done" \/ suggestion[p] # None
  BY <1>2, <1>8
<1> QED
  BY <1>1, <1>2, <1>6, <1>7, <1>8, <1>9, <1>10, <1>11, InvocationKeeps

\* A message is settled by the delivery that holds its lock, or not at all.
LEMMA SettleMoves ==
    ASSUME PipelineInv, NEW h \in Handlers, handler[h].phase # "idle",
           NEW m \in Copies, m.state # "none", m.state = "queued" => m.tries < MaxDelivery,
           Settle(h, m), UNCHANGED accepted
    PROVE  /\ handler' = [handler EXCEPT ![h] = Idle]
           /\ copy' \in [Packages -> [1 .. MaxSends -> Copies]]
           /\ CopiesFit'
           /\ CopiesGoOn(handler[h].package, m)
<1>1. /\ handler' = [handler EXCEPT ![h] = Idle]
      /\ \/ copy' = copy
         \/ copy' = [copy EXCEPT ![handler[h].package][handler[h].copy] = m]
  BY Zenon DEF Settle
<1>2. /\ handler[h].package \in Packages /\ handler[h].copy \in 1 .. MaxSends
      /\ copy[handler[h].package][handler[h].copy].state # "none"
  BY InHand DEF Message
<1>3. PipelineTypeOK /\ FuncInv
  BY DEF PipelineInv
<1>4. CASE copy' = copy
  BY <1>1, <1>3, <1>4, CopyTyped DEF FuncInv, CopiesFit, CopiesGoOn
<1>5. CASE copy' = [copy EXCEPT ![handler[h].package][handler[h].copy] = m]
  <2>1. /\ copy' \in [Packages -> [1 .. MaxSends -> Copies]]
        /\ CopiesFit'
        /\ CopiesGoOn(handler[h].package, m)
    BY <1>2, <1>3, <1>5, CopyMoves, Zenon
  <2> QED
    BY <1>1, <2>1
<1> QED
  BY <1>1, <1>4, <1>5

\* An invocation ends, and its message is completed only with a suggestion.
LEMMA EndOfInvocation ==
    ASSUME PipelineInv, NEW h \in Handlers, handler[h].phase # "idle",
           NEW m \in Copies, m.state # "none", m.state = "queued" => m.tries < MaxDelivery,
           m.state = "done" => suggestion[handler[h].package] # None,
           Settle(h, m), UNCHANGED <<prepVars, sqlVars, accepted, taskMaster>>,
           suggestion' \in [Packages -> Results \union {None}],
           \A p \in Packages :
              /\ suggestion[p] # None => suggestion'[p] # None
              /\ suggestion'[p] # None =>
                    suggestion[p] # None \/ (blob[p] # None /\ accepted[p] # {})
    PROVE  PipelineInv'
<1>1. /\ handler' = [handler EXCEPT ![h] = Idle]
      /\ copy' \in [Packages -> [1 .. MaxSends -> Copies]]
      /\ CopiesFit'
      /\ CopiesGoOn(handler[h].package, m)
  BY SettleMoves
<1>2. Idle \in Invocations /\ HandlerFits(h)'
  BY <1>1, IdleFits DEF PipelineInv
<1>3. \A p \in Packages :
              /\ suggestion[p] # None => suggestion'[p] # None
              /\ suggestion'[p] # None =>
                    suggestion[p] # None \/ (blob[p] # None /\ accepted[p] # {})
              /\ \A a \in 1 .. MaxSends :
                    /\ copy[p][a].state # "none" => copy'[p][a].state # "none"
                    /\ copy'[p][a].state = "done" =>
                          copy[p][a].state = "done" \/ suggestion[p] # None
  BY <1>1 DEF CopiesGoOn
<1> QED
  BY <1>1, <1>2, <1>3, InvocationKeeps

\* A message is completed after its suggestion was stored, or comes back.
LEMMA CompleteKeeps ==
    ASSUME PipelineInv, NEW h \in Handlers, Complete(h) \/ HandlerRaises(h)
    PROVE  PipelineInv'
<1>1. /\ handler[h].phase # "idle"
      /\ UNCHANGED <<prepVars, sqlVars, accepted, taskMaster, suggestion>>
  BY DEF Complete, HandlerRaises
<1>2. Message(h) \in Copies
  BY <1>1, InHand
<1>3. PICK m \in Copies :
         /\ Settle(h, m) /\ m.state # "none"
         /\ m.state = "queued" => m.tries < MaxDelivery
         /\ m.state = "done" => suggestion[handler[h].package] # None
  <2>1. CASE Complete(h)
    <3>1. Completed(Message(h)) \in Copies /\ Completed(Message(h)).state = "done"
      BY <1>2 DEF Completed, Copies
    <3>2. handler[h].phase = "persisted" /\ Settle(h, Completed(Message(h)))
      BY <2>1 DEF Complete
    <3>3. suggestion[handler[h].package] # None
      BY <3>2 DEF PipelineInv, FuncInv, HandlerFits
    <3> QED
      BY <3>1, <3>2, <3>3
  <2>2. CASE HandlerRaises(h)
    <3>1. /\ Returned(Message(h)) \in Copies
          /\ Returned(Message(h)).state \in {"queued", "dead"}
          /\ Returned(Message(h)).state = "queued" => Returned(Message(h)).tries < MaxDelivery
      BY <1>2, ReturnedFits
    <3>2. Settle(h, Returned(Message(h)))
      BY <2>2 DEF HandlerRaises
    <3> QED
      BY <3>1, <3>2
  <2> QED
    BY <2>1, <2>2
<1>4. /\ suggestion' \in [Packages -> Results \union {None}]
      /\ \A p \in Packages : suggestion'[p] = suggestion[p]
  BY <1>1 DEF PipelineInv, PipelineTypeOK
<1> QED
  BY <1>1, <1>3, <1>4, EndOfInvocation

\* The suggestion is on record though its message comes back.
LEMMA LostAnswerKeeps ==
    ASSUME PipelineInv, NEW h \in Handlers, CommitAnswerLost(h)
    PROVE  PipelineInv'
<1>1. /\ MayPersist(h) /\ Settle(h, Returned(Message(h)))
      /\ suggestion' = [suggestion EXCEPT ![handler[h].package] = handler[h].result]
      /\ UNCHANGED <<prepVars, sqlVars, accepted, taskMaster>>
  BY DEF CommitAnswerLost
<1>2. /\ handler[h].phase = "validated"
      /\ suggestion' \in [Packages -> Results \union {None}]
      /\ \A p \in Packages :
            /\ suggestion[p] # None => suggestion'[p] = suggestion[p]
            /\ suggestion'[p] # suggestion[p] => blob[p] # None /\ accepted[p] # {}
  BY <1>1, MayPersistFacts
<1>3. /\ Returned(Message(h)) \in Copies
      /\ Returned(Message(h)).state \in {"queued", "dead"}
      /\ Returned(Message(h)).state = "queued" => Returned(Message(h)).tries < MaxDelivery
  BY <1>2, InHand, ReturnedFits
<1>4. \A p \in Packages :
              /\ suggestion[p] # None => suggestion'[p] # None
              /\ suggestion'[p] # None =>
                    suggestion[p] # None \/ (blob[p] # None /\ accepted[p] # {})
  BY <1>2
<1> QED
  BY <1>1, <1>2, <1>3, <1>4, EndOfInvocation

\* TaskMaster is republished: what answered before is in force from now on, too.
LEMMA RepublishKeeps ==
    ASSUME PipelineInv, RepublishTaskMaster
    PROVE  PipelineInv'
<1>1. /\ taskMaster' \in SUBSET Codes
      /\ handler' = [h \in Handlers |->
            IF handler[h].phase \in {"answered", "validated"}
            THEN [handler[h] EXCEPT !.inForce =
                     @ \/ CodesOf(handler[h].result) \subseteq taskMaster']
            ELSE handler[h]]
      /\ UNCHANGED <<phase, outcome, seen, local, blob, quarantined>>
      /\ UNCHANGED <<stage, committed, accepted, copy, suggestion>>
  BY DEF RepublishTaskMaster, prepVars, sqlVars, busVars
<1>2. handler \in [Handlers -> Invocations]
  BY Zenon DEF PipelineInv, PipelineTypeOK, Invocations
<1>3. ASSUME NEW h \in Handlers
      PROVE  /\ handler'[h] \in Invocations
             /\ handler'[h].phase = handler[h].phase
             /\ handler'[h].package = handler[h].package
             /\ handler'[h].copy = handler[h].copy
             /\ handler'[h].result = handler[h].result
             /\ handler[h].phase \in {"answered", "validated"} =>
                   handler'[h].inForce =
                      (handler[h].inForce \/ CodesOf(handler[h].result) \subseteq taskMaster')
  <2>1. handler[h] \in Invocations /\ handler[h].inForce \in BOOLEAN
    BY <1>2 DEF Invocations
  <2>2. PICK b \in BOOLEAN :
           b = (handler[h].inForce \/ CodesOf(handler[h].result) \subseteq taskMaster')
    OBVIOUS
  <2>3. CASE handler[h].phase \in {"answered", "validated"}
    <3>1. handler'[h] = [handler[h] EXCEPT !.inForce = b]
      BY <1>1, <2>2, <2>3
    <3>2. [handler[h] EXCEPT !.inForce = b] \in Invocations
      BY <2>1 DEF Invocations
    <3>3. /\ handler'[h].phase = handler[h].phase /\ handler'[h].package = handler[h].package
          /\ handler'[h].copy = handler[h].copy /\ handler'[h].result = handler[h].result
          /\ handler'[h].inForce = b
      BY <2>1, <3>1 DEF Invocations
    <3> QED
      BY <2>2, <3>1, <3>2, <3>3
  <2>4. CASE handler[h].phase \notin {"answered", "validated"}
    BY <1>1, <2>1, <2>4
  <2> QED
    BY <2>3, <2>4
<1>4. ASSUME NEW h \in Handlers
      PROVE  HandlerFits(h)'
  <2>1. CASE handler[h].phase = "idle"
    BY <1>3, <2>1 DEF HandlerFits
  <2>2. CASE handler[h].phase # "idle"
    <3>1. /\ HandlerFits(h)
          /\ handler'[h].phase = handler[h].phase
          /\ handler'[h].package = handler[h].package
          /\ handler'[h].copy = handler[h].copy
          /\ handler'[h].result = handler[h].result
          /\ handler[h].phase \in {"answered", "validated"} =>
                handler'[h].inForce =
                   (handler[h].inForce \/ CodesOf(handler[h].result) \subseteq taskMaster')
      BY <1>3 DEF PipelineInv, FuncInv
    <3>2. CodesOf(handler[h].result)' = CodesOf(handler'[h].result)
      BY DEF CodesOf
    <3> QED
      BY <1>1, <2>2, <3>1, <3>2 DEF HandlerFits
  <2> QED
    BY <2>1, <2>2
<1>5. handler' \in [Handlers -> Invocations]
  BY <1>1, <1>3
<1>6. PipelineTypeOK'
  BY <1>1, <1>5, Zenon DEF PipelineInv, PipelineTypeOK, Invocations
<1>7. CopiesFit' /\ SuggestionHasOrigin' /\ DoneMeansSuggested'
  BY <1>1 DEF PipelineInv, FuncInv, CopiesFit, SuggestionHasOrigin, DoneMeansSuggested
<1>8. PrepInv'
  BY <1>1, PrepKept DEF PipelineInv, PrepInv, StagesFit, prepVars
<1> QED
  BY <1>4, <1>6, <1>7, <1>8 DEF PipelineInv, FuncInv

-----------------------------------------------------------------------------
(* The pipeline: the invariant and what it shows. *)

\* The first state, and every step from a state of the invariant.
LEMMA InitPipelineInv ==
    PipelineInit => PipelineInv
<1> SUFFICES ASSUME PipelineInit
             PROVE  PipelineInv
  OBVIOUS
<1>1. /\ phase = [r \in Runs |-> "preparing"]
      /\ outcome = [r \in Runs |-> [s \in Sources |-> "todo"]]
      /\ seen = [r \in Runs |-> {}] /\ local = [p \in Packages |-> None]
      /\ stage = [p \in Packages |-> "absent"] /\ accepted = [p \in Packages |-> {}]
      /\ committed = [p \in Packages |-> None] /\ blob = [p \in Packages |-> None]
      /\ quarantined = [r \in Runs |-> {}]
      /\ copy = [p \in Packages |-> [a \in 1 .. MaxSends |-> NoMessage]]
      /\ handler = [h \in Handlers |-> Idle] /\ taskMaster = Codes
      /\ suggestion = [p \in Packages |-> None]
  BY DEF PipelineInit, Outbox!Init
<1>2. NoMessage \in Copies /\ NoMessage.state = "none" /\ NoMessage.tries = 0
  BY PipelineAssumption DEF NoMessage, Copies
<1>3. Idle \in Invocations /\ Idle.phase = "idle"
  BY PipelineAssumption DEF Idle, Invocations
<1>4. /\ copy \in [Packages -> [1 .. MaxSends -> Copies]]
      /\ \A p \in Packages, a \in 1 .. MaxSends : copy[p][a] = NoMessage
  BY <1>1, <1>2
<1>5. handler \in [Handlers -> Invocations]
  BY <1>1, <1>3
<1>6. /\ phase \in [Runs -> {"preparing", "uploading", "quarantining", "done", "aborted"}]
      /\ outcome \in [Runs -> [Sources -> {"todo", "ok", "failed"}]]
      /\ seen \in [Runs -> SUBSET Invoices]
      /\ local \in [Packages -> Sources \union {None}]
      /\ stage \in [Packages -> {"absent", "stored", "published"}]
      /\ accepted \in [Packages -> SUBSET (1 .. MaxSends)]
      /\ committed \in [Packages -> Sources \union {None}]
      /\ blob \in [Packages -> Sources \union {None}]
      /\ quarantined \in [Runs -> SUBSET Sources]
      /\ taskMaster \in SUBSET Codes
      /\ suggestion \in [Packages -> Results \union {None}]
  BY <1>1
<1>7. PipelineTypeOK
  BY <1>4, <1>5, <1>6, Zenon DEF PipelineTypeOK, Copies, Invocations
<1>8. PrepInv
  <2>1. StagesFit /\ OutputMatchesCommit
    BY <1>1 DEF StagesFit, OutputMatchesCommit
  <2>2. \A r \in Runs : RunFits(r) /\ Accounted(r)
    BY <1>1, PackageOf DEF RunFits, Accounted
  <2> QED
    BY <2>1, <2>2 DEF PrepInv
<1>9. FuncInv
  <2>1. CopiesFit
    BY <1>2, <1>4 DEF CopiesFit
  <2>2. SuggestionHasOrigin
    BY <1>1 DEF SuggestionHasOrigin
  <2>3. DoneMeansSuggested
    BY <1>2, <1>4 DEF DoneMeansSuggested
  <2>4. \A h \in Handlers : HandlerFits(h)
    BY <1>1, <1>3 DEF HandlerFits
  <2> QED
    BY <2>1, <2>2, <2>3, <2>4 DEF FuncInv
<1> QED
  BY <1>7, <1>8, <1>9 DEF PipelineInv

LEMMA StepPipelineInv ==
    PipelineInv /\ [PipelineNext]_pipelineVars => PipelineInv'
<1> SUFFICES ASSUME PipelineInv, [PipelineNext]_pipelineVars
             PROVE  PipelineInv'
  OBVIOUS
<1>1. ASSUME NEW r \in Runs, RunStep(r)
      PROVE  PipelineInv'
  BY <1>1, RejectKeeps, PrepareKeeps, UploadKeeps, PhaseKeeps, QuarantineKeeps, EndKeeps
     DEF RunStep
<1>2. ASSUME NEW p \in Packages, Send(p) \/ MarkEventPublished(p)
      PROVE  PipelineInv'
  BY <1>2, SendKeeps, MarkEventKeeps
<1>3. ASSUME NEW p \in Packages, NEW a \in 1 .. MaxSends, LockExpires(p, a)
      PROVE  PipelineInv'
  BY <1>3, ExpiryKeeps
<1>4. ASSUME NEW h \in Handlers, ReceiveAny(h)
      PROVE  PipelineInv'
  BY <1>4, ReceiveKeeps DEF ReceiveAny
<1>5. ASSUME NEW h \in Handlers, HandlerStep(h)
      PROVE  PipelineInv'
  BY <1>5, InvokeKeeps, AnswerKeeps, ValidateKeeps, StoreKeeps, CompleteKeeps,
     LostAnswerKeeps, DeathKeeps DEF HandlerStep
<1>6. ASSUME RepublishTaskMaster
      PROVE  PipelineInv'
  BY <1>6, RepublishKeeps
<1>7. CASE UNCHANGED pipelineVars
  <2>1. /\ UNCHANGED <<phase, outcome, seen, local, blob, quarantined, stage, committed>>
        /\ UNCHANGED <<accepted, copy, handler, taskMaster, suggestion>>
    BY <1>7 DEF pipelineVars, prepVars, sqlVars, busVars, funcVars
  <2>2. PipelineTypeOK'
    BY <2>1 DEF PipelineInv, PipelineTypeOK
  <2>3. PrepInv'
    BY <2>1, PrepKept DEF PipelineInv, PrepInv, StagesFit, prepVars
  <2>4. FuncInv'
    BY <2>1, PrepFuncKept DEF PipelineInv, busVars, funcVars
  <2> QED
    BY <2>2, <2>3, <2>4 DEF PipelineInv
<1> QED
  BY <1>1, <1>2, <1>3, <1>4, <1>5, <1>6, <1>7 DEF PipelineNext

\* The invariant holds in every state of the pipeline.
THEOREM PipelineInvariant == PipelineSpec => []PipelineInv
  BY InitPipelineInv, StepPipelineInv, PTL DEF PipelineSpec

\* Every variable of the pipeline holds values of its kind.
THEOREM PipelineTyped == PipelineSpec => []PipelineTypeOK
<1>1. PipelineInv => PipelineTypeOK
  BY DEF PipelineInv
<1> QED
  BY <1>1, PipelineInvariant, PTL

\* The JSON the consumer reads is the package the database vouches for, whichever
\* ZIPs of a run hold the same invoice and wherever a run breaks off.
THEOREM OutputIsCommitted == PipelineSpec => []OutputMatchesCommit
<1>1. PipelineInv => OutputMatchesCommit
  BY DEF PipelineInv, PrepInv
<1> QED
  BY <1>1, PipelineInvariant, PTL

\* A suggestion is the end of the whole chain from commit to upload.
THEOREM SuggestionsHaveOrigin == PipelineSpec => []SuggestionHasOrigin
<1>1. PipelineInv => SuggestionHasOrigin
  BY DEF PipelineInv, FuncInv
<1> QED
  BY <1>1, PipelineInvariant, PTL

\* No message is consumed without its suggestion on record.
THEOREM NothingIsLost == PipelineSpec => []DoneMeansSuggested
<1>1. PipelineInv => DoneMeansSuggested
  BY DEF PipelineInv, FuncInv
<1> QED
  BY <1>1, PipelineInvariant, PTL

\* A run that reports completion accounts for every ZIP it downloaded.
THEOREM RunsAccount == PipelineSpec => []RunAccountsForSources
<1>1. PipelineInv => RunAccountsForSources
  BY DEF PipelineInv, PrepInv, Accounted, RunAccountsForSources
<1> QED
  BY <1>1, PipelineInvariant, PTL

\* A step that changes a suggestion stores the first of its event, and what it
\* stores has been in force since its model answered.
LEMMA SuggestionSteps ==
    PipelineInv /\ [PipelineNext]_pipelineVars =>
        \A p \in Packages :
            /\ suggestion[p] # None => suggestion'[p] = suggestion[p]
            /\ suggestion'[p] # suggestion[p] =>
                  \E h \in Handlers : /\ handler[h].package = p /\ handler[h].inForce
                                      /\ suggestion'[p] = handler[h].result
<1> SUFFICES ASSUME PipelineInv, [PipelineNext]_pipelineVars
             PROVE  \A p \in Packages :
                       /\ suggestion[p] # None => suggestion'[p] = suggestion[p]
                       /\ suggestion'[p] # suggestion[p] =>
                             \E h \in Handlers :
                                /\ handler[h].package = p /\ handler[h].inForce
                                /\ suggestion'[p] = handler[h].result
  OBVIOUS
<1>1. \/ UNCHANGED suggestion
      \/ \E h \in Handlers : PersistSuggestion(h) \/ CommitAnswerLost(h)
  <2>1. ASSUME NEW r \in Runs, RunStep(r)
        PROVE  UNCHANGED suggestion
    BY <2>1, Zenon DEF RunStep, StartUploads, UploadSummary, CompleteRun, AbortRun, EndRun,
       RejectSource, PrepareSource, Quarantine, Upload, funcVars
  <2>2. ASSUME NEW p \in Packages, Send(p) \/ MarkEventPublished(p)
        PROVE  UNCHANGED suggestion
    BY <2>2, Zenon DEF Send, MarkEventPublished, funcVars
  <2>3. ASSUME NEW p \in Packages, NEW a \in 1 .. MaxSends, LockExpires(p, a)
        PROVE  UNCHANGED suggestion
    BY <2>3, Zenon DEF LockExpires, funcVars
  <2>4. ASSUME NEW h \in Handlers, ReceiveAny(h) \/ HandlerStep(h)
        PROVE  UNCHANGED suggestion \/ PersistSuggestion(h) \/ CommitAnswerLost(h)
    BY <2>4, Zenon DEF ReceiveAny, Receive, HandlerStep, InvokeAgent, AgentAnswers,
       ValidateCodes, Complete, HandlerRaises, HandlerDies
  <2>5. RepublishTaskMaster => UNCHANGED suggestion
    BY Zenon DEF RepublishTaskMaster
  <2>6. UNCHANGED pipelineVars => UNCHANGED suggestion
    BY Zenon DEF pipelineVars, funcVars
  <2> QED
    BY <2>1, <2>2, <2>3, <2>4, <2>5, <2>6, Zenon DEF PipelineNext
<1>2. ASSUME NEW h \in Handlers, PersistSuggestion(h) \/ CommitAnswerLost(h)
      PROVE  \A p \in Packages :
                /\ suggestion[p] # None => suggestion'[p] = suggestion[p]
                /\ suggestion'[p] # suggestion[p] =>
                      /\ handler[h].package = p /\ handler[h].inForce
                      /\ suggestion'[p] = handler[h].result
  <2>1. /\ MayPersist(h)
        /\ suggestion' = [suggestion EXCEPT ![handler[h].package] = handler[h].result]
    BY <1>2, Zenon DEF PersistSuggestion, CommitAnswerLost
  <2> QED
    BY <2>1, MayPersistFacts
<1>3. CASE UNCHANGED suggestion
  BY <1>3
<1> QED
  BY <1>1, <1>2, <1>3

\* The first suggestion of an event is never replaced.
THEOREM FirstSuggestionStays == PipelineSpec => SuggestionIsFinal
<1>1. PipelineInv /\ [PipelineNext]_pipelineVars =>
         [\A p \in Packages : suggestion[p] # None => suggestion'[p] = suggestion[p]]_pipelineVars
  BY SuggestionSteps
<1> QED
  BY <1>1, PipelineInvariant, PTL DEF PipelineSpec, SuggestionIsFinal

\* The codes of a suggestion were in force together after its model had answered.
THEOREM SuggestionsAreGoverned == PipelineSpec => SuggestionIsGoverned
<1>1. PipelineInv /\ [PipelineNext]_pipelineVars =>
         [\A p \in Packages : suggestion'[p] # suggestion[p] =>
             \E h \in Handlers :
                 /\ handler[h].package = p /\ handler[h].inForce
                 /\ suggestion'[p] = handler[h].result]_pipelineVars
  BY SuggestionSteps
<1> QED
  BY <1>1, PipelineInvariant, PTL DEF PipelineSpec, SuggestionIsGoverned
=============================================================================
