--------------------------- MODULE CapexPipeline ---------------------------
(***************************************************************************)
(* The CapEx invoice pipeline from ABBYY ZIP to task suggestion: the blob  *)
(* preparation job (autarch/capex/blob_job.py, job.py, persistence.py),    *)
(* the outbox, the Service Bus subscription and the Azure Function that    *)
(* consumes InvoiceReady (azure_function/function_app.py,                  *)
(* agent_invocation_*.py).                                                 *)
(*                                                                         *)
(* The outbox and its dispatchers are taken at their promise: this module  *)
(* composes the abstract EventDelivery, which InvoiceOutbox implements.    *)
(* The subscription is external: peek-lock delivery, redelivery when a     *)
(* handler raises or its lock expires, dead-lettering after MaxDelivery.   *)
(***************************************************************************)
EXTENDS Integers, FiniteSets

CONSTANTS
    Runs,         \* executions of the preparation job, each with its run ID
    Sources,      \* the ZIPs under the input prefix
    Invoices,     \* invoice identities
    InvoiceOf,    \* the invoice a ZIP contains: two ZIPs may hold the same one
    Lines,        \* lines of an invoice
    Codes,        \* task codes TaskMaster may hold
    MaxSends,     \* sends of one event
    MaxDelivery,  \* maxDeliveryCount of the subscription
    Handlers,     \* function invocations that run at the same time
    None,
    Unresolved    \* a line without a task code

\* What the model may answer: a code or none for every line.
Results == [Lines -> Codes \union {Unresolved}]

ASSUME PipelineAssumption ==
    /\ InvoiceOf \in [Sources -> Invoices]
    /\ MaxSends \in Nat \ {0}
    /\ MaxDelivery \in Nat \ {0}
    /\ Unresolved \notin Codes
    /\ None \notin Sources \union Results

\* A package, and its event, are named by the run and the invoice: PackageId
\* and EventId are uuid5 values of the two.
Packages == Runs \X Invoices

VARIABLES
    phase,       \* phase[r]: where run r is, from when its ZIPs are downloaded
    outcome,     \* outcome[r][s]: how ZIP s fared in run r
    seen,        \* seen[r]: seen_package_ids
    local,       \* local[p]: the ZIP whose package JSON is in the temp directory
    stage,       \* stage[p]: prep.InvoicePackage and its outbox row
    accepted,    \* accepted[p]: the sends the broker accepted
    committed,   \* committed[p]: the ZIP whose package is in the database
    blob,        \* blob[p]: the ZIP whose package JSON is at the output path
    quarantined, \* quarantined[r]: ZIPs copied to the quarantine prefix
    copy,        \* copy[p][n]: the n-th message of the event in the subscription
    handler,     \* handler[h]: the invocation in slot h
    taskMaster,  \* pub.v1_TaskMaster
    suggestion   \* suggestion[p]: task.TaskSuggestion rows of the event

prepVars == <<phase, outcome, seen, local, blob, quarantined>>
sqlVars  == <<stage, committed>>
busVars  == <<accepted, copy>>
funcVars == <<handler, taskMaster, suggestion>>
pipelineVars == <<prepVars, sqlVars, busVars, funcVars>>

Outbox == INSTANCE EventDelivery WITH Events <- Packages, MaxAttempts <- MaxSends

CodesOf(result) == {result[l] : l \in Lines} \ {Unresolved}

NoMessage == [state |-> "none", tries |-> 0]
\* inForce: all codes of the result have been in TaskMaster together at some
\* time since the model answered (not in the code).
Idle == [phase |-> "idle", package |-> None, copy |-> 0, tries |-> 0,
         result |-> None, inForce |-> FALSE]

PipelineInit ==
    /\ phase = [r \in Runs |-> "preparing"]
    /\ outcome = [r \in Runs |-> [s \in Sources |-> "todo"]]
    /\ seen = [r \in Runs |-> {}]
    /\ local = [p \in Packages |-> None]
    /\ Outbox!Init
    /\ committed = [p \in Packages |-> None]
    /\ blob = [p \in Packages |-> None]
    /\ quarantined = [r \in Runs |-> {}]
    /\ copy = [p \in Packages |-> [a \in 1..MaxSends |-> NoMessage]]
    /\ handler = [h \in Handlers |-> Idle]
    /\ taskMaster = Codes
    /\ suggestion = [p \in Packages |-> None]

-----------------------------------------------------------------------------
(* run_blob_preparation_job *)

\* A variant that lets a ZIP through whose invoice the run has seen.
AnyIsFresh(r, s) == TRUE

Fresh(r, s) == InvoiceOf[s] \notin seen[r]

\* A ZIP cannot be read or assembled, or repeats an invoice of the run: it is
\* reported before its package JSON is written.
RejectSource(r, s) ==
    /\ phase[r] = "preparing" /\ outcome[r][s] = "todo"
    /\ outcome' = [outcome EXCEPT ![r][s] = "failed"]
    /\ UNCHANGED <<phase, seen, local, blob, quarantined>>
    /\ UNCHANGED <<sqlVars, busVars, funcVars>>

\* The package JSON is written first.  persist_invoice_package then commits the
\* package and its outbox row together; or it fails; or the commit reaches the
\* database and its answer does not come back, which the job counts as failed.
\* A package that is there already is left alone: its SHA-256 is another ZIP's.
PrepareSource(r, s) ==
    LET p == <<r, InvoiceOf[s]>>
    IN  /\ phase[r] = "preparing" /\ outcome[r][s] = "todo"
        /\ Fresh(r, s)
        /\ seen' = [seen EXCEPT ![r] = @ \union {InvoiceOf[s]}]
        /\ local' = [local EXCEPT ![p] = s]
        /\ \/ /\ stage[p] = "absent"
              /\ Outbox!Store(p)
              /\ committed' = [committed EXCEPT ![p] = s]
              /\ \E o \in {"ok", "failed"} :
                    outcome' = [outcome EXCEPT ![r][s] = o]
           \/ /\ outcome' = [outcome EXCEPT ![r][s] = "failed"]
              /\ UNCHANGED <<sqlVars, accepted>>
        /\ UNCHANGED <<phase, blob, quarantined, copy, funcVars>>

StartUploads(r) ==
    /\ phase[r] = "preparing"
    /\ \A s \in Sources : outcome[r][s] # "todo"
    /\ phase' = [phase EXCEPT ![r] = "uploading"]
    /\ UNCHANGED <<outcome, seen, local, blob, quarantined>>
    /\ UNCHANGED <<sqlVars, busVars, funcVars>>

\* A variant that uploads what was written, whether its persist succeeded or not.
UploadWritten(r) == {p \in Packages : p[1] = r /\ local[p] # None}

\* Only the packages of the run's successes are uploaded.
ToUpload(r) == {<<r, InvoiceOf[s]>> : s \in {t \in Sources : outcome[r][t] = "ok"}}

Upload(r, p) ==
    /\ phase[r] = "uploading"
    /\ p \in ToUpload(r) /\ blob[p] = None
    /\ blob' = [blob EXCEPT ![p] = local[p]]
    /\ UNCHANGED <<phase, outcome, seen, local, quarantined>>
    /\ UNCHANGED <<sqlVars, busVars, funcVars>>

\* The summary goes up after the packages and before the quarantined ZIPs.
UploadSummary(r) ==
    /\ phase[r] = "uploading"
    /\ \A p \in ToUpload(r) : blob[p] # None
    /\ phase' = [phase EXCEPT ![r] = "quarantining"]
    /\ UNCHANGED <<outcome, seen, local, blob, quarantined>>
    /\ UNCHANGED <<sqlVars, busVars, funcVars>>

Quarantine(r, s) ==
    /\ phase[r] = "quarantining"
    /\ outcome[r][s] = "failed" /\ s \notin quarantined[r]
    /\ quarantined' = [quarantined EXCEPT ![r] = @ \union {s}]
    /\ UNCHANGED <<phase, outcome, seen, local, blob>>
    /\ UNCHANGED <<sqlVars, busVars, funcVars>>

\* The process and its temporary directory are gone.
EndRun(r, ending) ==
    /\ phase' = [phase EXCEPT ![r] = ending]
    /\ outcome' = [outcome EXCEPT ![r] = [s \in Sources |-> "todo"]]
    /\ seen' = [seen EXCEPT ![r] = {}]
    /\ local' = [p \in Packages |-> IF p[1] = r THEN None ELSE local[p]]
    /\ UNCHANGED <<blob, quarantined, sqlVars, busVars, funcVars>>

CompleteRun(r) ==
    /\ phase[r] = "quarantining"
    /\ \A s \in Sources : outcome[r][s] = "failed" => s \in quarantined[r]
    /\ EndRun(r, "done")

\* An upload raised BlobJobError, or the replica was killed.  A retry of the
\* job is another run, with a new run ID.
AbortRun(r) ==
    /\ phase[r] \in {"preparing", "uploading", "quarantining"}
    /\ EndRun(r, "aborted")

-----------------------------------------------------------------------------
(* The outbox dispatcher and the broker *)

\* A send is accepted.  Its copy enters the subscription, unless it is not the
\* first and duplicate detection drops it.
Send(p) ==
    /\ Outbox!Accept(p)
    /\ LET n == Cardinality(accepted'[p])
       IN  copy' \in {[copy EXCEPT ![p][n].state = "queued"]}
                     \union IF n = 1 THEN {} ELSE {copy}
    /\ UNCHANGED <<prepVars, committed, funcVars>>

MarkEventPublished(p) ==
    /\ Outbox!Confirm(p)
    /\ UNCHANGED <<prepVars, committed, copy, funcVars>>

\* A variant that is off by one at the delivery limit.
LateReturned(m) ==
    [m EXCEPT !.state = IF m.tries <= MaxDelivery THEN "queued" ELSE "dead"]

\* A message that was not settled comes back, or is dead-lettered.
Returned(m) ==
    [m EXCEPT !.state = IF m.tries < MaxDelivery THEN "queued" ELSE "dead"]

\* The lock of a delivery runs out, whether its handler is alive or not.
LockExpires(p, a) ==
    /\ copy[p][a].state = "locked"
    /\ copy' = [copy EXCEPT ![p][a] = Returned(@)]
    /\ UNCHANGED <<prepVars, sqlVars, accepted, funcVars>>

-----------------------------------------------------------------------------
(* invoice_agent_invocation *)

Receive(h, p, a) ==
    /\ handler[h].phase = "idle"
    /\ copy[p][a].state = "queued"
    /\ copy' = [copy EXCEPT ![p][a].state = "locked", ![p][a].tries = @ + 1]
    /\ handler' = [handler EXCEPT ![h] =
          [Idle EXCEPT !.phase = "received", !.package = p, !.copy = a,
                       !.tries = copy[p][a].tries + 1]]
    /\ UNCHANGED <<prepVars, sqlVars, accepted, taskMaster, suggestion>>

\* A variant that goes on when the package JSON is not there.
BlindInvokeAgent(h) ==
    /\ handler[h].phase = "received"
    /\ taskMaster # {}
    /\ \E result \in [Lines -> taskMaster \union {Unresolved}] :
          handler' = [handler EXCEPT ![h].phase = "asked",
                                     ![h].result = result]
    /\ UNCHANGED <<prepVars, sqlVars, busVars, taskMaster, suggestion>>

\* fetch_invoice_package, load_task_catalog and the question to the model, whose
\* answer will be one governed result per line from the catalog as it is now.
\* Asked again about the same invoice the model may answer otherwise.
InvokeAgent(h) ==
    /\ handler[h].phase = "received"
    /\ blob[handler[h].package] # None
    /\ taskMaster # {}
    /\ \E result \in [Lines -> taskMaster \union {Unresolved}] :
          handler' = [handler EXCEPT ![h].phase = "asked",
                                     ![h].result = result]
    /\ UNCHANGED <<prepVars, sqlVars, busVars, taskMaster, suggestion>>

AgentAnswers(h) ==
    /\ handler[h].phase = "asked"
    /\ handler' = [handler EXCEPT ![h].phase = "answered",
          ![h].inForce = CodesOf(handler[h].result) \subseteq taskMaster]
    /\ UNCHANGED <<prepVars, sqlVars, busVars, taskMaster, suggestion>>

\* A variant that trusts the catalog the model was given.
TrustingValidateCodes(h) ==
    /\ handler[h].phase = "answered"
    /\ handler' = [handler EXCEPT ![h].phase = "validated"]
    /\ UNCHANGED <<prepVars, sqlVars, busVars, taskMaster, suggestion>>

\* persist_task_suggestion validates the codes against TaskMaster as it is now.
\* It reads the view under no lock: it may change before the rows are stored.
ValidateCodes(h) ==
    /\ handler[h].phase = "answered"
    /\ CodesOf(handler[h].result) \subseteq taskMaster
    /\ handler' = [handler EXCEPT ![h].phase = "validated"]
    /\ UNCHANGED <<prepVars, sqlVars, busVars, taskMaster, suggestion>>

\* A variant that replaces the rows of a replayed event.
ReplacingMayPersist(h) == handler[h].phase = "validated"

\* The event's rows are locked (UPDLOCK, HOLDLOCK) from when they are read until
\* the commit; an event that has rows accepts only the same.
MayPersist(h) ==
    /\ handler[h].phase = "validated"
    /\ suggestion[handler[h].package] \in {None, handler[h].result}

PersistSuggestion(h) ==
    /\ MayPersist(h)
    /\ suggestion' = [suggestion EXCEPT ![handler[h].package] =
                         handler[h].result]
    /\ handler' = [handler EXCEPT ![h].phase = "persisted",
                                  ![h].result = None, ![h].inForce = FALSE]
    /\ UNCHANGED <<prepVars, sqlVars, busVars, taskMaster>>

\* The host settles the message, if the delivery's lock is still its own.
Message(h) == copy[handler[h].package][handler[h].copy]
OwnsLock(h) ==
    Message(h).state = "locked" /\ Message(h).tries = handler[h].tries

Settle(h, settled) ==
    /\ copy' = IF OwnsLock(h)
               THEN [copy EXCEPT ![handler[h].package][handler[h].copy] =
                        settled]
               ELSE copy
    /\ handler' = [handler EXCEPT ![h] = Idle]

Completed(m) == [m EXCEPT !.state = "done"]

Complete(h) ==
    /\ handler[h].phase = "persisted"
    /\ Settle(h, Completed(Message(h)))
    /\ UNCHANGED <<prepVars, sqlVars, accepted, taskMaster, suggestion>>

\* A variant of the function that swallows its error: the message is completed.
SilentHandlerRaises(h) ==
    /\ handler[h].phase \in {"received", "asked", "answered", "validated"}
    /\ Settle(h, Completed(Message(h)))
    /\ UNCHANGED <<prepVars, sqlVars, accepted, taskMaster, suggestion>>

\* Any step may raise - no blob, no catalog, no answer, codes refused, another
\* result on record, no database - and the host abandons the message.
HandlerRaises(h) ==
    /\ handler[h].phase \in {"received", "asked", "answered", "validated"}
    /\ Settle(h, Returned(Message(h)))
    /\ UNCHANGED <<prepVars, sqlVars, accepted, taskMaster, suggestion>>

\* The commit reached the database, and its answer was lost.
CommitAnswerLost(h) ==
    /\ MayPersist(h)
    /\ suggestion' = [suggestion EXCEPT ![handler[h].package] =
                         handler[h].result]
    /\ Settle(h, Returned(Message(h)))
    /\ UNCHANGED <<prepVars, sqlVars, accepted, taskMaster>>

\* The host dies: the message stays locked until its lock runs out.
HandlerDies(h) ==
    /\ handler[h].phase # "idle"
    /\ handler' = [handler EXCEPT ![h] = Idle]
    /\ UNCHANGED <<prepVars, sqlVars, busVars, taskMaster, suggestion>>

\* External: TaskMaster is republished.
RepublishTaskMaster ==
    /\ taskMaster' \in SUBSET Codes
    /\ handler' = [h \in Handlers |->
          IF handler[h].phase \in {"answered", "validated"}
          THEN [handler[h] EXCEPT !.inForce =
                   @ \/ CodesOf(handler[h].result) \subseteq taskMaster']
          ELSE handler[h]]
    /\ UNCHANGED <<prepVars, sqlVars, busVars, suggestion>>

-----------------------------------------------------------------------------
RunStep(r) ==
    \/ StartUploads(r) \/ UploadSummary(r) \/ CompleteRun(r) \/ AbortRun(r)
    \/ \E s \in Sources :
          RejectSource(r, s) \/ PrepareSource(r, s) \/ Quarantine(r, s)
    \/ \E p \in Packages : Upload(r, p)

HandlerStep(h) ==
    \/ InvokeAgent(h) \/ AgentAnswers(h) \/ ValidateCodes(h)
    \/ PersistSuggestion(h) \/ Complete(h)
    \/ HandlerRaises(h) \/ CommitAnswerLost(h) \/ HandlerDies(h)

ReceiveAny(h) ==
    \E p \in Packages, a \in 1..MaxSends : Receive(h, p, a)

PipelineNext ==
    \/ \E r \in Runs : RunStep(r)
    \/ \E p \in Packages : Send(p) \/ MarkEventPublished(p)
    \/ \E p \in Packages, a \in 1..MaxSends : LockExpires(p, a)
    \/ \E h \in Handlers : ReceiveAny(h) \/ HandlerStep(h)
    \/ RepublishTaskMaster

PipelineSpec == PipelineInit /\ [][PipelineNext]_pipelineVars

-----------------------------------------------------------------------------
\* Every variable holds values of its kind.
PipelineTypeOK ==
    /\ phase \in [Runs -> {"preparing", "uploading", "quarantining", "done",
                           "aborted"}]
    /\ outcome \in [Runs -> [Sources -> {"todo", "ok", "failed"}]]
    /\ seen \in [Runs -> SUBSET Invoices]
    /\ local \in [Packages -> Sources \union {None}]
    /\ stage \in [Packages -> {"absent", "stored", "published"}]
    /\ accepted \in [Packages -> SUBSET (1..MaxSends)]
    /\ committed \in [Packages -> Sources \union {None}]
    /\ blob \in [Packages -> Sources \union {None}]
    /\ quarantined \in [Runs -> SUBSET Sources]
    /\ copy \in [Packages -> [1..MaxSends ->
          [state : {"none", "queued", "locked", "done", "dead"},
           tries : 0..MaxDelivery]]]
    /\ handler \in [Handlers ->
          [phase : {"idle", "received", "asked", "answered", "validated",
                    "persisted"},
           package : Packages \union {None}, copy : 0..MaxSends,
           tries : 0..MaxDelivery, result : Results \union {None},
           inForce : BOOLEAN]]
    /\ taskMaster \in SUBSET Codes
    /\ suggestion \in [Packages -> Results \union {None}]

\* The JSON at the output path is the package that was committed with the
\* event, also when a second ZIP of the run holds the same invoice: what the
\* consumer reads is what the database vouches for.
OutputMatchesCommit ==
    \A p \in Packages : blob[p] # None => blob[p] = committed[p]

\* A suggestion exists only at the end of the whole chain: its package is
\* committed, its event was accepted by the broker, its JSON was uploaded.
SuggestionHasOrigin ==
    \A p \in Packages : suggestion[p] # None =>
        /\ stage[p] # "absent"
        /\ accepted[p] # {}
        /\ blob[p] # None

\* No message is consumed without its effect: an event whose message was
\* settled as done has its suggestion on record, through every crash, lost
\* lock and lost commit answer on the way.
DoneMeansSuggested ==
    \A p \in Packages, a \in 1..MaxSends :
        copy[p][a].state = "done" => suggestion[p] # None

\* A run that reports completion accounts for every ZIP it downloaded: its
\* package is at the output path and its event in the outbox, or the ZIP is in
\* quarantine; never both, and a repeated invoice only once.
RunAccountsForSources ==
    \A r \in Runs, s \in Sources : phase[r] = "done" =>
        LET p == <<r, InvoiceOf[s]>>
        IN  \/ s \in quarantined[r] /\ blob[p] # s
            \/ s \notin quarantined[r] /\ blob[p] = s /\ stage[p] # "absent"

\* The first suggestion of an event is the only one: redelivered, duplicated
\* and overlapping invocations never replace it, whatever the model answers.
SuggestionIsFinal ==
    [][\A p \in Packages :
          suggestion[p] # None => suggestion'[p] = suggestion[p]]_pipelineVars

\* The codes of a suggestion were in force together after its model had answered,
\* although the catalog the model saw may be older and TaskMaster may change
\* again between their validation and the commit.
SuggestionIsGoverned ==
    [][\A p \in Packages : suggestion'[p] # suggestion[p] =>
          \E h \in Handlers :
              /\ handler[h].package = p /\ handler[h].inForce
              /\ suggestion'[p] = handler[h].result]_pipelineVars
=============================================================================
