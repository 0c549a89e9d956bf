----------------------------- MODULE DemoWorkflow -----------------------------
(***************************************************************************)
(* The CapEx demo v2 batch: attempts of one workflow request, each a       *)
(* process that determines the tasks of every requested package, assesses  *)
(* and bundles the lines, persists the determinations package by package   *)
(* and then the results, and writes a result artifact                      *)
(* (demo_v2_job.py, demo_v2_sql_job.py, demo_v2_persistence.py).           *)
(*                                                                         *)
(* Attempts overlap, crash at any step and are retried under the same      *)
(* workflow run ID.  A commit may succeed, fail, or succeed without its    *)
(* answer arriving.  Model output is a choice.  What an attempt decides of *)
(* the lines is DemoAssessment.                                            *)
(***************************************************************************)
EXTENDS DemoAssessment, Sequences

CONSTANTS
    Attempt,     \* executions of the job: the first, its retries and overlaps
    Order,       \* the packages, in the order of the request
    Snapshot,    \* the task codes of the TaskMaster snapshot file
    Masters,     \* the contents the TaskMaster view takes
    Requests     \* the requests considered

Unasked == "unasked"     \* no determination
NoRun == [stamp |-> "none", lines |-> [l \in {} |-> NoTask], bundles |-> {}]
NoArtifact == "no artifact"
Stages == {"VALIDATION", "PACKAGE_PROCESSING", "BUNDLING", "PERSISTENCE", "COMPLETION"}

\* valid: the loaded inputs match the request's references and versions.
\* immutable: the output URI is that of a blob, which is never overwritten.
RequestKind ==
    [mode : Modes, valid : BOOLEAN, failOnReview : BOOLEAN, immutable : BOOLEAN]

ASSUME WorkflowAssumption ==
    /\ Order \in Seq(Package) /\ Order # <<>>
    /\ \A k \in Package : \E i \in DOMAIN Order : Order[i] = k
    /\ \A i, j \in DOMAIN Order : Order[i] = Order[j] => i = j
    /\ Snapshot \subseteq Task
    /\ Masters \subseteq SUBSET Task
    /\ Requests \subseteq RequestKind
    /\ Unasked \notin Codes

VARIABLES
    request,     \* the request of the workflow run
    master,      \* the codes of the TaskMaster view
    suggestion,  \* TaskSuggestion rows: the code of each line, or Unasked
    run,         \* the stored AssessmentRun with its assessments and bundles
    artifact,    \* the document at the output URI
    attempt      \* attempt[p]: the state of execution p

demoVars == <<request, master, suggestion, run, artifact, attempt>>

PCs == {"idle", "fresh", "packages", "bundling", "tasks", "results", "finish",
        "write", "done", "dead"}
Statuses == {"SUCCEEDED", "PARTIAL", "FAILED"}

NotStarted ==
    [pc |-> "idle", catalog |-> {}, codes |-> [l \in Line |-> Unasked], at |-> 1,
     errors |-> {}, status |-> "none", wrote |-> FALSE]

-----------------------------------------------------------------------------

\* The codes of the lines of the packages that were processed.
Determined(p) ==
    LET codes == attempt[p].codes
    IN  [l \in {m \in Line : codes[m] # Unasked} |-> codes[l]]

\* createdAtUtc: the request's, or the time at which the SQL job executes.
Stamp(p) == IF request.mode = "sql" THEN p ELSE "requestedAtUtc"

\* What persist_demo_v2_results stores and compares by its digest.
Results(p) ==
    LET codes == Determined(p)
        bundles == Bundles(codes, request.mode)
    IN  [stamp |-> Stamp(p),
         lines |-> [l \in DOMAIN codes |->
                      Assessment(l, codes[l], bundles, request.mode)],
         bundles |-> bundles]

\* _validate_inputs: bundles and grouped assessments refer to each other.
Reconciled(results) ==
    /\ \A l \in DOMAIN results.lines :
          results.lines[l].disposition = "GROUPED"
              <=> \E b \in results.bundles : l \in b.members
    /\ \A b, c \in results.bundles : b # c => b.members \cap c.members = {}
    /\ \A b \in results.bundles :
          /\ b.members \subseteq DOMAIN results.lines
          /\ \A l \in b.members : results.lines[l].group = b.key
          /\ b.total = Total(b.members)

-----------------------------------------------------------------------------

DemoInit ==
    /\ request \in Requests
    /\ master \in Masters
    /\ suggestion = [l \in Line |-> Unasked]
    /\ run = NoRun
    /\ artifact = NoArtifact
    /\ attempt = [p \in Attempt |-> NotStarted]

\* The master data are published anew.
Republish ==
    /\ master' \in Masters \ {master}
    /\ UNCHANGED <<request, suggestion, run, artifact, attempt>>

\* The job loads its inputs, the TaskMaster from a file; inputs that do not match
\* the request end it with a FAILED result.
StartJob(p) ==
    /\ attempt[p].pc = "idle"
    /\ request.mode # "sql"
    /\ attempt' = [attempt EXCEPT ![p] =
          IF request.valid
          THEN [@ EXCEPT !.pc = "packages", !.catalog = Snapshot]
          ELSE [@ EXCEPT !.pc = "finish", !.errors = {"VALIDATION"}]]
    /\ UNCHANGED <<request, master, suggestion, run, artifact>>

\* The SQL job reads all of its inputs in one transaction and raises if they are
\* inconsistent or have changed since they were reviewed.
StartSqlJob(p) ==
    /\ attempt[p].pc = "idle"
    /\ request.mode = "sql"
    /\ attempt' = [attempt EXCEPT ![p].pc = IF request.valid THEN "fresh" ELSE "dead",
                                  ![p].catalog = master]
    /\ UNCHANGED <<request, master, suggestion, run, artifact>>

\* The SQL job refuses a workflow run ID that has evidence.  The transaction of
\* this check is over before the first row is written.
CheckFresh(p) ==
    /\ attempt[p].pc = "fresh"
    /\ attempt' = [attempt EXCEPT ![p].pc =
          IF run = NoRun /\ \A l \in Line : suggestion[l] = Unasked
          THEN "packages" ELSE "dead"]
    /\ UNCHANGED <<request, master, suggestion, run, artifact>>

\* A variant that goes on after the last package.
LateAfter(at, loop, then) == IF at > Len(Order) THEN then ELSE loop

\* A loop over the packages in the order of the request goes on, or is over.
After(at, loop, then) == IF at = Len(Order) THEN then ELSE loop

\* The next package: its lines are determined and assessed, or it is dropped with
\* an error, which the SQL job's resolver has none of.
ProcessPackage(p) ==
    LET at == attempt[p].at
        lines == LinesOf(Order[at])
        next == After(at, "packages", "bundling")
    IN  /\ attempt[p].pc = "packages"
        /\ \/ \E codes \in [lines -> Codes] :
                 /\ \A l \in lines :
                       codes[l] \in Determinable(l, attempt[p].catalog, request.mode)
                 /\ attempt' = [attempt EXCEPT
                       ![p].codes = [l \in Line |-> IF l \in lines THEN codes[l] ELSE @[l]],
                       ![p].at = at + 1, ![p].pc = next]
           \/ /\ request.mode # "sql"
              /\ attempt' = [attempt EXCEPT
                    ![p].errors = @ \cup {"PACKAGE_PROCESSING"},
                    ![p].at = at + 1, ![p].pc = next]
        /\ UNCHANGED <<request, master, suggestion, run, artifact>>

\* All assessed lines are bundled together.  One candidate without a positive
\* quantity fails the bundling, and nothing is persisted.
BundleLines(p) ==
    LET codes == Determined(p)
        unfit == \E l \in Candidates(codes, request.mode) : Unfit(l, request.mode)
    IN  /\ attempt[p].pc = "bundling"
        /\ attempt' = [attempt EXCEPT
              ![p].pc = IF unfit \/ DOMAIN codes = {} THEN "finish" ELSE "tasks",
              ![p].at = 1,
              ![p].errors = IF unfit THEN @ \cup {"BUNDLING"} ELSE @]
        /\ UNCHANGED <<request, master, suggestion, run, artifact>>

Fail(p, wrote) ==
    attempt' = [attempt EXCEPT ![p].pc = "finish",
                               ![p].errors = @ \cup {"PERSISTENCE"},
                               ![p].wrote = @ \/ wrote]

\* A variant that replaces the rows of an earlier attempt.
TasksReplaced(p, k) ==
    \E l \in LinesOf(k) : attempt[p].codes[l] \notin master \cup {NoTask}

\* A code that left the view, or rows with other codes, are refused.
TasksRefused(p, k) ==
    \E l \in LinesOf(k) :
        \/ attempt[p].codes[l] \notin master \cup {NoTask}
        \/ suggestion[l] \notin {Unasked, attempt[p].codes[l]}

\* The rows of one package, in a transaction of their own.
TasksStored(p, k) ==
    suggestion' = [l \in Line |-> IF l \in LinesOf(k) THEN attempt[p].codes[l]
                                  ELSE suggestion[l]]

\* The determinations of the next package are committed, found as they are, or
\* refused.  A package that was dropped is passed over.
PersistTasks(p) ==
    LET at == attempt[p].at
        k == Order[at]
        next == After(at, "tasks", "results")
        dropped == LinesOf(k) \cap DOMAIN Determined(p) = {}
    IN  /\ attempt[p].pc = "tasks"
        /\ \/ /\ dropped
              /\ attempt' = [attempt EXCEPT ![p].at = at + 1, ![p].pc = next]
              /\ UNCHANGED suggestion
           \/ /\ ~dropped /\ ~TasksRefused(p, k)
              /\ TasksStored(p, k)
              /\ attempt' = [attempt EXCEPT ![p].at = at + 1, ![p].pc = next,
                                            ![p].wrote = TRUE]
           \/ /\ ~dropped /\ ~TasksRefused(p, k)
              /\ TasksStored(p, k)
              /\ Fail(p, TRUE)
           \/ /\ ~dropped
              /\ Fail(p, FALSE)
              /\ UNCHANGED suggestion
        /\ UNCHANGED <<request, master, run, artifact>>

\* A variant that stores the results again.
ResultsReplaced(p) == ~Reconciled(Results(p))

\* Results that do not reconcile, or differ from those stored, are refused.
ResultsRefused(p) == ~Reconciled(Results(p)) \/ run \notin {NoRun, Results(p)}

\* The results of all packages, in one transaction.
PersistResults(p) ==
    /\ attempt[p].pc = "results"
    /\ \/ /\ ~ResultsRefused(p)
          /\ run' = Results(p)
          /\ attempt' = [attempt EXCEPT ![p].pc = "finish", ![p].wrote = TRUE]
       \/ /\ ~ResultsRefused(p)
          /\ run' = Results(p)
          /\ Fail(p, TRUE)
       \/ /\ Fail(p, FALSE)
          /\ UNCHANGED run
    /\ UNCHANGED <<request, master, suggestion, artifact>>

\* failOnReview counts after everything has been persisted.
ReviewRequired(p) ==
    /\ request.failOnReview
    /\ \E l \in DOMAIN Determined(p) :
          Outcome(l, attempt[p].codes[l], request.mode)[1] = "REVIEW"

\* A variant that forgets the errors.
LenientStatusOf(p, errors) ==
    IF DOMAIN Determined(p) = {} THEN "FAILED" ELSE "SUCCEEDED"

StatusOf(p, errors) ==
    IF DOMAIN Determined(p) = {} THEN "FAILED"
    ELSE IF errors # {} THEN "PARTIAL"
    ELSE "SUCCEEDED"

Finish(p) ==
    LET errors == attempt[p].errors \cup
                  (IF ReviewRequired(p) THEN {"COMPLETION"} ELSE {})
    IN  /\ attempt[p].pc = "finish"
        /\ attempt' = [attempt EXCEPT ![p].pc = "write", ![p].errors = errors,
                                      ![p].status = StatusOf(p, errors)]
        /\ UNCHANGED <<request, master, suggestion, run, artifact>>

\* A blob that exists raises, and the process exits as if it had failed; a file
\* is overwritten.
WriteResult(p) ==
    LET blocked == request.immutable /\ artifact # NoArtifact
    IN  /\ attempt[p].pc = "write"
        /\ artifact' = IF blocked THEN artifact ELSE p
        /\ attempt' = [attempt EXCEPT ![p].pc = IF blocked THEN "dead" ELSE "done"]
        /\ UNCHANGED <<request, master, suggestion, run>>

\* The replica is killed, or an exception outside of the error handling ends it:
\* what it had in memory is gone.
KillAttempt(p) ==
    /\ attempt[p].pc \notin {"idle", "done", "dead"}
    /\ attempt' = [attempt EXCEPT ![p] = [NotStarted EXCEPT !.pc = "dead"]]
    /\ UNCHANGED <<request, master, suggestion, run, artifact>>

DemoNext ==
    \/ Republish
    \/ \E p \in Attempt :
          \/ StartJob(p) \/ StartSqlJob(p) \/ CheckFresh(p)
          \/ ProcessPackage(p) \/ BundleLines(p)
          \/ PersistTasks(p) \/ PersistResults(p)
          \/ Finish(p) \/ WriteResult(p)
          \/ KillAttempt(p)

DemoSpec == DemoInit /\ [][DemoNext]_demoVars

-----------------------------------------------------------------------------

AttemptKind ==
    [pc : PCs, catalog : SUBSET Task, codes : [Line -> Codes \cup {Unasked}],
     at : 1 .. Len(Order) + 1, errors : SUBSET Stages,
     status : Statuses \cup {"none"}, wrote : BOOLEAN]

\* Types of the variables, and an attempt in a loop is at a package; the stored
\* run is described by the properties.
DemoTypeOK ==
    /\ request \in Requests
    /\ master \in Masters
    /\ suggestion \in [Line -> Codes \cup {Unasked}]
    /\ artifact \in Attempt \cup {NoArtifact}
    /\ attempt \in [Attempt -> AttemptKind]
    /\ \A p \in Attempt :
          attempt[p].pc \in {"packages", "tasks"} => attempt[p].at \in DOMAIN Order

Stored == run # NoRun

\* The stored assessments belong to the stored determinations: whichever
\* attempts wrote them and wherever they crashed or lost an answer, a line is
\* assessed for the very code its TaskSuggestion row holds, and a package is
\* assessed with all of its lines (persist_demo_v2_results after
\* _persist_task_determinations, which are transactions of their own).
AssessedAsSuggested ==
    Stored =>
        /\ \A l \in DOMAIN run.lines : suggestion[l] = run.lines[l].code
        /\ \A l, m \in Line :
              Fact[l].package = Fact[m].package /\ l \in DOMAIN run.lines
                  => m \in DOMAIN run.lines

\* Stored bundles are what the grouping policy promises: enough lines below the
\* threshold, expensed, of open projects in scope, alike in task, site, project
\* and currency; no line in two; the total theirs; and no line left out that
\* belongs to a bundle (evaluate_bundle_candidates).
BundlesAreSound ==
    LET alike(l, m) ==
            /\ suggestion[l] = suggestion[m]
            /\ ContextOf(l).site = ContextOf(m).site
            /\ ContextOf(l).project = ContextOf(m).project
            /\ Fact[l].currency = Fact[m].currency
        grouped(l) == run.lines[l].disposition = "GROUPED"
        eligible(l) == grouped(l) \/ run.lines[l].disposition = "CANDIDATE"
    IN  Stored =>
        /\ \A b \in run.bundles :
              /\ Cardinality(b.members) >= MinMembers
              /\ b.total = Total(b.members)
              /\ \A l \in b.members :
                    /\ grouped(l)
                    /\ run.lines[l].recommendation = "OPEX"
                    /\ Cost(l, request.mode) < Limit(l)
                    /\ Quantity(l, request.mode) > 0
                    /\ ContextOf(l).inScope /\ ContextOf(l).status = "OPEN"
                    /\ \A m \in DOMAIN run.lines :
                          m \in b.members <=> eligible(m) /\ alike(l, m)
        /\ \A l \in DOMAIN run.lines :
              /\ grouped(l) <=> \E b \in run.bundles : l \in b.members
              /\ eligible(l) /\ ~grouped(l) =>
                    LET rest == {m \in DOMAIN run.lines : eligible(m) /\ alike(l, m)}
                    IN  Cardinality(rest) < MinMembers \/ Total(rest) = 0

\* A stored recommendation is backed by a governed task and by rules that agree
\* and are approved, or synthetic in a request that allows that; capital
\* treatment also by a cost at the threshold in the currency it is stated in
\* (_assess_line).
DecisionsAreGoverned ==
    Stored => \A l \in DOMAIN run.lines :
        LET applying == {r \in Rules : suggestion[l] \in r.codes \/ l \in r.lines}
        IN  run.lines[l].recommendation # "REVIEW" =>
              /\ suggestion[l] \in Task
              /\ Fact[l].package \in Local /\ (Domestic \/ request.mode # "governed")
              /\ Approved \/ (Synthetic /\ request.mode # "governed")
              /\ \E n \in Natures : applying # {} /\ \A r \in applying : r.nature = n
              /\ run.lines[l].recommendation = "CAPEX" =>
                    /\ \A r \in applying : r.nature = "CAPITALIZABLE"
                    /\ Cost(l, request.mode) >= Limit(l)
                    /\ request.mode # "sql" => Fact[l].currency = Currency

\* A result can be believed: SUCCEEDED means that the tables hold this attempt's
\* results and every determination, FAILED that this attempt has written nothing
\* (run_demo_v2_workflow's status after partial failures and lost answers).
ReportsAreTrue ==
    \A p \in Attempt :
        /\ attempt[p].status = "SUCCEEDED" =>
              /\ run = Results(p)
              /\ suggestion = attempt[p].codes
        /\ attempt[p].status = "FAILED" => ~attempt[p].wrote

\* Rows are evidence: no later attempt, with other model answers, another catalog
\* or another clock, changes a determination or the results of the workflow run.
EvidenceIsFinal ==
    [][/\ \A l \in Line : suggestion[l] # Unasked => suggestion'[l] = suggestion[l]
       /\ Stored => run' = run]_demoVars
=============================================================================
