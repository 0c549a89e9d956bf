# A verification project for Autarch

Autarch is a Python framework for governed agents: every action an agent takes is
deliberated, checked by a capability kernel and policies, budgeted, executed and
recorded. On it sit a CapEx pipeline on Azure that turns scanned invoices
into task suggestions, and a batch that makes capitalization and bundling
recommendations of them. This directory holds TLA+ modules for the parts of both
that keep state over time, TLC configurations that check them on small
instances, and TLAPS proofs of the properties that matter most.

`tlc -config X.cfg M` checks a run, `tlapm M.tla` checks a proof module.
`PROJECT.json` maps every definition to the lines it models.

## 1. The system

| component | code | state it keeps | operations |
|---|---|---|---|
| preparation job | `autarch/capex/blob_job.py`, `job.py`, `persistence.py` | temp directory, `prep.InvoicePackage`, output and quarantine blobs | download ZIPs, assemble a package, write JSON, persist package and event in one transaction, upload, summarise, quarantine |
| transactional outbox | `capex/outbox_dispatcher.py`, `dispatch_job.py`, `service_bus.py`, `sql/migrations/003` | `prep.InvoiceOutbox` rows: status, attempts, due time, lock time | claim next, publish, mark published, mark failed |
| InvoiceReady consumer | `azure_function/function_app.py`, `capex/agent_invocation_*.py` | Service Bus lock, `task.TaskSuggestion` rows | fetch package, load catalog, ask the model, validate and persist |
| adaptive executor | `autarch/resilience.py` | queue, active, remaining, AIMD ceiling, outcomes | take an item, succeed, back off, requeue, fail |
| resilient provider | `autarch/resilience.py` | circuit state, failures, half-open trials, semaphore, quota buckets | allow, enter, call, leave, settle |
| agent run | `autarch/agent.py`, `runlog.py` | the journal's row of a run ID | run, enact, resume |
| why memory, mesh | `memory.py`, `mesh.py`, `transport.py` | hash-chained records, one chain per origin; bundles under way | record, export, import, verify, prune |
| precedents | `precedent.py` | ruling counts | record, look up |
| approvals and gateway | `approval.py`, `gateway.py` | approval payloads in SQLite | request, ratify, overrule, wait, enact |
| economy, orchestration | `economy.py`, `orchestration.py` | spent amounts, plan waves | authorize, charge, provision and run children |
| capabilities | `kernel.py`, `scoping.py`, `delegation.py`, `policy.py`, `rbac.py`, `guarantees.py` | grants, policies, roles (of an agent) | authorize, attenuate, evaluate, prove |
| agent factory | `factory.py`, `agent.py` (`spawn`) | registered packs, deployments, agents | register, request approval, create, run, retire, spawn |
| release review | `review.py` | reviews, votes and hash-chained events in SQLite | submit, vote, comment, supersede, expire, require an approval |
| demo v2 batch | `capex/demo_v2_*.py` | `task.TaskSuggestion`, `capex.AssessmentRun` and its rows, a result document | load, determine tasks, assess, bundle, persist twice, report |
| rewind | `rewind.py` | (reads the why memory) | choose candidates, undo |
| the rest | council, adapters, providers, recall, bridges, CLI | little or none | model calls, parsing, I/O, ranking |

How they interact. The preparation job commits a package and its outbox row
together; dispatch jobs on a one-minute schedule claim rows and publish them to a
topic with duplicate detection; the Azure Function consumes the topic under a
peek lock, reads the package blob the preparation job uploaded *after* its
commit, asks a model behind the resilient provider, and stores one suggestion
per event. An agent run calls council, kernel, policies, budget, adapter,
precedents and why memory in turn, and journals its steps; orchestrators run
many such agents in a thread pool and share a budget; the gateway runs them for
HTTP callers and parks what needs a human in the approval queue. The factory
compiles agents from packs whose guarantees it proves first, with an approval of
that queue; agents hand their grants down to the children they spawn. Nodes of a
realm exchange their why records as bundles, pulled and pushed. The demo batch
writes the same `task.TaskSuggestion` table as the Azure Function, under its
workflow run ID, and then its own result tables.

What is hard here. Replicas are killed between a claim and its mark; claims go
stale while their job still runs; a send or a commit succeeds and its answer is
lost; messages are redelivered, duplicated and dead-lettered; a catalog changes
under a running request; worker threads sleep outside a lock with work in their
hands; breaker and semaphore have locks of their own, and callers interleave
between them; an agent writes three stores with three commits, and may crash
between any two; nothing locks a run ID against a second resume; attempts of one workflow
run overlap, commit package by package, and bring other model answers; bundles
are repeated, relayed and cut short while two processes of a node record; a
review's clock is read before its lock; a pack is edited after its approval, and
so are the grant objects it shares with running agents.
`hazards` in
`PROJECT.json` lists each at its line, with the property that watches it or the
reason none does yet.

What makes each part correct:

- outbox: PUBLISHED is never a lie and never undone; no attempt is used twice;
  the broker gets no more copies than were counted; every event settles;
- pipeline: the blob a consumer reads is the one the database vouches for; no
  message is settled without its effect; an event gets one suggestion, whose
  codes were all in force; a finished run accounts for every ZIP;
- executor: no task lost or doubled, counters exact, the batch ends complete;
- provider: no permit and no trial slot leaks, the circuit opens at its
  threshold and closes again once the provider is back;
- run: a recorded outcome is true and stands; an execution is repeated only for a
  crash between the adapter's execute and the journal's last step, for a pruned
  record or for an overlap (the code promises fewer repeats than that: see below);
- approvals: an action is executed only with its quorum of names behind it, and
  one that is ratified is executed; an overrule stands unless an overlapping
  operation overwrites it;
- orchestration: a subtask starts after those it can wait for, spending passes a
  shared ceiling by a bounded amount only, and every plan ends;
- capabilities and factory: what was proved of a pack holds of every execution of
  its agents and sub-agents, delegation narrows, who acts goes back to ratified
  content; what rests on grants holds until somebody edits the shared objects;
- ledger: a chain fails verification only for damage, pruning or a fork of its
  origin, an altered record stays where it was altered, a merge loses nothing;
- review: one review of a release is in force at a time, a release has its
  quorum of named reviewers, and the event log alone bears out every status;
- demo batch: stored results fit the stored determinations whichever attempts
  wrote them, rest on governed rules, are never replaced, and the reported status
  can be believed.

## 2. The modules

| module | models | state, and its counterpart in the code |
|---|---|---|
| `EventDelivery` | the outbox's promise, abstract | `stage`, `accepted` |
| `InvoiceOutbox` | the outbox and its dispatch jobs | `row` (table row), `job` (a dispatch process), `sends`, `window`, `delivered` (broker) |
| `CapexPipeline` | job, outbox, broker and function together | `phase`, `outcome`, `seen`, `local` (a run), `stage`, `accepted` (outbox, through `EventDelivery`), `committed`, `blob`, `quarantined`, `copy` (messages), `handler`, `taskMaster`, `suggestion` |
| `TaskBatch` | what a batch promises, abstract | `result` |
| `AdaptiveExecutor` | `AdaptiveExecutor.run` | `queue`, `active`, `remaining`, `ceiling`, `outcome` (`_AdaptiveState`), `worker` (threads), `tries` (history) |
| `ResilientProvider` | `Resilient._call`, `_Breaker`, the gate of `_Limiter` | `circuit`, `failures`, `cooled`, `trials` (`_half_open`), `slots` (semaphore), `call` (threads), `healthy` (external) |
| `DurableRun` | `Agent.run`, `enact`, `resume` on one run ID | `journal`, `memory`, `rulings` (stores), `effects` (executions), `proc` (processes); `starts`, `overlaps`, `unclosed`, `pruned`, `lostRulings` (history) |
| `ApprovalGateway` | one parked action, from `enact` over its approval row to its execution | `row` (status and payload in SQLite), `due` (the clock), `thread` (HTTP requests with their copies), `enacted`; `votes`, `overruled`, `disturbed`, `abandoned` (history) |
| `Fleet` | `Orchestrator.run` and the budget its children share | `run`, `deps` (plan), `remaining`, `done`, `wave` (`Plan.waves`), `child` (agents), `cancelled` (pool), `spent` (`Budget`); `latest` (history) |
| `DemoAssessment` | what the batch makes of a line: tasks, gates, bundles | operators only |
| `DemoWorkflow` | attempts of one workflow request (file job and SQL job) | `request`, `master` (TaskMaster view), `suggestion` (`task.TaskSuggestion`), `run` (`capex.AssessmentRun` with its rows), `artifact` (result document), `attempt` (processes) |
| `WhyLedger` | why memories of a realm and their merges | `chain` (`why` tables, per node and origin), `writer` (processes in `record`), `import` (bundles), `damage` (bound); `issued`, `merged`, `tainted`, `damaged` (history) |
| `Capabilities` | kernel, scoping, delegation, policy, rbac, guarantees | operators only |
| `AgentFactory` | packs, approvals of packs, deployments, agents | `object` (the `CapabilityGrant` objects of callers), `pack` (`_packs` and the lists in it), `approvals` (queue), `agents` (deployments and agents, with what each grant `shares`); `last`, `intact` (history) |
| `ReleaseReview` | `ReleaseReviewStore` | `clock`, `reviews`, `votes`, `log` (its tables); `released` (history) |
| `MC...` | the same, for TLC | constants and symmetry |
| `CapexProofs` | theorems about `InvoiceOutbox` and `CapexPipeline` | |
| `ApprovalProofs` | theorems about `ApprovalGateway` and `ReleaseReview` | |
| `DurableProofs` | theorems about `DurableRun` and `DemoWorkflow` | |
| other `...Proofs` | theorems about the module of that name | |

The three modules that share a proof module with another name their
specification, type invariant and variables apart from it: `PipelineSpec`,
`ReviewSpec`, `DemoSpec` and so on.

**InvoiceOutbox.** One action per commit: `Persist` (the insert), `ClaimNext`
(`_CLAIM_NEXT`, an UPDLOCK/READPAST select and update), `PublishReturns` and
`PublishRaises` (the send; a raise may come after the broker accepted),
`MarkPublished`, `MarkFailed`, `MarkRefused` (the THROW of the status check) and
`Crash`. READPAST is modelled by what it does: a claim may pass over as many
earlier rows as other jobs have open transactions. Clocks are relative to now
(`due`, `lockAge`, `age`, `window`) and moved by `Tick`; `OverdueCap` bounds how
far overdue a row is told apart. The broker is external and modelled by its
duplicate detection.

**CapexPipeline.** Composes `EventDelivery`, not `InvoiceOutbox`: the refinement
checked and proved below is what allows it. A package is the pair (run,
invoice), since its ID is a uuid5 of the two; a package's content is the ZIP it
came from, which is what the properties tell apart. Persisting may fail, succeed,
or succeed while the job sees a failure. The handler asks the model with one
catalog (`InvokeAgent`), hears its answer later (`AgentAnswers`), validates it
against another (`ValidateCodes`) and stores it (`PersistSuggestion`): the second
read takes no lock, so TaskMaster may change again before the commit. `PrepareSource`
leaves out what `persist_invoice_package` does when the package is there already
(`persistence.py:344-364`, a replay of a READY one, a deletion of one left PREPARING):
a package ID contains the run ID, which is fresh, and a package persists once per run. `inForce`
is a history field that remembers whether the codes were in force together
since the answer.

**AdaptiveExecutor.** Every action is one critical section of the condition
variable. The ceiling is a float of which only `int(...)` is compared: the model
keeps the integer and lets a success leave or raise it, a throttle leave or lower
it, whatever the factors are.

**ResilientProvider.** `allow`, `enter`, `leave`, `settle` are separate steps, as
their locks are. The backoff happens between the end of the call and `leave`, as
in the code (the sleep is inside the try block). The failure count is saturated
at the threshold. A call's `onTrial` (history) says that `allow` counted it as a
trial of the present recovery. Quotas only delay and are left out.

**DurableRun.** Journal, precedents and why memory commit separately, so
`Execute`, `RecordRuling`, `RecordWhy` and `Close` are separate, and `Crash`
may fall between any two. An exception that leaves `run` is a crash: the stores
look the same. The look-up of the journal and its start are one step; nothing
happens in between that a later step could not do. `effects` counts executions
the adapter reported as ok. `Prune` is `WhyMemory.prune` at any cutoff.

**ApprovalGateway.** `ratify`, `overrule`, `wait` and `pending_list` read the
row (`ReadPending`, `ReadDecided`), change a copy in memory (`CastVote`,
`Overrule`, `Expire`) and write the whole of it back (`Store`), as the code does
with a SELECT and an UPDATE by id. The queue has no lock, and `GovernanceGateway`
takes its own only to execute, so these are steps of their own. One row is
enough: no operation lets one row decide about another, and `pending_list` is a
thread per row. `disturbed` remembers whether a store ever overwrote what its
thread had not read. Left out: actions that need no ratification, unknown ids
(KeyError), who decided and why.

**Fleet.** `Plan.waves` is computed wave by wave (`BeginWave`, `EndWave`): the
code computes them all first, from `depends_on` only, which does not change.
The pool takes a wave in its order on `max_parallel` threads; an exception is met
in the order of results and cancels what has not begun. Of a child only the
budget check (`Pass`), the charge after the execution (`Charge`) and its end are
told apart. Costs and ceilings are whole numbers where the code has floats, on
one meter. The planners in the repository leave `depends_on` empty; a caller's own
planner fills it in, so any graph is allowed. Ids are taken to be distinct, as
`new_id` makes them (equal ones would make `waves` drop a subtask).

**DemoWorkflow.** One action per commit or decision of `run_demo_v2_workflow`:
`ProcessPackage` (the loop body), `BundleLines`, `PersistTasks` (one package, one
transaction), `PersistResults`, `Finish`, `WriteResult`. A commit may succeed,
fail, or succeed while the attempt sees a failure. A request has one of three
modes: governed, with synthetic assumptions allowed, or the SQL job's, which
reads its inputs in one transaction, resolves tasks without a model and refuses a
run ID with evidence in a transaction of its own (`CheckFresh`). Persistence is
always asked for. An attempt that is killed (`KillAttempt`) loses what it had in
memory and keeps what it had committed. `DemoAssessment` carries the decisions: a
line is what retrieval and rules find in it (source task, agreed task, unique
description, candidates), not its text; the model's choice among the candidates is
free. `TasksRefused` looks at TaskMaster in the step that commits the determinations,
where the code reads it earlier in that transaction, without a lock: an attempt could
pass the check and commit after a change of the view. No property is about that
window (for the Azure Function, `CapexPipeline` has it as a step of its own).

**WhyLedger.** A seal is the sequence of record IDs it was computed over, so equal
seals mean equal histories, as with SHA-256. `record` is two steps (`ReadSeal`,
`InsertRow`), since the seal is read outside of any transaction. An export reads
a store at once (one SELECT); its rows are merged one commit each, interleaved
over origins and imports, which covers every order in which `export_rows` can
list the origins. A served POST and a pull are the same import. `tainted` holds
the origins with a damaged, pruned or forked row anywhere.

**Capabilities, AgentFactory.** A dotted name or path is a sequence of segments. A
grant has one key for each kind of constraint: a path, hosts (an allowlist that is
no constraint when empty), choices, forbidden classes, an amount. The approval of
a pack is one step each way; the queue itself is `ApprovalGateway`. Agents act
through `run` or `enact`, in any state of their deployment: `enact` does not look at
it.

Objects are shared as in the code. `compile` passes `list(blueprint.grants)`
(`factory.py:300`): a deployed agent and its kernel have a list of their own with
the grant objects of the blueprint in it. `attenuate_grant` makes new objects, whose
allowlists and prohibitions may still be the lists of the parent, or of the request
(`Handed`, `Holder`). So there are three kinds of edits: `EditPack` gives the pack
other lists of grants, policies and invariants, which no compiled agent sees (they are
copied or compiled); `EditGrant` binds the scope, the limits or the name of a grant
object anew, which every holder of the object sees (`Rebound`); `EditLists` changes its
lists in place, which everybody sees who has them (`Rewritten`). `intact` remembers
whether an edit ever changed what an agent may do, or what an ancestor might when it
handed its grants down.

**ReleaseReview.** Every operation is a BEGIN IMMEDIATE transaction and one action,
with a `now` that may lie in the past: `submit` and `_vote` read the clock before
they get the lock. Expiry is part of whatever operation finds it due. Rows of one
clock tick come in any order, as ORDER BY created_at leaves them.

## 3. The runs

| run | cfg | result | bounds, and why they are enough |
|---|---|---|---|
| outbox | `InvoiceOutbox.cfg` | holds | two events and two jobs: one row contended, one passed over; two attempts: a retry and an exhaustion; a claim can go stale while its job lives; about 250,000 states |
| pipeline | `CapexPipeline.cfg` | holds | one run, two ZIPs of the same invoice, two sends, two handlers, two deliveries per message, two task codes: every pair that can compete does; about 1,000,000 states |
| executor | `AdaptiveExecutor.cfg` | holds | three tasks on three threads, up to two at a time: one runs, one waits, one backs off; about 20,000 states |
| resilient | `ResilientProvider.cfg` | holds | two threads, one permit, one trial: one waits while the other opens and closes the circuit; about 32,000 states |
| durable | `DurableRun.cfg` | holds | two processes, four starts: overlap, crash, resume after both, prune; about 1,150,000 states |
| approval | `ApprovalGateway.cfg` | holds | four requests: the parking one and three more, the fewest with which a lost vote reopens a row whose action was executed; quorums 0 (which becomes 1) and 2, two voters; about 730,000 states |
| approval_overrule | `ApprovalGatewayOverrule.cfg` | **violated** | the parking request, one vote, one overrule |
| fleet | `Fleet.cfg` | holds | four subtasks in five plans (flat, forked, chained, cyclic, dangling), two workers, a ceiling that any two of the costs pass, one subtask with a budget of its own; about 5,700 states |
| demo | `DemoWorkflow.cfg` | holds | two attempts: one can be anywhere while the other crashes, loses an answer or comes later with other answers; two packages, either of which may be dropped, and seven lines: two that make a bundle, one that joins it if the model says so, one like them in another currency, one above the threshold, one that is so only by that currency's, one that fails the bundling; all three modes, valid and invalid inputs, a catalog that loses a code; about 110,000 states |
| ledger | `WhyLedger.cfg` | holds | three nodes (a relay needs three), two writers on one of them, two imports under way, two records per origin, one damage or prune; about 2,100,000 states |
| authority | `AgentFactory.cfg` | holds | three agents: one deployment (`MaxDeployed`), its child and a grandchild; three bodies of one pack, one of which blocks only under a predicate; one grant object that can lose its path (an attribute bound anew) or its prohibitions (a list emptied in place), before or after request, approval, compilation and delegation; two lists of requests, which between them narrow, widen, empty or leave a constraint out; six actions; one approval; about 166,000 states |
| review | `ReleaseReview.cfg` | holds | two contents, two reviewers who decide alone or together, two reviews, a clock of three values with reviews that live for one tick; about 530,000 states |

The properties (the type invariants are proved and in no run):

- *outbox*: `AttemptsAreExclusive`, `EventsSettle` (liveness), `ImplementsDelivery`
  (refinement of `EventDelivery`);
- *pipeline*: `OutputMatchesCommit`, `SuggestionHasOrigin`, `DoneMeansSuggested`,
  `RunAccountsForSources`, `SuggestionIsFinal`, `SuggestionIsGoverned`;
- *executor*: `TasksAreConserved`, `TriesAreBounded`, `ImplementsBatch` (refinement of `TaskBatch` with its completion),
  `RunReturns` (liveness);
- *resilient*: `TrialsAreHeld`, `Recovers` and `CallsEnd` (liveness);
- *durable*: `TerminalVouches`, `RepeatsAreExplained`, `RulingsAreAttested`,
  `OutcomeIsFinal`;
- *approval*: `QuorumBacksExecution`, `ExactUnlessDisturbed`,
  `RatifiedIsCarriedOut` (liveness);
- *fleet*: `DependenciesFirst`, `SpendIsBounded`, `PlanEnds` (liveness);
- *demo*: `AssessedAsSuggested`, `BundlesAreSound`, `DecisionsAreGoverned`,
  `ReportsAreTrue`, `EvidenceIsFinal`;
- *ledger*: `ChainsBreakForCause`, `AlterationsStayHome`, `MergesAreComplete`;
- *authority*: `GuaranteesHold`, `AuthorityIsBounded`, `OnlyApprovedActs`;
- *review*: `OneActiveReview`, `ReleaseIsBacked`, `AuditTrailIsLawful`.

Every property has a mutant: a variant of one definition, kept beside it in the
module, with which TLC finds the property violated. Properties that are proved
and not in a run (`PublishedWasAccepted`, `SendsAreCharged`, `PublishedIsFinal`,
`CountersAgree`, `ReturnsComplete`, `PermitsAreHeld`, `ClosedIsBelowThreshold`,
the type invariants) were checked by TLC before they were proved.

Deadlock is checked in *outbox*, *pipeline* and *resilient*. The others really
stop: the batch ends and its threads exit (*executor*), starts, attempts, reviews,
records or agents are used up (*durable*, *demo*, *review*, *ledger*,
*authority*), every request is answered (*approval*), the orchestration ends
(*fleet*).

### What the violated run shows

`OverruleDecides`: a vote that read the row before an overrule was stored, and is
stored after it, makes the overruled row ratified (`approval.py:129`: an overrule
decides immediately). `ExactUnlessDisturbed` states what holds as long as no
store overwrites what its thread had not read, and `QuorumBacksExecution` what
holds always.

### Other divergences from docs and comments

The models contain each of these behaviours; the properties above are stated so
that they say what does hold.

- Outbox: a dispatch job that dies while it holds the last attempt leaves its row
  PUBLISHING for good (`_CLAIM_NEXT` asks for attempts left of stale claims too);
  `docs/CAPEX_SERVICE_BUS_PUBLISHING.md:76` says the dispatcher recovers stale
  `PUBLISHING` claims. `EventsSettle` is stated as "published, or out of attempts".
- Outbox: the longest retry delay equals the duplicate window, so a retry of an
  accepted message can be delivered a second time; the error message at
  `outbox_dispatcher.py:280` counts on the broker. `SuggestionIsFinal` shows that
  such copies do no harm.
- Provider: a call from before the circuit opened gives back a trial slot it never
  took, so more trials run than `half_open_max` (`resilience.py:168`).
- Run: a process that dies after `adapter.execute` (`agent.py:434`) and before the
  journal's last step (`agent.py:486`) has left no trace a resume looks at, so the
  resume executes the action a second time: also when the why record is already
  written, since it is looked up through the journal's `why_id` only. `runlog.py:3-6`
  says that a process that dies mid-run "can be **resumed without re-executing** an
  action that already happened", `runlog.py:11` "the side effect is never repeated",
  `README.md:505` "a crashed run resumes without ever repeating a side effect" and
  `README.md:531` "no double side effects". The model has the second execution after five
  steps of one process in `enact`: a start, the execution, a crash, a start, the
  execution. No property here states the promise, because the code
  does not keep it: `RepeatsAreExplained` is weaker, and says that such a crash, a
  prune or an overlap is the only way to a repeat, each good for one.
- Run: when the why record of a completed run is pruned, a resume executes the
  action again (`runlog.py:9-11`: never repeated). `RepeatsAreExplained` counts it
  (`pruned`), and `OutcomeIsFinal` is about outcomes on record.
- Run: after a crash the steps are journaled again from `deliberated` on, and an
  overlapping process moves a closed row back to running; `runlog.py:13` calls the
  steps monotonic, and names `executed`, which is never written.
- Factory: an agent keeps the grant objects of its blueprint (`factory.py:300`), and
  the kernel reads their scope and limits at each action. An edit of
  `pack.blueprints[...].grants[0].scope` after `create` therefore changes what a
  deployed agent may do, without a proof or an approval; through a list edited in
  place it also changes its sub-agents, and what it hands down from then on. An
  invariant that the grants enforced is then violated. `guarantees.py:25-26` calls a
  guarantee "always sound", `guarantees.py:29-30` says that it holds for every
  sub-agent too, `agent.py:317` calls it "a sound proof that holds regardless of what
  the model proposes", `factory.py:443` a blueprint immutable, and
  `docs/AGENT_FACTORY.md:93` speaks of immutable versions. `GuaranteesHold`,
  `AuthorityIsBounded` and `OnlyApprovedActs` say what is left: invariants that an
  unconditional policy enforces hold whatever is edited, sub-agents stay within the
  roles of their principal, who acts goes back to ratified content; the rest holds
  of agents that no edit has reached (`intact`). Without `intact` in them TLC finds
  each of the three violated by an `EditGrant` after a `Create`.
- Factory: the fingerprint covers the names of the adapters, not their sources
  (`factory.py:208-219`): `adapter_catalog[name]` can be replaced and compiled under
  the same approval. Adapters are not part of the model.
- Delegation: narrowing accepts an empty allowlist (`scoping.py:301`), and
  `evaluate` takes an empty list for no constraint, so the child's grant is then
  not narrower. Prohibitions are replaced, not added to.
  `AuthorityIsBounded` therefore speaks of names, paths, choices and ceilings.
- Ledger: a record pruned or redacted here comes back, whole, with the next
  bundle of a peer, behind its successors, and the chain no longer verifies;
  exports carry unredacted payloads; a row altered at its source is refused by
  every peer and leaves a gap there that no later merge closes. `damaged`,
  `tainted` and `ids` mark exactly these cases.
- Review: `submit` takes the latest row by `created_at`; when rows of one tick, or
  of a clock read before a wait, lie out of order, a rerun of an unchanged request
  is compared with the wrong row and supersedes the open review (`review.py:272`:
  an unchanged request is returned unchanged). `OneActiveReview` still holds.
- Demo batch: `examples/CAPEX_DEMO_V2_FLOW.md` (step 8) says results are persisted
  transactionally by workflow run; determinations are committed package by
  package before the results. A file at the output URI is overwritten, only a
  blob is immutable. One candidate line without a positive quantity keeps all
  lines of the run from being stored. The SQL job has a policy for each currency, but
  the members a bundle needs are those of the first (`demo_v2_sql_job.py:594`,
  `demo_v2_bundling.py:212`): `MinMembers` is one number, `Threshold` a function.

What `docs/PLAN.md:428` concedes, that parallel siblings overshoot a shared
budget, is given a bound by `SpendIsBounded`: one largest cost for each worker but
one, and nothing with `max_parallel = 1`.

### Fairness

- `InvoiceOutbox!FairSpec`: time passes, the schedule (`*/1 * * * *`) starts jobs,
  a job that runs takes its next step; and a job that can claim again and again
  is not killed every single time before its claim commits (strong fairness of
  `ClaimNext`). Nothing is assumed of `Crash` or of the broker's answers.
- `AdaptiveExecutor!FairSpec`: each thread that can step does; a waiting worker
  polls with `cv.wait(timeout=0.25)` and a task that was called returns or raises.
- `ResilientProvider!FairSpec`: threads run, a call returns or times out, the
  cooldown passes, callers keep calling, and the semaphore does not pass one
  thread over for ever (strong fairness of `Enter`: CPython wakes its waiters in
  order). `Recovers` also supposes, in its statement, that the provider is
  healthy from some time on.
- `ApprovalGateway!Spec`: a thread that has begun goes on unless it dies, and a
  waiting one reaches its deadline. Nobody has to vote, overrule or list.
- `Fleet!Spec`: the master and each child that has begun go on; providers and
  adapters return or raise (they have timeouts of their own).
- `CapexPipeline`, `DurableRun`, `DemoWorkflow`, `WhyLedger`, `AgentFactory` and
  `ReleaseReview` check safety only: a package whose upload failed, a run nobody
  resumes, an attempt that dies, a peer that never answers, a reviewer who does
  not vote need never finish, and nothing in the code retries them for ever.

## 4. The proofs

Each `...Proofs` module proves, for every value of the constants its `ASSUME`
allows, `Spec => []Inv` from an inductive invariant, with one step per action.

| module | theorems | inductive invariant: what is added, and why |
|---|---|---|
| `CapexProofs`: outbox | `TypeCorrect`, `PublishedMeansAccepted`, `ExclusiveAttempts`, `ChargedSends`, `PublishedStays`, `OutboxDelivers` | a job in "sent" has its attempt among the sends, and no job's attempt exceeds its row's count: without them a mark could publish what was never sent |
| `CapexProofs`: pipeline | `PipelineTyped`, `OutputIsCommitted`, `SuggestionsHaveOrigin`, `NothingIsLost`, `RunsAccount`, `FirstSuggestionStays`, `SuggestionsAreGoverned` | a success of a run has its package in the directory and in the database, what is uploaded is a success, and all of it is uploaded before the quarantine (`PrepInv`); an event that was accepted or committed is in the outbox, a message in hand is on the subscription, and an invocation holds a model answer whose codes were in force, or the catalog it is checked against refuses them (`FuncInv`) |
| `AdaptiveExecutorProofs` | `ExecutorTyped`, `CountersAreRight`, `CallsAreBounded`, `ReturnsFullList`, `TasksStay`, `ExecutorImplementsBatch` | a held or queued item's task has no outcome and sits in one place only; its calls equal its attempts plus its throttles, plus one while it runs; and each task without an outcome has a place, queue or worker (`NoneIsLost`) |
| `ResilientProviderProofs` | `ProviderTyped`, `NoPermitLeaks`, `NoTrialLeaks`, `ThresholdOpens` | a call that goes round again is within its budgets, also before it settles |
| `DurableProofs`: run | `DurableTyped`, `TerminalIsTrue`, `RepeatsArePaid`, `RulingsHaveRecords`, `OutcomeStands` | what a process holds agrees with the record it wrote; and a balance: executions, plus the passes that may still execute, are at most one plus crashes in the window, pruned records and overlaps; a pass whose record was pruned is one that may still execute, so that a crash of it is not counted twice |
| `DurableProofs`: demo | `DemoTyped`, `AssessmentsMatchRows`, `StoredBundlesAreSound`, `RecommendationsAreGoverned`, `ReportsTellTheTruth`, `EvidenceStays` | what an execution has behind it (`AttemptFits`): a line without a code has left an error; the rows of every package it has passed bear its codes, also those another execution wrote (`Kept`), and stay so because rows are only added (`Grows`); packages are determined whole. The stored results are the assessment of the stored codes, with no candidate that would have raised (`RunFits`). What that means line by line (gates passed, natures agreed, bundles complete) are lemmas about `DemoAssessment` |
| `ApprovalProofs`: queue | `GatewayTyped`, `ExecutionHasQuorum`, `QueueIsExact` | copies in hand are legal rows too: distinct names, all of which have voted, ratified exactly with a quorum; unless disturbed, the row still has the names it had when it was read |
| `ApprovalProofs`: review | `ReviewTyped`, `OneReviewActive`, `ReleasesAreBacked`, `TrailIsLawful` | a review's status is the one the last event about it gives, it has one event for each vote, and each event may follow those before it (`TrailFits`); votes are by named reviewers, one each, before the review expires; a review is pending below its quorum and approved from it on, with no vote against it, and one that let a release through stays approved or gives way (`TablesInv`). `OneActiveReview` is kept because a submission supersedes every active row, whichever row it compares itself with |
| `FleetProofs` | `FleetTyped`, `PrerequisitesComeFirst`, `OverspendIsBounded` | waves are layered, and a subtask that can never be ready is in no wave before all others are done; what is spent, plus what those between check and charge may still add, stays within the bound: the one that passed last had found room beside all that was spent |
| `WhyLedgerProofs` | `LedgerTyped`, `ChainsHold`, `AlterationsStay`, `MergesStay` | of an origin nobody tainted, every store holds a prefix of what the author wrote (`StoresCanonical`), the author holds all of it (`AuthorHasAll`), and what is left of a bundle continues, from some record on, what its receiver has (`ImportsContinue`): the existential is what survives other imports that append the same rows first |
| `AgentFactoryProofs` | `FactoryTyped`, `GuaranteesAreKept`, `AuthorityStaysBounded`, `OnlyApprovedAgentsAct` | the grants of an agent no edit has reached lie within grants of the content it was compiled from, and satisfy `Verify`; what a policy enforces was proved of the content alone, and the names of a sub-agent's grants are in no list an edit reaches, so that both stay whatever is edited (`Governed`, `Linked`); its content was ratified when it was compiled (`AgentsBacked`). Transitivity of names, paths and narrowing are lemmas; `LastWasAllowed` keeps of the last action what its grant allowed then, since the grant may be edited afterwards |

`OutboxDelivers` proves the refinement that `CapexPipeline` relies on.
`ExecutorImplementsBatch` proves its safety half (`Batch!Safe`).

Every invariant and action property that a passing run checks is stated by a
theorem here. Only model-checked is liveness under fairness (`EventsSettle`,
`Recovers`, `CallsEnd`, `RunReturns`, `RatifiedIsCarriedOut`, `PlanEnds`, the fair
half of `ImplementsBatch`), which needs ENABLED and is out of the prover's reach.

Nothing is proved about what a fold computes, which would take an induction over
data: the theorem on bundles says that a stored total is the `Total` of its
members, not what `Total` adds up to; TLC evaluates it.

The demo batch's proofs made one assumption explicit that the code satisfies by its
data types: a request names finitely many lines (`DemoAssumption`). That its
packages are distinct (`WorkflowAssumption`) is checked by `DemoWorkflowRequest`
(`demo_v2_contracts.py:141`).

## 5. Not modelled

Left out inside the modelled parts: JSON assembly and schema validation of
packages and events; the download of ZIPs by base name, where equal names under
different sub-prefixes overwrite each other; quotas of the limiter (whose buckets
start full and fill while they are drawn, so that up to twice the limit goes through
in a minute, where `resilience.py:144` says it is never exceeded); exceptions out
of the executor's classifier or sleep, and interrupts between `allow` and the
`try` of `_call`; budget and precedent look-ups of a run; what an orchestrated child
is granted (`AgentFactory` has spawning); edits of the grants of a sub-agent through
`agent.grants`, which no pack shares, and of the lists a conditional policy compiled
from a rule still holds (the static proof does not rely on conditional policies);
equal fingerprints of different content (they are compared whole; `id` shows twelve
hex digits); redaction, signatures and encryption of
the ledger, and the merge of realm policies, which never converges when two nodes
share different policies of one name; ports and regular expressions of scopes;
workbook parsing, ranking and text of the demo batch, and its snapshot document.

Left out as parts, each with its reason in `PROJECT.json`: council and
deliberation, model providers, adapters, bridges, CLI, evaluation, recall,
compliance reports, rewind (it keeps no state), telemetry, examples, tools and
templates. They are I/O, text or numeric ranking around the parts above. The
share of the implementation the map covers is small for that reason: most of the
repository's lines are model prompts, document extraction, examples and notebooks
without state over time.

## 6. Plan

Done, in this order: the outbox and its promise; the pipeline composed over that
promise; the executor; the provider; the durable run; the approvals; the fleet;
the demo batch; the ledger; capabilities and factory; the release review; the
proofs of every safety property the runs check. What would come next:

1. Redaction and recall's deletions in `WhyLedger`; that stores which have imported
   from each other hold the same chains of untainted origins; convergence of realm
   policies.
2. Deadlock freedom of `AdaptiveExecutor` and `ResilientProvider` as an invariant
   that names, in each state, a step that is possible.
3. The limiter's quota: time in ticks, and what it lets through in a window bounded
   by a full bucket and the refill of the window.
