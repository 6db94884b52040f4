# Research OS in TLA+

TLA+ modules that model the control plane of Research OS
(`src/src/research_os`), the TLC configurations that check them, and TLAPS
proofs about the core of it.  Paths below are relative to
`src/src/research_os` unless they start with `src/`.

Research OS drives autonomous security research over a PostgreSQL database:
Core decides what may run, Application use cases move rows through their
lifecycles, Platform runs untrusted workers in processes of their own, and
Research turns results into hypotheses, candidates and findings.  Any number of
control-plane processes may work on one database; each use case is one or more
transactions at READ COMMITTED (`data/postgres`), and what happens between two
transactions is up to the other processes and to crashes.  That is where the
interesting behaviour is, and what the modules model.

## 1. Inventory

| component | state it keeps | operations | interacts with |
|---|---|---|---|
| Core authorization (`core/execution.py` and its six checks) | none, pure | `evaluate_execution`, `check_rate_limit` | called by every use case that dispatches |
| Scope compiler, pricing (`core/scope_compiler.py`, `core/pricing.py`) | none, pure | compile, match, price | Core, the HTTP worker's envelope, model budget |
| Experiment dispatch (`application/execute_planned_experiment.py`, `data/budget_ledger.py`) | `experiment`, `execution_attempt`, `budget_consumption`, `worker_result` rows | `execute`, `authorize`, `dispatch`, `_mark_unknown`, `_record_outcome`, ingestion | Core, the ledger, a worker; called by the controller, discovery, selection |
| Platform worker port (`platform/worker.py`, `local_process_worker.py`, `process_tree.py`) | process handles, pipes, deadline | `invoke` | dispatch |
| Autonomous controller (`application/autonomous_research_controller.py`) | `research_orchestration` row: state, phase, counters, ids of the work under way | `start`, `step`, `pause`, `resume`, `cancel` | dispatch, model budget, discovery |
| Promotion (`application/propose_candidate.py` ... `finalize_finding.py`, `research/verification.py`) | `candidate`, `verification`, `finding_proposal`, `human_review`, `approval`, `finding` rows | propose, start / complete verification, submit, start / record review, finalize | evidence; an operator |
| Transition A, evaluation, evidence (`research/*normalizer*.py`, `research/evaluation*.py`, `research/evidence.py`) | `observation`, `hypothesis_assessment`, `evidence` rows | ingest, evaluate, admit evidence, propose a candidate | dispatch before it, promotion after it |
| Discovery (`application/discovery`, `research/discovery`) | frontier items and their event log, projection receipts, remembered pages in memory | `ensure_started`, `run_cycle`, project | dispatch, browser contexts |
| Hunt (`application/run_hunt_*.py`, `hunt_validation.py`, `hunt_v3_queue_approval.py`, `evaluate_family_circuit_breaker.py`, `research/scheduler`) | hypotheses with tier events, the V3 queue, breaker rows | schedule, generate, validate tiers, approve, evaluate a family | the graph discovery projects; a human |
| Browser worker (`platform/persistent_browser_worker.py`, `browser_resource_control.py`, `worker_runtime/python/browser_engine.py`) | one long-lived process tree, its kernel boundary, a pool of contexts with leases | `invoke`, `shutdown`, open, observe, interact | dispatch, discovery |
| Sessions and HTTP workers (`application/session_*.py`, `worker_runtime/python/http_*.py`) | `session_context` rows, cookies in process memory; the target's own state | bind, capture, expire, revoke; the requests of a probe | dispatch, ingestion, evaluators |
| Reasoning (`application/propose_research_hypothesis.py`, `research/context.py`, `cycle.py`, `admission.py`, `planning.py`) | `hypothesis`, `reasoning_record`, `hypothesis_admission` rows of a run | build a context, ask generator and falsifier, parse, admit, plan, store | controller, model budget, runtimes |
| Model runtimes and routing (`integrations/models/*`, `research/routing.py`, `application/select_research_runtime.py`) | none; a decision is handed to the next attempt | probe, discover, complete; select, reconsider | reasoning |
| Model budget (`application/budget_enforced_model.py`, `program_daily_budget.py`) | MODEL_CALL rows, token rows and the envelope of a day | reserve, invoke, record | controller, ledger |
| Research selection (`application/run_research_selection.py`, `research/selection.py`, `research/hypothesis_portfolio.py`) | the run's row, hypotheses, opportunities, cycles | `start`, `step`, `resume` | dispatch, evaluation |
| PostgreSQL repositories (`data/postgres`) | every row above | insert, update by primary key, list, lock | all use cases |
| Interface, benchmarks, integrations | none that a protocol depends on | print, score, call a tool | - |

**Hard behaviours.**  Every use case reads rows in one transaction and acts on them
in a later one; most updates do not test the state they replace; the
orchestration row is always saved whole; a crash may fall between any two
transactions, in particular between a worker's side effect and the record of it;
random ids decide the order of rows written at one instant; cookies and remembered
pages live in one process, their rows in all of them; a probe is several requests
to a target that does not stand still; processes hang, and take their time to die.
`PROJECT.json` lists these hazards line by line.

**What makes each part correct.**  Core: ALLOW exactly under the default-deny
policy.  Dispatch: never a worker on credit, never past the issued budget, never
a second invocation after a crash.  Controller: no work while an outcome is in
doubt, bounds are bounds, a ticked run stops.  Promotion: no finding without the
evidence and the review its lifecycle asks for.  Evidence: nothing is claimed that
an observation does not show.  Discovery: an item is worked on once per claim,
what was observed is projected once, clicks go to the page that is remembered.
Hunt: active work only for what passed the tiers and a human; a cell starves only
behind bonuses.
Browser worker: Chromium only inside its boundary, answers belong to their call.
Sessions: credentials are sent once, a cookie goes where it came from, nobody is
accused of what is not there.  Reasoning: a hypothesis rests on what its own run has
seen, is challenged and is lost to a death only; a day's spending has its limit.  Selection: no
question twice, none left when a run says it is done but what a death lost.

## 2. Modules

| module | what it is | extends |
|---|---|---|
| `CoreAuthorization` | pure operators: the six checks, `EvaluateExecution` in the code's order, `CheckRateLimit` | |
| `AuthorizationDrift` | one plan, evaluated again and again while its facts get worse; the policy written without an order of checks | `CoreAuthorization` |
| `ExperimentDispatch` (`MCExperimentDispatch`) | the dispatch protocol | `CoreAuthorization` |
| `MCAuthorizedDispatch` | one run of the two above side by side, sharing no state | `AuthorizationDrift`, `MCExperimentDispatch` |
| `BudgetedDispatch` | abstract: what dispatch promises | |
| `ExperimentDispatchProofs` | what Core answers, for every catalogue; inductive invariant of dispatch, theorems | `AuthorizationDrift`, `ExperimentDispatch` |
| `Orchestration` | the autonomous controller, an operator and the clock | |
| `OrchestrationProofs` | inductive invariant, theorems | `Orchestration` |
| `ExperimentVerdict` | pure operators: normalizers and evaluators | |
| `EvidencePipeline` (`MCEvidence`) | ingestion, assessment, evidence, candidate | `ExperimentVerdict` |
| `EvidencePipelineProofs` | inductive invariant, theorems | `EvidencePipeline` |
| `FindingPromotion` (`MCFindingPromotion`) | from an admitted candidate to a finding | `CoreAuthorization` (approval check) |
| `FindingFormula` | abstract: the formula a finding stands for | |
| `FindingPromotionProofs` | inductive invariant, theorems | `FindingPromotion` |
| `BrowserContexts` | pure operators: the contexts of a browser worker | |
| `DiscoveryFrontier` (`MCDiscovery`) | discovery cycles of several controllers, each with its browser | `BrowserContexts` |
| `DiscoveryFrontierProofs` | inductive invariant, theorems | `DiscoveryFrontier` |
| `HuntCampaign` (`MCHunt`) | scheduler, cycle, tiers, queue and breaker | |
| `BrowserWorkerProcess` | adapter, process tree and kernel boundary | |
| `BrowserWorkerProofs` | inductive invariant, theorems | `BrowserWorkerProcess` |
| `ResearchSelection` (`MCResearchSelection`) | the selection loop of a run | |
| `HttpWorkers` | pure operators: requests, answers and statuses of the HTTP workers, and the target | `ExperimentVerdict` |
| `HttpExperiments` (`MCHttp`) | HTTP experiments and login sessions of several processes | `HttpWorkers` |
| `HttpExperimentsProofs` | two inductive invariants, theorems | `HttpExperiments` |
| `ModelRuntimes` | pure operators: identity, probe and discovery of model runtimes, what a call of each gives or raises | |
| `RuntimeRouting` | a routing request, the decision, the calls made of it | `ModelRuntimes` |
| `ReasoningRules` | pure operators: bounded context, parsing of structured answers, admission, plan | |
| `HypothesisReasoning` (`MCReasoning`) | the reasoning half of a cycle and the daily allowance of a program | `ReasoningRules`, `RuntimeRouting` |
| `ResearchProofs` | an inductive invariant of each of the four, and one of the allowance; theorems | `HuntCampaign`, `ResearchSelection`, `HypothesisReasoning` (with `RuntimeRouting`) |

Components meet in three ways.  `CoreAuthorization`, `BrowserContexts`,
`ExperimentVerdict`, `HttpWorkers`, `ModelRuntimes` and `ReasoningRules` are taken
in by the state machines that call that code.
`ExperimentDispatch` and `FindingPromotion` implement `BudgetedDispatch` and
`FindingFormula`.  Where a component only needs what another one ends with
(`Orchestration`, `DiscoveryFrontier`, `ResearchSelection` and `HttpExperiments` all
dispatch), it has the dispatch's statuses as one or a few steps, crash points
included, and says so in its header.

### CoreAuthorization and AuthorizationDrift

A check of the code returns an object with `allowed_to_continue` and a reason
code; here it is a record `[ok, reason]`.  Identifiers that only reach the audit
trail are left out.  `WorkerRegistry` and `IntegrationAllowlist` are constants,
the two catalogues of `tools/`.  `AuthorizationDrift` enumerates every request
over small domains (claims that are true, understate, overstate, or name
nothing; all four levels, sources, scopes, usages up to the maximum, approvals)
and lets its facts get worse one at a time.  Nothing in the repository performs
those changes: they are the environment's, and `Reevaluate` is the code.
`usage.runtime_ms` stays 0 there because no ledger row of dispatch charges it.

### ExperimentDispatch

| variable | in the code |
|---|---|
| `expState`, `attState`, `attExp`, `attAt` | rows of `experiment` and `execution_attempt` |
| `charged`, `used` | the consumption rows of a request, and the sums over the table |
| `result` | `worker_result.status` by request |
| `source` | the run's `authorization_source` |
| `rowLock` | the transaction that has updated the experiment or its attempts and has not ended |
| `ctl` | program counter and Python locals of each process |
| `invoked` | ghost: how often `WorkerPort.invoke` was called |
| `clock` | the injected clock |

A process runs `execute` or `_resume_authorized`.  One action is what happens
between two points at which another process may come in:

| action | code |
|---|---|
| `StartExecute` | `_fail_closed_existing`: reads; terminal, known, in doubt, or on to `authorize` |
| `MarkUnknown` | the write of `_mark_unknown`, on the strength of that earlier read |
| `LoadContext` | reads of `authorize` before its first write |
| `DecideExecution` | `set_execution_state(AUTHORIZATION_CHECK)` takes the row; http check, rate limit, Core, session binding |
| `CommitRefusal`, `CommitAllow` | the three ways `authorize` ends |
| `ResumeAuthorized` | `_resume_authorized` of the controller |
| `LoadAttempt`, `SizeReservation`, `CommitDispatch`, `DenyDispatch` | the transaction of `dispatch` |
| `InvokeWorker` | `WorkerPort.invoke`, outside of any transaction |
| `RecordOutcome`, `Ingest`, `RejectIngestion`, `FailAttempt` | `_record_outcome`: three transactions |
| `Crash` | any process, any time; the open transaction rolls back |

Simplifications, each of them on purpose:

- One `rowLock` stands for the row of the experiment and those of its attempts:
  every transaction that updates one of them updates the other first or next.
  `SELECT ... FOR UPDATE` of the issued budget, the sum and the insert are one
  step (`CommitDispatch`), since nothing else writes the ledger unlocked.
- `DecideExecution` takes its row and reads the rate window and the ledger in one
  step; in the code a commit of another experiment may fall between these reads,
  which may change the reason of a refusal, not whether there is one.
- A rejected plan, hypothesis or budget reference in `_load_context` or
  `_ensure_plan` ends the call and rolls back; so does `Crash`, which stands for
  it, and for the `PersistenceError` that `_record_outcome` catches.
- `http.authentication` writes session rows next to the attempt and at
  ingestion: see `HttpExperiments`.  Audit rows are left out: nothing
  modelled reads them.
- `list_for_experiment` and `list_for_research_run` have no ORDER BY, so
  `attempts[0]` is any of them; this makes request ids symmetric.
- `command.budget_usage` is `None`, as in every caller in `application/`: usage is
  rebuilt from the ledger.
- The last return of `_classify_invocation` is not modelled: the seven members of
  `InvocationStatus` are all handled before it.
- `ResultStatuses`: "OK" is the five contract statuses `_classify_invocation` does
  not look for (`SUCCEEDED`, `EXECUTION_FAILED`, `BLOCKED`, `CANCELLED`,
  `TIMED_OUT`): the code answers EXECUTION_SUCCEEDED to all of them.

### BudgetedDispatch

The promise: `Authorize`, `Start(r, n)` which pays one tool call and `n >= 1`
requests or does not start, `Run`, `Store` once.  It deliberately allows several
runs of one started request, because the code does with two processes (see the
notes on disagreements).  The refinement mapping forgets processes, locks, outcomes and
experiment states (`Promise` in `ExperimentDispatch`).

### FindingPromotion

| variable | in the code |
|---|---|
| `candidate`, `origin` | `candidate.state`, and the experiment of its originating evidence |
| `verification`, `proposal` | rows of `verification` (append-only) and `finding_proposal` |
| `reviews`, `approvals`, `findings` | the rows of `human_review`, `approval`, `finding`, none of them ever updated |
| `tx` | the open transaction of each process: its next statement and what it has read |
| `answer` | the last answer of `FinalizeFinding` |

| action | code |
|---|---|
| `ProposeCandidate` | `ProposeCandidateFromEvidence`, when the evidence is admitted as an OPEN candidate |
| `StartVerificationRead`, `...Write` | `StartCandidateVerification` |
| `CompleteVerificationRead`, `...Write` | `CompleteCandidateVerification` with its verifiers (`research/verification.py`) |
| `SubmitReadCandidate`, `SubmitReadVerifications`, `SubmitInsert` | `SubmitFindingProposal` |
| `StartReviewRead`, `...Write` | `StartHumanReview` |
| `RecordReviewRead`, `RecordReviewInsert` | `RecordHumanReview` |
| `FinalizeReadProposal`, `...Finding`, `...Candidate`, `...Review`, `FinalizeWrite`, `FinalizeConflict` | `FinalizeFinding`, one action per read |
| `Rollback` | any use case that raises, and a crash |

Simplifications:

- A transaction's writes and its commit are one step.  They touch rows that
  PostgreSQL locks and keys that are unique, so a second writer waits for the
  commit anyway; between the reads and the writes everything may happen.
- Evidence, and everything a verifier reads of an experiment (observations,
  controls, ACL), is immutable once admitted: the constants `Class`, `Shows`,
  `ControlsHeld` say what it comes to.  `"UNUSABLE"` evidence is what makes an
  HTTP verifier answer INCONCLUSIVE before it looks at the claim.
- A rejected admission (of a candidate, a proposal) leaves an audit row and no
  row of the lifecycle; audit rows are left out.  The validation tiers and impact
  chains a proposal must pass are predicates of the draft: `SubmitInsert` is the
  case in which they hold.
- Titles, claims and fingerprints never change after a proposal's insert, so the
  review's copy always matches; that comparison is constantly true.
- `RecordHumanReview` on a proposal that has a review returns it or raises:
  neither writes, and `Rollback` stands for both.
- The verifier's duplicate lookup is one read just before the write, and is in
  the write step.

### FindingFormula

The locked decision `VALIDATED Candidate + FindingProposal + Human Review + Core
Approval = Finding`, with processes and lifecycle states forgotten: `Validate`,
`Propose` for a validated candidate, `Review` once, `Decide` once and as the
review says, which makes the finding.  "Validated" is "a verification has
validated it", an append-only fact, and not `candidate.state`, which races may
rewrite (see the notes on disagreements).  `Promise` in `FindingPromotion` is the mapping.

### Orchestration

`row` is the `research_orchestration` row; `cycles`, `hyps`, `exps` and `charged` the
rows of cycles, hypotheses, experiments with their attempt, and MODEL_CALL
charges; `calls` counts calls of the model by request id; `ctl` is the controller
with the copy of the row its `step` read (`cur`); `op` the operator's transaction;
`late` says that `max_elapsed_ms` has passed.

| actions | code |
|---|---|
| `Step`, `Route`, `Entry` | the entry of `step`: open outcomes, authorized attempts, work to resume, or a new cycle |
| `SelectOpportunity`, `SelectStops`, `NextCycleStop` | the bounds and reasons to stop before a cycle |
| `ReserveCall`, `ModelBudgetDenied`, `CallModel` | `BudgetEnforcedModelPort.complete`: charge by request id, then call |
| `AdmitHypothesis`, `ExceedCeiling`, `ResumeHypothesis`, `AdoptHypothesis` | the reasoning ticks and what a restarted step takes up |
| `PlanExperiment`, `RequestAuthorization`, `Authorize`, `RefuseExecution`, `Dispatch`, `DenyDispatch`, `Invoke`, `RecordOutcome` | plan and execution, dispatch step by step |
| `CheckpointResult`, `CheckpointTransition`, `Assess`, `CheckpointAssessment`, `CompleteCycle`, `CompleteCycleConflicts` | the rest of the cycle, one action per checkpoint |
| `OperatorReads`, `OperatorWrites` | `pause`, `resume`, `cancel`: read, then write the whole row |
| `TimePasses`, `Crash` | the clock; the controller dies at any point |

Every checkpoint writes the whole row from `cur`, as the repository does.  What a
prompt says and what a hypothesis contains is left out; a model's answer is
admitted or not.  `calls` counts up to `MaxReplays` and then stays: how often one
charged request id is called again has no bound in the code.

### ExperimentVerdict and EvidencePipeline

`ExperimentVerdict` translates five normalizers and five evaluators.  A raw result is a
record of the answers an evaluator reads, a payload the record the normalizer
makes of it; `Verdict` is the outcome of an assessment.  The predicates of the two
authorization evaluators (`OwnerProven`, `GrantedToActor`, `Delegated`, `BecameApproved`,
`ControlHeld`, `Stale`, ...) have the names of the facts in the code.

| variable of `EvidencePipeline` | in the code |
|---|---|
| `plan`, `attempt`, `experiment` | the evaluation strategy, the attempt's and the experiment's state |
| `dispatcher`, `result`, `observation` | where the dispatching process is; `worker_result.status`; the normalized payload |
| `assessment`, `evidence`, `candidate` | the rows of that name |
| `call` | the use case each caller is in, with what it has read |

`EvaluateLoad`, `EvaluateRead`, `InsertAssessment` are `EvaluateExperimentFeedback`, one
action per statement that may see something new; `AdmitLoad` and `AdmitEvidence`
are `AdmitDiagnosticEvidence` with `admit_evidence`; `ProposeCandidate` is
`ProposeCandidateFromEvidence` with `admit_candidate`.  `Dispatch` ... `Ingest` and
`RejectIngestion` are the dispatching process, `FindInDoubt` and `MarkUnknown` a
controller that finds its attempt after a crash.  A command may bring a proposal
of its own, about anything.  The normalizer of `browser_page` is left out: no evaluator
reads what it makes.

### BrowserContexts and DiscoveryFrontier

`BrowserContexts` is the worker's side of `browser.page`: a browser is the sequence of
its contexts in the order of their creation (eviction takes the first), each with
its lease, page, identity and whether a dialog froze it.

| variable of `DiscoveryFrontier` | in the code |
|---|---|
| `log`, `session` | `frontier_event` by item, `frontier_item.session_context_id` |
| `exps`, `receipts`, `projected` | experiments with attempt and result; `discovery_projection_receipt`; ghost: commits that projected |
| `orch` | the run: RUNNING, or why it stopped |
| `runner`, `live`, `browser` | each controller: where it is, `_live_pages`, its worker |

| actions | code |
|---|---|
| `Start`, `SeedItems` | `ensure_started`, `_seed` |
| `Look`, `Claim`, `StopInDoubt`, `Close` | the head of `run_cycle`: reconcile, bounds, selection, the claim and its UNIQUE sequence |
| `Reobserve`, `Block` | `_reobserve` of a control whose page is gone or ambiguous |
| `Prepare`, `Dispatch`, `Work`, `Lose`, `ReadBack`, `Outcome`, `Remember`, `Forget` | plan, dispatch to the browser, result, `_live_pages` |
| `Project`, `Conflict`, `Finish` | `project_observation`: facts, new items and the receipt in one transaction |
| `Crash` | a controller dies with its memory and its browser |

An item is its dedupe identity; templates of facts and inferences are reduced to
the items they propose (`Proposed`).  A site is two paths with controls that lead
somewhere, one of them ambiguous, one out of scope.

### HuntCampaign

`graph` are the facts projected so far (scope and identities of nodes, edges);
`hyps` the hypotheses with their tier events; `queue`, `approval`, `breaker` the V3
queue, the recorded approvals and the last breaker action of a family.
`standing` are the bonuses of the cells (`_build_family_stats`, `_build_freshness_by_node`),
which `Reassess` changes at any time, since assessments and the age of nodes do.
`Observe` and `Connect` grow the graph; `Recommend` is `RunHuntScheduler` (debt,
weight, bonuses, top n); `Generate` is `GenerateHuntHypotheses`; `Validate` takes one
hypothesis through `ValidateHuntTiers`; `Decide` and `Approve` the human and
`ApproveHuntV3Queue`; `EvaluateFamily` the circuit breaker, whose "latest outcome" of
events of one instant is the one whose random id sorts last, so any of them
(`LatestOutcomes`).  Snapshots and texts are left out.

### BrowserWorkerProcess

`host` is the platform (cgroup v2 or job object, whether the executable is a launcher
with a child, whether the kernel has `cgroup.kill`); `gens` the spawned process
trees, with who is alive, doomed by a SIGKILL, inside the boundary, and what the
pipes hold; `adapter` the fields of `PersistentBrowserWorkerAdapter` and where its
call stands.  `Reuse`, `Replace`, `Start`, `Hello`, `Contain`, `Ack`, `Write`, `Read`, `ReadEnd`,
`Timeout`, `Shutdown`, `KillTree`, `Reap` are the adapter's statements;
`Launch`, `Announce`, `TakeAck`, `TakeRequest`, `StartChromium`, `Answer`, `EndOfInput` the
worker's; `Die` is any process at any time.  A killed process runs no more code but
may take longer to go than the adapter waits.

### ResearchSelection

`run` is the run's row; `hypothesis` its hypotheses with the context they are about;
`opportunities` the identities of the selected options, which use a question up;
`probes` the experiments with plan, assessment and cycle row; `seen` the last
observation of each subject; `stepper` the process.  `Start`, `Select`, `Prepare`,
`Execute`, `Evaluate`, `Close`, `StopRun` and `Resume` are one transaction each of
`RunResearchSelection`; `Options`, `Eligible`, `SelectorKey`, `Selected` are
`research/selection.py`, `Lifecycle` and `CompetingSupported` the portfolio.  An
evaluator's outcome is any that its facts allow (`Facts`, `Concludes`).

### HttpWorkers and HttpExperiments

`HttpWorkers` says which requests a plan makes, what the worker makes of each answer,
and how the target of the repository's lab answers.

| variable of `HttpExperiments` | in the code |
|---|---|
| `attempts`, `blocked`, `sessions`, `results` | rows of attempts, terminal denials, `session_context`, `worker_result` |
| `secrets` | `InMemorySecretStore` of each process |
| `call` | each process's `execute()` in progress |
| `target`, `live`, `logins`, `carried` | the target: accounts and workflow, cookies it honours, logins and cookies it received |
| `breached`, `meddled` | ghosts: what the target let an attempt do unearned; delegations during a probe |

| actions | code |
|---|---|
| `StartExecute`, `RejectInput`, `DenyExecution`, `AllowExecution`, `InsertConflicts`, `ResumeAuthorized` | `authorize` with `bind_identity_session`, and the controller's resume |
| `LoadAttempt`, `CommitDispatch`, `DenyDispatch` | `dispatch` |
| `RefuseRequest`, `SendLogin`, `SendTransaction`, `SendProbe`, `LoseRequest`, `LoseWorker`, `Succeed` | the worker, one action per request |
| `RecordOutcome`, `LoseOutcome`, `BeginIngest`, `CommitIngest`, `RollBackIngest` | outcome and ingestion: secret first, rows after |
| `RevokeSession`, `Crash` | an operator; a process with its secrets and worker |
| `EndSession`, `ChangeReader`, `ChangeDelegate`, `MoveWorkflow` | others at the target |

URLs, headers and bodies are left out: a plan says which of its requests the
envelope leaves out.  `expires_at` of a session is set by no code.

### ModelRuntimes, RuntimeRouting, ReasoningRules and HypothesisReasoning

`ModelRuntimes` says of each runtime (three APIs, a command line, the contract of an
external agent) when it is discovered as available and what a call of it gives or
raises, exception by exception.  `RuntimeRouting` has the decision of
`select_runtime` for a request (`routing`, `decision`), and after each failed call
(`called`) that of `reconsider_runtime`.  `ReasoningRules` has the pure half of a cycle.

| variable of `HypothesisReasoning` | in the code |
|---|---|
| `policy`, `day`, `envelopes` | `program_policies`, the date, the days that have an envelope |
| `reserved`, `tokens` | MODEL_CALL rows; token rows of the days |
| `row` | `research_orchestration` of each run, as far as reasoning goes |
| `hypotheses`, `reasoning`, `admissions`, `experiments`, `observations` | rows of each run |
| `ctl` | the controller of each run: where it is, its context and answers |
| `paid` | ghost: what providers were really used for |

| actions | code |
|---|---|
| `AdoptHypothesis`, `StepStops`, `SelectOpportunity`, `TakeUpOpportunity` | the head of `step` |
| `BuildResearchContext` | the reads of `ProposeResearchHypothesis` and the context of them |
| `ReserveModelCall`, `CallModel`, `RecordTokens` | `BudgetEnforcedModelPort.complete`, one action per transaction |
| `AskFalsifier`, `PersistReasoning`, `FinishCycle` | parsing, admission, plan, the transaction that stores them and the one after |
| `PlanHypothesis` | the ceiling on side effects, and the transaction that gives a hypothesis its experiment |
| `ResumeHypothesis` | `_resume_admitted_hypothesis`: the experiment the row names, or one of the hypothesis, or a new one |
| `ExecuteExperiment` | the end of the row's experiment and of the cycle; what dispatch does is the subject of `Orchestration` |
| `AllocateProgramDailyBudget`, `NextDay`, `Crash` | an operator, the clock, a controller that dies |

What a model says is reduced to what parsing and admission tell apart: its keys,
whether it is complete, the ids it refers to, the capability it asks for, the
number of alternatives.  A context may hold external texts (`ReasoningRules`), but the
controller passes none, so those of `HypothesisReasoning` hold none, and that a
hypothesis cites something besides an external text is neither checked nor proved.

## 3. Runs

| run | question | instance |
|---|---|---|
| `authorized_dispatch` | is ALLOW exactly the policy, can a review help where one is asked for, does a refusal survive drift; the rolling window and the finality of outcomes, through crashes | all requests over the domains of `MCAuthorizedDispatch`, usage 0..1; 1 controller, 3 experiments (one browser page), 3 requests, 2 per window of 2, clock 0..2, budget 2 tool calls / 3 requests |
| `dispatch_pair` | the ledger, credit, replay and the abstract promise with racing controllers; every call returns | 2 controllers, 2 experiments, 2 requests, budget 1 tool call / 2 requests, no rate limit and so no clock (`TimelessSpec`) |
| `promotion_race` | provenance and single decision of findings; the formula | 2 processes, 2 candidates, 5 experiments (two classes; one contradicts and lacks its controls), 2 verifications, 1 proposal |
| `orchestration` | no experiment twice, none in doubt, bounds, termination | 2 cycles, 2 experiments, 3 model calls, 2 invocations, 2 operator calls, 1 crash, 1 refusal by the ledger |
| `evidence` | claims rest on observations, racing assessments agree | 1 active experiment and 1 other to confuse it with, 2 callers, 2 assessments, 1 evidence, 1 candidate, raw results one answer away from the claim |
| `discovery` | remembered pages, projection after a crash, termination | 1 controller, 2 paths, 3 controls, 1 identity beside the anonymous one, 7 cycles, 2 contexts, 1 fault |
| `discovery_pair` | legal histories, one experiment a claim, one projection | 2 controllers, 2 paths, 1 control, 3 cycles, 1 fault between them |
| `hunt` | queue integrity, throttling, which cells may starve | 1 operator, 2 nodes, top 1, 2 hypotheses no untested cell asked for, 1 crash; bonuses that lead by 9 points one way or by 64 the other, changing at any time |
| `browser_worker` | containment, one tree, no shifted answer, calls return | every host, 3 calls, 2 spawns, any process dies at any time |
| `selection` | no question twice, verdict agrees, no question left but one of a death | 3 contexts of two families, 5 cycles, 4 experiments, 1 crash |
| `http_sessions` | credentials once, cookie of its own, no unfounded accusation | 2 processes, 8 experiments, 1 change by others or crash |
| `reasoning` | hypotheses rest on their own context and are lost to deaths only, a day's spending has its limit, no chain of fallbacks evades a refusal | 2 runs of a program, 2 days, 3 reserved model calls a run, 2 experiments, 1 crash; a routing request beside it |

Four constraints keep instances small and are stated here because they cut
behaviours off.  `promotion_race` creates the second candidate only from
experiments of the class the verifiers of the diagnostic echo read (`Bounded` in
`MCFindingPromotion`): the second candidate is there to be called a duplicate of.
`http_sessions` follows behaviours with one probe alone (the differential probe by
one process), or at most two of the session experiments with a target nobody
changes: probes carry no session, and sessions do not read accounts or workflow,
so they meet in no row.  `reasoning` follows one run alone through every answer, and two
runs beside each other for up to four calls, under a limit, without a crash and with
good answers: a bad answer changes rows of its own run only, and what the two share
is the allowance.  `selection` stops after two probes when there are
hypotheses about every context at once; with fewer hypotheses it goes on to the
bounds.

**Why the bounds are enough.**  Two processes are what every race of these protocols
takes: a third would repeat the role of one of them.  A budget of 2 or 3 is passed
by the third dispatch and by a page that wants 2 requests at once, so the last
unit, a partial reservation and a refusal all occur; the clock reaches the
end of the first window.  Two cycles are what it takes for the leftovers of a cycle to meet the
next one.  A pool of two contexts is less than discovery asks for, so eviction
happens.  Two spawns
show one tree beside its successor, three calls an answer that could shift.  One
crash or fault is at every point of every behaviour; what a second one would add
is a repetition of the restart, which starts from the rows alone.  The action
coverage of TLC was looked at for every module: every action and every disjunct
fires in a run.

**Deadlock** is checked in `evidence`.  In the others a
behaviour ends when ids or cycles of the instance are used up or a run has
stopped, and nothing is left to call; that nothing gets stuck before that is what
the liveness properties say.

**Fairness.**

| run | assumed | why |
|---|---|---|
| `dispatch_pair` | weak for the steps of an entered call that need no row, strong for the steps that wait for one | the process is scheduled, `local_process_worker.py` kills a worker at its timeout, PostgreSQL queues the waiters of a row; nothing makes anyone call |
| `orchestration` | weak for the controller and for the clock | it is the caller's: whoever drives a run goes on calling `step`.  `run_bounded` alone does not: it ticks `max_cycles` times (632-637) and returns, so a cycle that resumes, or that admits nothing, may use up its ticks before the run stops; `RunStops` holds of a run that is called again.  Nothing makes the operator act or anything crash |
| `discovery` | weak for each controller | the same caller; a controller that died is started again |
| `hunt` | weak for the operator's work | schedules and cycles are asked for again and again; no approval is assumed |
| `browser_worker` | weak for the adapter | the thread that holds the lock runs, and its waits for a line (`readline`) and for the end of a process have deadlines; the worker may hang for ever.  Its writes to the worker's stdin (126-127, 221, 322-325) have none in the code; the model's pipe always takes the line, so `CallReturns` assumes that a line fits the pipe of a worker that has stopped reading |

## 4. Where code and words differ

Modelling met these.  They are in the models as the code has them, and the
properties above are stated so that they say what then still holds.

- **Two controllers on one run.**  Both read that an experiment has no attempt and
  insert one each; both resume one authorized attempt.  The second dispatch finds
  its request charged and invokes the worker again on the first one's charge
  ("no side effect without a reservation" holds, "one reservation, one side
  effect" does not).  A live attempt may be marked UNKNOWN_OUTCOME and then be
  overwritten, and both may pass the rolling window.  `OutcomeIsFinal` and
  `RollingWindow` are therefore stated for one controller, and `BudgetedDispatch`
  allows a started request to run more than once.
- **Outcome without result.**  A crash between the commit of the outcome and the
  ingestion leaves a COMPLETED attempt whose result nobody stores any more.
- **Model calls of a second cycle.**  `active_cycle_id` is not cleared at the end of
  a cycle; the next cycle's calls look like replays of charged ones and are not
  charged (`CallId`, and `CycleId` in `HypothesisReasoning`).
- **The daily limit** binds only for ports that report tokens to the budget, and
  none of the repository's does: they put them in the telemetry
  (`budget_enforced_model.py:66`).  `DailySpendBounded` is about what is recorded, and
  the port of the run reports.
- **An invocation cut short** by a crash between its two token rows is completed by
  the call that repeats it: it costs the input of one and the output of the other.
- **A conflict between two controllers of a discovery** ends a cycle after the worker
  has navigated and before `_remember_live_page`: the memory of the page is stale
  then (`RememberedPageIsShown` is checked and proved for one controller).
- **max_experiments** is one of the "Hard limits for one ResearchRun"
  (`research/orchestration.py:114`).  `pause`, `resume` and `cancel` write back a row
  they read earlier, and may bring back a phase whose hypothesis then gets another
  experiment.  `ExperimentRunsOnce` states the limit for a run no operator wrote.
- **A refused authorized attempt** is taken up again by every `step`, before any
  bound is looked at; `RunStops` excludes it.
- **Precedence of DENY and REVIEW.**  An ambiguous scope is reviewed although the
  approval denies: the checks answer in their order.  `ReviewCanSucceed`, a part of
  `DecisionIsRight`, says what remains true of the review.
- **Duplicate finalization** gets the conflict of a unique key, not the finding that
  exists; and a finding may commit after its candidate has lost VALIDATED, since
  finalization reads the candidate without a lock.  That it was validated once,
  independently, is part of `FindingProvenance`.
- **Tiers in the coverage matrix.**  Coverage looks for `HYPOTHESIS_TIER_*` events, the
  validation writes `HUNT_TIER_*`: no cell gets past HYPOTHESIZED (`CellStates`).
- **Starved cells.**  An UNTESTED cell is ten points ahead of a HYPOTHESIZED one, and
  the bonuses of two cells differ by up to 64 (success -20 to 20, exploration 0 or 5,
  freshness 0 to 24).  `top_n` cells whose bonuses lead by ten points or more are
  recommended again and again, and the one behind them never: no rotation takes it up.
  `EveryCellHypothesized` says that this is the only way to wait for ever.  Without that
  exception TLC finds a starved cell in the instance of `hunt`, at the lead of 64.
- **Assessments without a cycle row** (a crash before it) sort as the latest for ever
  (`VerdictStands` names the case).
- **The question of a crashed selection** is never put.  The selection commits before
  its experiment is prepared (`run_research_selection.py:444`), and what was selected is
  not eligible again.  `NothingLeftUntried` counts the questions that are in an
  experiment and lets each death of the process cost one.
- **The hypothesis of a resumed second cycle.**  `last_experiment_id` of the row is never
  cleared, and `_resume_admitted_hypothesis` looks at it first
  (`autonomous_research_controller.py:1007`).  After a death between the admission of
  a hypothesis and its plan the next step resumes the experiment of the cycle before,
  completes the cycle with it, and the new hypothesis is never tested.
  `LostOnlyToDeaths` lets each death cost one hypothesis, and none while the row names no
  experiment.
- **The ceiling on side effects** is compared in the step that admitted a hypothesis
  (491) and not when a later step plans it again (`_resume_admitted_hypothesis`).  The
  planner fills in a message only, so the one plan it makes is the diagnostic echo's, of
  level 0, and none is over a ceiling: the stop is in `PlanHypothesis` and does not
  happen there; `Orchestration`, where a plan may be of any level, reaches it
  (`ExceedCeiling`).
- **An assessment made too early** is final: the result that comes later is not
  assessed.
- **Resumed HTTP attempts** have no network envelope, so the worker sends nothing and
  reports EXECUTION_FAILED (`RefusedStatus`).
- **Envelope and Core** read paths differently: the envelope matches a prefix as text
  and has no host patterns of deny rules, Core matches by segment.
- **Sessions.**  `expires_at` is set by no code; a capture may write ACTIVE over a
  REVOKED row; a login that is
  redirected leaves its row AUTHENTICATING; after a rolled back ingestion the
  cookie is in memory and not in the row.
- **A delegation during a workflow probe.**  The evaluator trusts the grants it read:
  when a review is delegated after that read and somebody approves, the
  approval looks ungranted.  `AccusationsGrounded` names this case and excludes
  every other.

## 5. Proofs

Eight modules hold theorems.  Each names its assumptions, which are as weak as
types and CHECK constraints of the code justify, and which TLC evaluates in the
runs.

| module | theorems |
|---|---|
| `ExperimentDispatchProofs` | `DecisionsAreRight`, `AllowsExactlyPermitted`, `RefusalsSurvive`; `LedgerTheorem`, `PaidTheorem`, `NoReplayTheorem`, `DispatchKeepsPromise`; for one controller `WindowTheorem`, `FinalTheorem` |
| `OrchestrationProofs` | `RunsOnceTheorem`, `InDoubtTheorem` |
| `FindingPromotionProofs` | `ProvenanceCorrect`, `DecisionCorrect`, `PromotionKeepsFormula` |
| `EvidencePipelineProofs` | `EvidenceIsGrounded`, `CandidateIsGrounded`, `AssessmentsAgree` |
| `DiscoveryFrontierProofs` | `LogTheorem`, `ClaimTheorem`, `ProjectionTheorem`; for one controller `RememberedPageTheorem` |
| `BrowserWorkerProofs` | `ContainedTheorem`, `OneTreeTheorem`, `InStepTheorem` |
| `HttpExperimentsProofs` | `LoginTheorem`, `CookieTheorem`, `AccusationsTheorem` |
| `ResearchProofs` | `QueueStaysBacked`, `ThrottleForRejectionsOnly`; `QuestionsPutOnce`, `VerdictsStand`, `NoQuestionLeft`; `HypothesesGrounded`, `HypothesesLostOnlyToDeaths`, `DailySpendIsBounded`; `FallbacksBounded` |

With these, every invariant a run checks is a theorem, and every action property.

### ExperimentDispatchProofs: Core's answers

For every worker registry, allowlist, set of claims and budget: `DecisionsAreRight`
(`DriftSpec => []DecisionIsRight`: ALLOW exactly where the policy permits, and a review
asked for can be granted) and `RefusalsSurvive` (`RefusalSurvivesDrift`).  Assumptions: risk
bounds of catalogues and claims are levels (`CatalogueAssumption`, `ClaimAssumption`),
and the plan's own subject and budget are in their domains (`PlanAssumption`).

Core keeps nothing, so the invariant is `Answered`: the last answer is the answer to
the last question.  The work is in lemmas about the pure operators: one per check
says exactly what it passes (`CapabilityPasses` and its siblings), and together they
turn the chain of early returns into the conjunction the policy is.  Drift then needs
no order of checks: a fact that gets worse makes no request permitted that was not
(`WorseningNeverPermits`).

### ExperimentDispatchProofs: dispatch

For every set of controllers, experiments and requests, every issued budget and
every catalogue: `DispatchInvariantHolds` (`Spec => []DispatchInvariant`);
`LedgerTheorem`, `PaidTheorem`, `NoReplayTheorem` (the ledger stays within the issued
budget, a request that reached a worker is paid for, and never looks undispatched
again); `DispatchKeepsPromise` (`Spec => Promise!Spec`).  Assumptions: the sentinels
are no members of the sets they stand beside (`SentinelAssumption`), issued amounts
are natural numbers and a page asks for at least one request (`BudgetAssumption`).

`LedgerWithinAllowance` alone is nearly inductive: `CommitDispatch` compares with the
sum it then writes.  `InvocationsPaidFor` and `NoReplayAfterCrash` are not:
`InvokeWorker` looks at nothing but its own program counter.  `LocalsMatchRows` says
what a program counter means for the rows (a process in "invoke" or later has a
request whose attempt was started), and `ChargedWithState` ties the two kinds of
rows: an attempt has left AUTHORIZED exactly when its request has been charged,
which makes the silent "already charged" path of `insert_within_allowance`
harmless.  Since outcomes only ever replace outcomes (`OutcomeStep`), an attempt that
started stays started, and the locals of other processes stay right
(`OthersKeep`).  For the refinement, `Authorize`, `Start`, `Run` and `Store` are taken by
`CommitAllow`, `CommitDispatch`, `InvokeWorker` and the first `Ingest`; every other
action stutters (`PromiseStutter`).

`WindowTheorem` and `FinalTheorem` assume `Controllers = {c}`, because the two properties
are false of two (see above), for every rate limit (`RateLimitAssumption`).  What one
controller has read is still so when it writes (`AloneInvariant`): the attempt it is
about to mark UNKNOWN is in doubt (`StateIsAsRead`), and the count of the window it
decided on is the count of the window it commits to, since the clock may advance
meanwhile but only it authorizes (`WindowIsAsRead`).

### OrchestrationProofs

For all bounds (`BoundsAssumption`: they are natural numbers), however often the
controller crashes and whatever an operator writes back: `RunsOnceTheorem`
(`[]ExperimentRunsOnce`) and `InDoubtTheorem` (`NoWorkWhileInDoubt`).

Neither is inductive: the step that dispatches looks at its program counter and the
row it has in hand, not at the experiments.  `RunsByState` says that what has not
been dispatched has not run; `StateOfPc` what a program counter means for the
experiment the step works on; `NoOtherInDoubt` that a step which may still reach a
worker came past the check that nothing is in doubt, and that nobody else creates
doubt since.  For the limit on experiments the step must remember that it saw room
(`RoomForOne`), across a crash too: then the phase it left in the row is what the
next step resumes from, which is where an operator's older row would break it, and
`ResumeMatchesRow` links that phase to the path a step takes.  `HasMaximum`, that a set
of experiments has a latest one, gives the steps that look for it their witness.

### FindingPromotionProofs

For every set of processes, experiments and ids and every content of the
evidence: `PromotionCorrect` (`Spec => []PromotionInvariant`), `ProvenanceCorrect`,
`DecisionCorrect`, and `PromotionKeepsFormula` (`Spec => Promise!Spec`).  Assumption
(`PromotionAssumption`): the three sentinels are no ids, and evidence shows one of
the things a verifier distinguishes.

Final states are worthless as a foundation, since any write may be based on an
old read; what lasts is the append-only part (`RowsKept`).  So the strengthening
speaks of records, not of states: `RowsBacked` (a VALIDATED candidate and every
proposal has an independent validation among its verifications, which
`SubmitFindingProposal` lists *after* it read the candidate) and `LocalsMatchRows`
(what a transaction has read is still true of the records when it writes).  Then
`FinalizeWrite` finds the review it read, the unique key of `approval` rules out a
second decision, and `OneDecision` ties it to the finding.  For the refinement,
`CompleteVerificationWrite` is `Validate` or a stutter, `SubmitInsert` is `Propose`,
`RecordReviewInsert` is `Review`, `FinalizeWrite` is `Decide`, and the rest stutters.

### EvidencePipelineProofs

For any callers, experiments, plans, raw results, rows and commands, also such
that propose about other experiments than their own: `PipelineInvariantHolds`
(`Spec => []PipelineInvariant`), `EvidenceIsGrounded`, `CandidateIsGrounded` and
`AssessmentsAgree`.  Assumption (`PipelineAssumption`): the types of the constants, and
`Active` is a set of experiments.

`EvidenceGrounded` is about the observation, but admission never looks at it: it
looks at the assessment it chose, and what the command proposed.  The
strengthening carries the link: `AssessmentsConclude` (a conclusive assessment is what
the evaluator makes of the observation that is there), `IngestedOnce` (an
observation appears once, and does not change), and `CallOK` (what a use case has
read is still so when it writes).  `ConclusionShows` is the lemma about the pure
operators: a verdict of each strategy entails what `Shows` asks of the payload,
strategy by strategy.  `ConclusionKept`, `GroundsKept`, `SupportKept` and `CallKept` say
that no step takes grounds away; then there is one lemma per action.
`AssessmentsAgree` follows from `AssessmentsConclude`: two conclusions about one
experiment are the same function of the same observation.

### DiscoveryFrontierProofs

For any number of controllers, faults, sites and identities: `LogTheorem` (`[]LogLegal`),
`ClaimTheorem` (`[]ClaimRunsOnce`) and `ProjectionTheorem` (`[]ProjectedOnce`).  Assumptions:
the seed is a path of the site, the sentinels are no identities or sessions, bounds
are numbers (`RunAssumption`), and a page has finitely many controls and requests
(there and in `SiteAssumption`, which types the site).

`run_cycle` appends without asking whether the event is legal, so `Histories` needs to
know the state an item is in when a controller appends: `ClaimStands` (an item that is
worked on is SELECTED, and stays so until its controller gives it up) and
`ClaimsApart` (no two controllers work on one item; the UNIQUE sequence number of the
log sees to it).  `Claimed` counts: no more experiments of an item than selections in
its history, and one less while its claimant has not made its own.  For
projection, receipts are about answers, which do not change (`ProjectsAnswers`,
`OwnExperiment`), and what a page proposes whatever else was seen is in the log as soon
as the receipt is (`ProposalsThere`); `CountedOnce` is the ghost.

`RememberedPageTheorem` (`[]RememberedPageIsShown`) assumes one controller.  `PagesKept`
follows a page through both memories: what the controller remembers of a context is
what the worker shows there, or the context is about to be dropped with the answer
that said so; a click is planned on a remembered page, and until its answer is read
back nothing else moves a page.  With two controllers it is false: a commit that
conflicts with the other's ends a cycle between the worker's navigation and
`_remember_live_page`, and the memory stays behind the worker.

### BrowserWorkerProofs

For any number of calls and spawns, on every host, with any process dying at any
time (`WorkerAssumption`: the bounds are numbers): `ContainedTheorem`
(`[]ChromiumContained`), `OneTreeTheorem` (`[]OneTree`) and `InStepTheorem` (`[]InStep`).

A worker starts Chromium when it has read a request, whatever the adapter knows by
then.  `Sound` is about each tree: one that has, or can still read, an
acknowledgement is inside the boundary.  `OldQuiet` says that what the adapter has
given up can do no more work: its pipes are closed, and nothing was sent to it that
it has not read.  `InTouch` is the conversation: for every program counter of the
adapter, how many lines are in which pipe and what the worker is doing (`Talk`).
`InStep` needs that part: a call is answered by its own line because at its start
both pipes are empty.

### HttpExperimentsProofs

For any processes, plans, identities and origins: `LoginTheorem` (`[]LoginSentOnce`),
`CookieTheorem` (`[]CookieOfItsOwn`) and `AccusationsTheorem` (`[]AccusationsGrounded`).
Assumption (`HttpAssumption`): a plan has one of the four HTTP capabilities and a mode
its schema knows, a login names the session it is for, and the sentinel is no
session row or state.

Credentials may be sent by a process that authorized the login and by nobody who
resumes it, for resumed attempts have no envelope.  `Logins` says so: before there is a
session row nobody has logged in, afterwards at most one call may still send and it
has not.  The row is inserted in the transaction that authorizes, so `LoginRows` and
`Authorized` tie call, attempt and row.  `CookieOfItsOwn` follows the cookie: what the
target answered belongs to the plan of its call (`Matches`), what a process keeps in
memory to the row (`SecretsMatch`), and rows never change what they say but for
their state.

Accusations are about the target's behaviour over a probe, and have an invariant of
their own, `Groundings`.  `CrossRead`: the answer an attempt holds to the request for
another's object was given because the target let it, or the attempt is among those
recorded as let or meddled with.  `TransitionRead` and `PendingRead` do the same for a
workflow that is approved between two reads, where `TargetHonest` says who can have
approved.  The run follows one probe at a time; the theorem holds for any number of
probes beside each other.

### ResearchProofs

Four components, each with its own inductive invariant, checked by TLC on an
instance before it was proved.  Assumptions: `HuntAssumption`, `SelectionAssumption`,
`ReasoningAssumption` and `RoutingAssumption` type the constants, keep the sentinels out
of the sets they stand beside, and say that prices, counts and limits are not negative.

**Hunt** (`HuntInv`, any graph, registry, operators, approvals and interruptions).
`QueueIsBacked` counts the items of a hypothesis; what makes the count one is that item
and event come in one transaction (`ItemsAreEvents`), of a hypothesis that had no
event yet and that no other cycle holds (`TodoIsFresh`).  That the evidence a tier
asked for is still there needs `CycleIsBehind`: a cycle works on an older graph, and
edges never leave.  `ThrottleForRejectionsOnly` is about the operator alone: with the
latest outcome chosen among the events of an instant, a hypothesis counted as
rejected has a rejection.

**Selection** (`SelectionInv`, any contexts, hypotheses, verifiers and deaths).
`QuestionsPutOnce` rests on `SelectedFirst`: the identity of a probe was committed with
its selection, so a process that comes back cannot select it again.  For
`VerdictsStand` the portfolio's "latest" assessment, by the number of its cycle row,
must be the last one made: `CyclesInOrder`.  `StoppedForReason` says that the reason
a run stopped with is still one its rows give; a question of an open or supported
hypothesis that was not selected would be eligible then (`QuestionsSelected`).  What was
selected and is in no experiment is about to be put or is lost, and a second invariant
(`LostOnlyWithDeaths`) counts the lost ones: only a death between `Select` and `Prepare`
adds to them.  `NoQuestionLeft` follows from the two.

**Reasoning** (`ReasoningInv`, any runs, contexts, answers, days and crashes).
Everything a run writes names rows of its own (`RowsTyped`), and the two steps between
the answers and the transaction that stores them carry the context they were given
on (`ControlTyped`).  `HypothesesGrounded` needs that admission, answers and hypothesis
get new ids together (`Grounded`).  For `HypothesesLostOnlyToDeaths` the invariant must see
a loss before it shows: a hypothesis is doomed as soon as its controller dies behind the
admission while the row names an older experiment, though the row is still at it
(`Doomed`, `Secure`).  `Kept` bounds the doomed ones by the deaths, and only a death adds to
them; a hypothesis that is abandoned was doomed.

**The daily allowance** (`SpendInv`).  The check reads a sum, the calls it lets through
are recorded later, in two transactions each, over invocations that a crash may have
cut short.  `Within` splits the invocations of a day: a part whose sum was
below the limit, and at most one more of each run, which is the one in flight where
there is one.  `ReserveModelCall` makes the whole day the first part, since the check
has just seen it below the limit; `RecordTokens` only changes what its run has in
flight.  The bound follows from the cost of one invocation (`InvocationCosts`) and
lemmas about sums over finite sets (`SumAdds`, `SumBound`).

One would expect the bound to be what one call costs for each run.  That is not what
the code keeps, and the proof would not go through.  A process that dies between the two transactions of
`_record_tokens` leaves an invocation with an input and no output; after the restart
`Invocation` is the same, the call is made again, its input row is dropped as a duplicate
and its output row is added to the old input.  Such an invocation costs what the
input of one call and the output of another come to, under the model of the row whose
random id sorts first, which may be more than any call did.  `DailySpendBounded` says so, and the
answers of `MCReasoning` are such that it makes a difference.

**Routing** (`RoutingInv`, any requests, candidates, orders and outcomes).  What
`reconsider_runtime` is given is the previous decision, so `SelectionBounded` ties that
to the calls made: the runtimes called are among those attempted, their number is
below the counter, and an escalation is not a fallback.  `CallsBounded` has what
`FallbackBounded` says of the calls.  `SelectRuntimeSelects` is the lemma about the
pure part: a selected runtime is one of the candidates, passes every filter and is
of the price class asked for, whatever `sorted` makes of an order that is no order
(`RankedKeeps`).

A step of the specification `reasoning` runs is a step of `ReasoningSpec` or of
`RoutingSpec` and leaves the variables of the other alone, so both theorems speak of it.

`LeastNumber`, `SmallestSet` and `StepsDefined` are what these proofs use for induction over
numbers, finite sets and recursive functions: a well-founded order has a minimal
counterexample.  With them a sum over a finite set, a ranked list and a
recursively defined function can be reasoned about.

### What is only model-checked

- Liveness (`CallsReturn`, `RunStops`, `EveryObservationProjected`, `DiscoveryStops`,
  `EveryCellHypothesized`, `CallReturns`): liveness under fairness, and with it ENABLED, is
  out of the prover's reach.

The order that `Ranked` gives, the weights of the scheduler and what a context budget
keeps are neither checked nor proved against a reference definition: runs and proofs
use which elements these return.

## 6. Not modelled

- **Scope compiler**: matching of URLs, without state; which rules match is an input of
  `CoreAuthorization`.  The price table is a constant.
- **The words of a model**: prompts and the text of answers; transports of providers.
  Chains, invariants and differentials that a model may add to its answer.
- **Contents**: titles, claims, impact chains, snapshots, reports, surface templates;
  they decide nothing that a modelled step tells apart.
- **Record validation and row mapping** (`data/records.py`, `data/postgres/mapping.py`,
  `tables.py`): constructors and conversions; unique keys, CHECKs and orderings that a
  protocol relies on are in the actions that rely on them.
- **One-shot worker processes** (`argv_process`, `LocalProcessWorkerAdapter`): only what
  a call ends with.
- **What Playwright does inside a page**, and browser pages that use a session.
- **Interface, benchmarks, integrations**: input and output.

## 7. Plan

1. `RememberedPageIsShown` for two controllers: what `run_cycle` would have to drop when
   a commit conflicts, and the proof with it.
2. `ScopeCompiler`: rule matching as operators against a reference definition, and
   the worker's envelope beside it.
3. `dispatch` inside `Orchestration` and `HttpExperiments` as an instance of
   `BudgetedDispatch`.
