------------------------- MODULE ExperimentDispatch -------------------------
(***************************************************************************)
(* ExecutePlannedExperiment: how Control Plane processes take planned      *)
(* experiments through Core authorization, a durable ExecutionAttempt, a   *)
(* worker invocation and the ingestion of its result.                      *)
(*                                                                         *)
(* A controller runs one call at a time.  Its local record is the program  *)
(* counter and the values the code read in one transaction and uses in a   *)
(* later one.  The other variables are rows of PostgreSQL: they change     *)
(* only when a transaction commits, and survive a crash.  Transactions     *)
(* run at READ COMMITTED; an UPDATE holds its row until commit, which      *)
(* rowLock models (one lock for an experiment and its attempts).           *)
(***************************************************************************)
EXTENDS CoreAuthorization

CONSTANTS
    Controllers,      \* processes that may drive the same research run
    Experiments,      \* planned experiments of the run
    Requests,         \* the request ids new_opaque_id may still draw
    Free,             \* no controller
    NoExperiment,     \* no experiment
    NoRequest,        \* no request
    Level,            \* side-effect level of each experiment's plan
    Capability,       \* capability claim of each experiment's plan
    BrowserPage,      \* experiments whose plan requires browser.page
    PageRequests,     \* BROWSER_PAGE_MAX_NETWORK_REQUESTS
    Commands,         \* what a caller may pass: [scope, approval, http, session]
    Issued,           \* the issued budget of the run
    Subject,          \* target reference of the plans
    RateLimit,        \* rate-limit profile of the program policy, or Missing
    MaxClock          \* bound on the clock

\* The sentinels are no members, and the issued amounts are natural numbers
\* (issued_budget has CHECK constraints), as is what a RateLimitProfile holds.
ASSUME SentinelAssumption ==
    Free \notin Controllers /\ NoExperiment \notin Experiments /\ NoRequest \notin Requests

ASSUME BudgetAssumption ==
    /\ Issued.max \in [BudgetFields -> Nat]
    /\ PageRequests \in Nat \ {0}

ASSUME RateLimitAssumption ==
    RateLimit # Missing => RateLimit \in [max_requests: Nat, window: Nat]

VARIABLES
    source,        \* authorization source row of the run
    expState,      \* experiment.execution_state
    attState,      \* execution_attempt.state, "NONE" while there is no row
    attExp,        \* execution_attempt.experiment_id
    attAt,         \* execution_attempt.authorized_at
    charged,       \* budget_consumption rows of each request
    used,          \* sums over the append-only budget_consumption table
    result,        \* worker_result.status of each request, or "NONE"
    rowLock,       \* controller whose transaction has updated the row
    ctl,           \* local state of each controller
    invoked,       \* how often a worker was invoked for each request
    clock

rows  == <<source, expState, attState, attExp, attAt, charged, used, result>>
vars  == <<rows, rowLock, ctl, invoked, clock>>

ExperimentStates ==
    {"PLANNED", "AUTHORIZATION_CHECK", "READY", "RUNNING", "EXECUTION_SUCCEEDED",
     "EXECUTION_FAILED", "BLOCKED", "CANCELLED", "BUDGET_EXHAUSTED"}

\* Mutant: an exhausted budget is not terminal.
TerminalWithoutBudget ==
    {"EXECUTION_SUCCEEDED", "EXECUTION_FAILED", "BLOCKED", "CANCELLED"}

TERMINAL_EXPERIMENT_STATES ==
    {"EXECUTION_SUCCEEDED", "EXECUTION_FAILED", "BLOCKED", "CANCELLED", "BUDGET_EXHAUSTED"}

AttemptStates ==
    {"NONE", "AUTHORIZED", "DISPATCHING", "COMPLETED", "FAILED", "TIMED_OUT",
     "CANCELLED", "UNKNOWN_OUTCOME"}

\* WorkerResult.status, as far as the control loop tells them apart: OK stands
\* for the five statuses that _classify_invocation does not look for.
ResultStatuses == {"OK", "REAUTHORIZATION_REQUIRED", "BUDGET_EXHAUSTED"}

\* InvocationStatus.  A COMPLETED invocation carries a WorkerResult; FAILED
\* stands for START_FAILED, PROCESS_FAILED, PROTOCOL_ERROR, CONTRACT_INVALID.
Invocations ==
    [status: {"COMPLETED"}, result: ResultStatuses]
    \cup [status: {"TIMED_OUT", "CANCELLED", "FAILED"}, result: {"NONE"}]

Verdicts == Kinds \cup {"INPUT_REJECTED", "RATE_LIMITED"}

Idle == [pc |-> "idle", exp |-> NoExperiment, req |-> NoRequest, now |-> 0,
         source |-> Missing, verdict |-> [decision |-> "DENY", reason |-> "ALLOWED"],
         amount |-> 0, result |-> "NONE"]

Init ==
    /\ source = [state |-> "ACTIVE"]
    /\ expState = [e \in Experiments |-> "PLANNED"]
    /\ attState = [r \in Requests |-> "NONE"]
    /\ attExp = [r \in Requests |-> NoExperiment]
    /\ attAt = [r \in Requests |-> 0]
    /\ charged = [r \in Requests |-> [invocation |-> 0, request |-> 0]]
    /\ used = [requests |-> 0, tool_calls |-> 0]
    /\ result = [r \in Requests |-> "NONE"]
    /\ rowLock = [e \in Experiments |-> Free]
    /\ ctl = [c \in Controllers |-> Idle]
    /\ invoked = [r \in Requests |-> 0]
    /\ clock = 0

-----------------------------------------------------------------------------

AttemptsOf(e) == {r \in Requests : attState[r] # "NONE" /\ attExp[r] = e}

\* BudgetUsage rebuilt from the ledger: no runtime is charged by this use case.
Usage == [f \in BudgetFields |->
            IF f = "requests" THEN used.requests
            ELSE IF f = "tool_calls" THEN used.tool_calls ELSE 0]

Goto(c, pc) == ctl' = [ctl EXCEPT ![c].pc = pc]
Return(c)   == ctl' = [ctl EXCEPT ![c] = Idle]
Lock(c, e)  == rowLock[e] = Free /\ rowLock' = [rowLock EXCEPT ![e] = c]
Unlock(e)   == rowLock' = [rowLock EXCEPT ![e] = Free]

\* Writes that need the row: they wait for a transaction that has updated it.
Updatable(e) == rowLock[e] = Free

-----------------------------------------------------------------------------
(* execute: fail closed on what is already there.                          *)

\* Mutant: a timed-out attempt is in doubt as well.
InDoubtOrTimedOut(state) == state \in {"DISPATCHING", "TIMED_OUT"}

InDoubt(state) == state = "DISPATCHING"

\* list_for_experiment has no ORDER BY: attempts[0] is any of them.
StartExecute(c, e) ==
    /\ ctl[c].pc = "idle"
    /\ \/ /\ AttemptsOf(e) = {}
          /\ expState[e] \notin TERMINAL_EXPERIMENT_STATES
          /\ ctl' = [ctl EXCEPT ![c] = [Idle EXCEPT !.pc = "authorize", !.exp = e,
                                                    !.now = clock]]
       \/ \E r \in AttemptsOf(e) :
          /\ InDoubt(attState[r])
          /\ ctl' = [ctl EXCEPT ![c] = [Idle EXCEPT !.pc = "mark_unknown", !.exp = e,
                                                    !.req = r]]
    /\ UNCHANGED <<rows, rowLock, invoked, clock>>

\* Mutant: an attempt in doubt is made ready for another dispatch.
MarkAuthorized(c) ==
    /\ ctl[c].pc = "mark_unknown"
    /\ Updatable(ctl[c].exp)
    /\ attState' = [attState EXCEPT ![ctl[c].req] = "AUTHORIZED"]
    /\ Return(c)
    /\ UNCHANGED <<source, expState, attExp, attAt, charged, used, result, rowLock,
                   invoked, clock>>

\* The write half of _mark_unknown, whoever owns the attempt meanwhile.
MarkUnknown(c) ==
    /\ ctl[c].pc = "mark_unknown"
    /\ Updatable(ctl[c].exp)
    /\ attState' = [attState EXCEPT ![ctl[c].req] = "UNKNOWN_OUTCOME"]
    /\ Return(c)
    /\ UNCHANGED <<source, expState, attExp, attAt, charged, used, result, rowLock,
                   invoked, clock>>

-----------------------------------------------------------------------------
(* authorize: one transaction, in three steps.                             *)

\* The reads before the first write.
LoadContext(c) ==
    LET e == ctl[c].exp IN
    /\ ctl[c].pc = "authorize"
    /\ IF expState[e] \in TERMINAL_EXPERIMENT_STATES \/ AttemptsOf(e) # {}
       THEN Return(c)
       ELSE ctl' = [ctl EXCEPT ![c].pc = "decide", ![c].source = source]
    /\ UNCHANGED <<rows, rowLock, invoked, clock>>

AuthorizedTimes ==
    [r \in {r \in Requests : attState[r] # "NONE"} |-> attAt[r]]

RateLimited(c) ==
    /\ RateLimit # Missing
    /\ ~CheckRateLimit(RateLimit, AuthorizedTimes, ctl[c].now).ok

ExecutionRequest(c, command) ==
    [capability |-> Capability[ctl[c].exp], level |-> Level[ctl[c].exp],
     source |-> ctl[c].source, scope |-> command.scope, issued |-> Issued,
     usage |-> Usage, requested_budget |-> Issued.budget, subject |-> Subject,
     approval |-> command.approval]

InputRejected == [decision |-> "INPUT_REJECTED", reason |-> "SCHEMA_MISMATCH"]

\* command.http and command.session are what authorize_http_transaction_plan
\* and bind_identity_session say of the plan: accepted, refused or rejected.
Verdict(c, command) ==
    LET core == EvaluateExecution(ExecutionRequest(c, command)) IN
    IF command.http = "rejected" THEN InputRejected
    ELSE IF RateLimited(c) THEN [decision |-> "RATE_LIMITED", reason |-> "RATE_LIMIT_DENIED"]
    ELSE IF command.session = "rejected" THEN InputRejected
    ELSE IF command.http = "refused" THEN Decide("DENY", "SCOPE_NOT_EXPLICITLY_ALLOWED")
    ELSE IF command.session = "refused" /\ core.decision = "ALLOW"
         THEN Decide("DENY", "SCHEMA_MISMATCH")
    ELSE core

\* set_execution_state(AUTHORIZATION_CHECK) takes the row, then the rate limit
\* and the ledger are read and Core decides.
DecideExecution(c) ==
    /\ ctl[c].pc = "decide"
    /\ Lock(c, ctl[c].exp)
    /\ \E command \in Commands :
          ctl' = [ctl EXCEPT ![c].pc = "commit_decision", ![c].verdict = Verdict(c, command)]
    /\ UNCHANGED <<rows, invoked, clock>>

\* _deny_experiment_state, and the BLOCKED of a rate-limited experiment.
DeniedState(verdict) ==
    IF verdict.decision = "DENY" /\ verdict.reason = "BUDGET_EXHAUSTED"
    THEN "BUDGET_EXHAUSTED" ELSE "BLOCKED"

\* Rollback of a rejected input, commit of a refusal or of a review.
CommitRefusal(c) ==
    LET e == ctl[c].exp  v == ctl[c].verdict IN
    /\ ctl[c].pc = "commit_decision"
    /\ v.decision # "ALLOW"
    /\ expState' =
          [expState EXCEPT ![e] =
              CASE v.decision = "INPUT_REJECTED"          -> expState[e]
                [] v.decision = "REQUIRE_HUMAN_REVIEW"    -> "AUTHORIZATION_CHECK"
                [] v.decision \in {"DENY", "RATE_LIMITED"} -> DeniedState(v)]
    /\ Unlock(e)
    /\ Return(c)
    /\ UNCHANGED <<source, attState, attExp, attAt, charged, used, result, invoked, clock>>

\* Commit of ALLOW: the attempt row and the READY experiment, together.
CommitAllow(c) ==
    LET e == ctl[c].exp IN
    /\ ctl[c].pc = "commit_decision"
    /\ ctl[c].verdict.decision = "ALLOW"
    /\ \E r \in {q \in Requests : attState[q] = "NONE"} :
          /\ attState' = [attState EXCEPT ![r] = "AUTHORIZED"]
          /\ attExp' = [attExp EXCEPT ![r] = e]
          /\ attAt' = [attAt EXCEPT ![r] = ctl[c].now]
          /\ ctl' = [ctl EXCEPT ![c] = [Idle EXCEPT !.pc = "dispatch", !.exp = e, !.req = r]]
    /\ expState' = [expState EXCEPT ![e] = "READY"]
    /\ Unlock(e)
    /\ UNCHANGED <<source, charged, used, result, invoked, clock>>

-----------------------------------------------------------------------------
(* dispatch: a second transaction, then the worker outside of any.         *)

\* A controller of the run finds an attempt that was never dispatched and
\* goes straight to dispatch, unless an attempt of the run is in doubt.
ResumeAuthorized(c) ==
    /\ ctl[c].pc = "idle"
    /\ \A r \in Requests : attState[r] \notin {"DISPATCHING", "UNKNOWN_OUTCOME"}
    /\ \E r \in Requests :
          /\ attState[r] = "AUTHORIZED"
          /\ ctl' = [ctl EXCEPT ![c] = [Idle EXCEPT !.pc = "dispatch", !.exp = attExp[r],
                                                    !.req = r]]
    /\ UNCHANGED <<rows, rowLock, invoked, clock>>

LoadAttempt(c) ==
    LET state == attState[ctl[c].req] IN
    /\ ctl[c].pc = "dispatch"
    /\ CASE state = "AUTHORIZED"  -> Goto(c, "reserve")
         [] state = "DISPATCHING" -> Goto(c, "mark_unknown")
         [] OTHER                 -> Return(c)
    /\ UNCHANGED <<rows, rowLock, invoked, clock>>

Remaining == Issued.max["requests"] - used.requests

\* A browser page reads the ledger, before the budget row is locked.
RequestAmount(e) ==
    IF e \notin BrowserPage THEN 1
    ELSE IF Remaining < PageRequests THEN Remaining ELSE PageRequests

\* The attempt and the experiment are updated, then the reservation is sized.
SizeReservation(c) ==
    LET e == ctl[c].exp  amount == RequestAmount(e) IN
    /\ ctl[c].pc = "reserve"
    /\ Updatable(e)
    /\ IF amount < 1
       THEN Return(c) /\ UNCHANGED rowLock
       ELSE /\ ctl' = [ctl EXCEPT ![c].pc = "consume", ![c].amount = amount]
            /\ rowLock' = [rowLock EXCEPT ![e] = c]
    /\ UNCHANGED <<rows, invoked, clock>>

\* Mutant of NewInvocations: the row is looked up by experiment, not by request.
NewInvocationsOfExperiment(r) ==
    IF \A q \in Requests : attExp[q] = attExp[r] => charged[q].invocation = 0
    THEN 1 ELSE 0

\* Mutant of WithinAllowance: the usage so far is compared, not the sum.
AllowanceLeft(r, n) ==
    used.tool_calls <= Issued.max["tool_calls"] /\ used.requests <= Issued.max["requests"]

\* insert_within_allowance under SELECT ... FOR UPDATE of the issued budget: a
\* row the request already has is left alone, silently.
NewInvocations(r)     == IF charged[r].invocation = 0 THEN 1 ELSE 0
NewRequests(r, n)     == IF charged[r].request = 0 THEN n ELSE 0
WithinAllowance(r, n) ==
    /\ used.tool_calls + NewInvocations(r) <= Issued.max["tool_calls"]
    /\ used.requests + NewRequests(r, n) <= Issued.max["requests"]

CommitDispatch(c) ==
    LET e == ctl[c].exp  r == ctl[c].req  n == ctl[c].amount IN
    /\ ctl[c].pc = "consume"
    /\ WithinAllowance(r, n)
    /\ charged' = [charged EXCEPT ![r] =
                      [invocation |-> charged[r].invocation + NewInvocations(r),
                       request    |-> charged[r].request + NewRequests(r, n)]]
    /\ used' = [requests   |-> used.requests + NewRequests(r, n),
                tool_calls |-> used.tool_calls + NewInvocations(r)]
    /\ attState' = [attState EXCEPT ![r] = "DISPATCHING"]
    /\ expState' = [expState EXCEPT ![e] = "RUNNING"]
    /\ Unlock(e)
    /\ Goto(c, "invoke")
    /\ UNCHANGED <<source, attExp, attAt, result, invoked, clock>>

\* Mutant: the call returns without the rollback.
DenyKeepingRow(c) ==
    /\ ctl[c].pc = "consume"
    /\ ~WithinAllowance(ctl[c].req, ctl[c].amount)
    /\ Return(c)
    /\ UNCHANGED <<rows, rowLock, invoked, clock>>

\* BudgetOverspendError: everything is rolled back, the attempt stays AUTHORIZED.
DenyDispatch(c) ==
    LET r == ctl[c].req  n == ctl[c].amount IN
    /\ ctl[c].pc = "consume"
    /\ ~WithinAllowance(r, n)
    /\ Unlock(ctl[c].exp)
    /\ Return(c)
    /\ UNCHANGED <<rows, invoked, clock>>

InvokeWorker(c) ==
    /\ ctl[c].pc = "invoke"
    /\ invoked' = [invoked EXCEPT ![ctl[c].req] = @ + 1]
    /\ Goto(c, "running")
    /\ UNCHANGED <<rows, rowLock, clock>>

-----------------------------------------------------------------------------
(* _record_outcome: three more transactions.                               *)

Outcome(attempt, experiment) == [attempt |-> attempt, experiment |-> experiment]

ClassifyResult(status) ==
    CASE status = "REAUTHORIZATION_REQUIRED" -> Outcome("COMPLETED", "AUTHORIZATION_CHECK")
      [] status = "BUDGET_EXHAUSTED"         -> Outcome("COMPLETED", "BUDGET_EXHAUSTED")
      [] status = "OK"                       -> Outcome("COMPLETED", "EXECUTION_SUCCEEDED")

\* Mutant: a timed-out attempt is made ready for another dispatch.
ClassifyTimeoutAsRetry(status) ==
    CASE status = "TIMED_OUT" -> Outcome("AUTHORIZED", "READY")
      [] status = "CANCELLED" -> Outcome("CANCELLED", "CANCELLED")
      [] status = "FAILED"    -> Outcome("FAILED", "EXECUTION_FAILED")

ClassifyFailure(status) ==
    CASE status = "TIMED_OUT" -> Outcome("TIMED_OUT", "EXECUTION_FAILED")
      [] status = "CANCELLED" -> Outcome("CANCELLED", "CANCELLED")
      [] status = "FAILED"    -> Outcome("FAILED", "EXECUTION_FAILED")

ClassifyInvocation(i) ==
    IF i.status = "COMPLETED" THEN ClassifyResult(i.result) ELSE ClassifyFailure(i.status)

\* A PersistenceError here is caught and leaves the rows as they are: it has
\* the effect of Crash.
RecordOutcome(c) ==
    LET e == ctl[c].exp  r == ctl[c].req IN
    /\ ctl[c].pc = "running"
    /\ Updatable(e)
    /\ \E i \in Invocations :
          LET class == ClassifyInvocation(i) IN
          /\ attState' = [attState EXCEPT ![r] = class.attempt]
          /\ expState' = [expState EXCEPT ![e] = class.experiment]
          /\ IF i.status = "COMPLETED"
             THEN ctl' = [ctl EXCEPT ![c].pc = "ingest", ![c].result = i.result]
             ELSE Return(c)
    /\ UNCHANGED <<source, attExp, attAt, charged, used, result, rowLock, invoked, clock>>

\* Mutant: the second ingestion replaces the first.
IngestLast(c) ==
    /\ ctl[c].pc = "ingest"
    /\ result' = [result EXCEPT ![ctl[c].req] = ctl[c].result]
    /\ Return(c)
    /\ UNCHANGED <<source, expState, attState, attExp, attAt, charged, used, rowLock,
                   invoked, clock>>

\* IngestCompletedWorkerInvocation: stored once, whoever comes second.
Ingest(c) ==
    LET r == ctl[c].req IN
    /\ ctl[c].pc = "ingest"
    /\ result' = [result EXCEPT ![r] = IF @ = "NONE" THEN ctl[c].result ELSE @]
    /\ Return(c)
    /\ UNCHANGED <<source, expState, attState, attExp, attAt, charged, used, rowLock,
                   invoked, clock>>

\* REJECTED_INVALID_INVOCATION: no normalizer, or a malformed payload.
RejectIngestion(c) ==
    /\ ctl[c].pc = "ingest"
    /\ Goto(c, "fail_attempt")
    /\ UNCHANGED <<rows, rowLock, invoked, clock>>

FailAttempt(c) ==
    /\ ctl[c].pc = "fail_attempt"
    /\ Updatable(ctl[c].exp)
    /\ attState' = [attState EXCEPT ![ctl[c].req] = "FAILED"]
    /\ expState' = [expState EXCEPT ![ctl[c].exp] = "EXECUTION_FAILED"]
    /\ Return(c)
    /\ UNCHANGED <<source, attExp, attAt, charged, used, result, rowLock, invoked, clock>>

-----------------------------------------------------------------------------
(* The environment.                                                        *)

\* The process dies, or an exception leaves the call: the open transaction
\* rolls back and its rows are released.
Crash(c) ==
    /\ ctl[c].pc # "idle"
    /\ Return(c)
    /\ rowLock' = [e \in Experiments |-> IF rowLock[e] = c THEN Free ELSE rowLock[e]]
    /\ UNCHANGED <<rows, invoked, clock>>

\* An operator ends the authorization; no code of the repository does.
SourceLapses ==
    /\ source.state = "ACTIVE"
    /\ \E s \in SourceStates \ {"ACTIVE"} : source' = [state |-> s]
    /\ UNCHANGED <<expState, attState, attExp, attAt, charged, used, result, rowLock,
                   ctl, invoked, clock>>

Tick ==
    /\ clock < MaxClock
    /\ clock' = clock + 1
    /\ UNCHANGED <<rows, rowLock, ctl, invoked>>

ControllerStep(c) ==
    \/ \E e \in Experiments : StartExecute(c, e)
    \/ MarkUnknown(c)
    \/ LoadContext(c)
    \/ DecideExecution(c)
    \/ CommitRefusal(c)
    \/ CommitAllow(c)
    \/ ResumeAuthorized(c)
    \/ LoadAttempt(c)
    \/ SizeReservation(c)
    \/ CommitDispatch(c)
    \/ DenyDispatch(c)
    \/ InvokeWorker(c)
    \/ RecordOutcome(c)
    \/ Ingest(c)
    \/ RejectIngestion(c)
    \/ FailAttempt(c)

Acting ==
    \/ \E c \in Controllers : ControllerStep(c) \/ Crash(c)
    \/ SourceLapses

Next == Acting \/ Tick

Spec == Init /\ [][Next]_vars

\* A call that was entered keeps running: the process is scheduled, PostgreSQL
\* grants a row to the transactions queued for it in turn (strong fairness for
\* the steps that wait for a row), and a worker ends by its timeout at the
\* latest.  Nothing obliges anyone to make a call, to crash, or to lapse.
CallStep(c) ==
    \/ LoadContext(c) \/ CommitRefusal(c) \/ CommitAllow(c) \/ LoadAttempt(c)
    \/ CommitDispatch(c) \/ DenyDispatch(c) \/ InvokeWorker(c)
    \/ Ingest(c) \/ RejectIngestion(c)

RowStep(c) ==
    MarkUnknown(c) \/ DecideExecution(c) \/ SizeReservation(c) \/ RecordOutcome(c)
    \/ FailAttempt(c)

CallsFair == \A c \in Controllers : WF_vars(CallStep(c)) /\ SF_vars(RowStep(c))

-----------------------------------------------------------------------------
(* Types and the inductive invariant.                                      *)

PCs == {"idle", "authorize", "decide", "commit_decision", "mark_unknown", "dispatch",
        "reserve", "consume", "invoke", "running", "ingest", "fail_attempt"}

Sources == [state: SourceStates] \cup {Missing}

Locals ==
    [pc: PCs, exp: Experiments \cup {NoExperiment}, req: Requests \cup {NoRequest},
     now: Nat, source: Sources, verdict: [decision: Verdicts, reason: ReasonCodes],
     amount: Nat, result: ResultStatuses \cup {"NONE"}]

TypeOK ==
    /\ source \in Sources
    /\ expState \in [Experiments -> ExperimentStates]
    /\ attState \in [Requests -> AttemptStates]
    /\ attExp \in [Requests -> Experiments \cup {NoExperiment}]
    /\ attAt \in [Requests -> Nat]
    /\ charged \in [Requests -> [invocation: Nat, request: Nat]]
    /\ used \in [requests: Nat, tool_calls: Nat]
    /\ result \in [Requests -> ResultStatuses \cup {"NONE"}]
    /\ rowLock \in [Experiments -> Controllers \cup {Free}]
    /\ ctl \in [Controllers -> Locals]
    /\ invoked \in [Requests -> Nat]
    /\ clock \in Nat

Dispatching == {"dispatch", "reserve", "consume"}
Dispatched  == {"mark_unknown", "invoke", "running", "ingest", "fail_attempt"}

Started(r) == attState[r] \notin {"NONE", "AUTHORIZED"}
Paid(r)    == charged[r].invocation = 1 /\ charged[r].request >= 1
Unpaid(r)  == charged[r] = [invocation |-> 0, request |-> 0]

\* Where a controller is tells which rows exist for its request.
LocalMatchesRows(c) ==
    /\ ctl[c].pc # "idle" => ctl[c].exp \in Experiments
    /\ ctl[c].pc \in Dispatching =>
          ctl[c].req \in Requests /\ attState[ctl[c].req] # "NONE"
    /\ ctl[c].pc \in Dispatched =>
          ctl[c].req \in Requests /\ Started(ctl[c].req)
    /\ ctl[c].pc = "consume" => ctl[c].amount >= 1
    /\ ctl[c].pc = "ingest" => ctl[c].result # "NONE"
    /\ ctl[c].pc \in {"running", "ingest", "fail_attempt"} => invoked[ctl[c].req] > 0

LocalsMatchRows == \A c \in Controllers : LocalMatchesRows(c)

(***************************************************************************)
(* The budget envelope is a hard limit: however many controllers dispatch, *)
(* resume and crash, and although Core checks the budget in another        *)
(* transaction than the one that spends it, the consumption ledger never   *)
(* exceeds the issued requests and tool calls.                             *)
(***************************************************************************)
LedgerWithinAllowance ==
    used.requests <= Issued.max["requests"] /\ used.tool_calls <= Issued.max["tool_calls"]

(***************************************************************************)
(* No worker is invoked on credit: every request a worker was ever invoked *)
(* for has its invocation and at least one network request in the ledger.  *)
(***************************************************************************)
InvocationsPaidFor == \A r \in Requests : invoked[r] > 0 => Paid(r)

(***************************************************************************)
(* Crash window C: after any crash, the attempt of a request that may have *)
(* reached a worker does not look undispatched, so _resume_authorized and  *)
(* execute cannot take it for one that is safe to start.                   *)
(***************************************************************************)
NoReplayAfterCrash == \A r \in Requests : invoked[r] > 0 => Started(r)

\* An attempt is charged exactly when it leaves AUTHORIZED, and is of a plan.
ChargedWithState ==
    \A r \in Requests :
        /\ Started(r) => Paid(r)
        /\ ~Started(r) => Unpaid(r)
        /\ attState[r] # "NONE" => attExp[r] \in Experiments
        /\ result[r] # "NONE" => invoked[r] > 0

DispatchInvariant ==
    /\ TypeOK
    /\ LocalsMatchRows
    /\ LedgerWithinAllowance
    /\ NoReplayAfterCrash
    /\ ChargedWithState

(***************************************************************************)
(* The refinement: forgetting controllers, locks, attempt outcomes and     *)
(* experiment states leaves a behaviour of BudgetedDispatch.               *)
(***************************************************************************)
Promise == INSTANCE BudgetedDispatch WITH
    MaxRequests  <- Issued.max["requests"],
    MaxToolCalls <- Issued.max["tool_calls"],
    phase  <- [r \in Requests |->
                 IF attState[r] = "NONE" THEN "none"
                 ELSE IF attState[r] = "AUTHORIZED" THEN "authorized" ELSE "started"],
    cost   <- [r \in Requests |-> charged[r].request],
    spent  <- used,
    runs   <- invoked,
    stored <- result

KeepsPromise == Promise!Spec

-----------------------------------------------------------------------------
(* What one controller keeps, across its own crashes and restarts, and     *)
(* several do not.                                                         *)

(***************************************************************************)
(* The outcome of an attempt is final: once it is COMPLETED, FAILED,       *)
(* TIMED_OUT, CANCELLED or UNKNOWN_OUTCOME no transaction gives it another *)
(* one, except that a rejected ingestion turns COMPLETED into FAILED.      *)
(***************************************************************************)
Outcomes == {"COMPLETED", "FAILED", "TIMED_OUT", "CANCELLED", "UNKNOWN_OUTCOME"}
OutcomeIsFinal ==
    [][\A r \in Requests :
          attState[r] \in Outcomes /\ attState'[r] # attState[r] =>
              attState[r] = "COMPLETED" /\ attState'[r] = "FAILED"]_vars

(***************************************************************************)
(* The rolling window of the rate-limit profile: in no window were more    *)
(* attempts authorized than the profile allows.                            *)
(***************************************************************************)
RollingWindow ==
    RateLimit # Missing =>
        \A t \in 0..MaxClock :
            Cardinality({r \in DOMAIN AuthorizedTimes :
                            InWindow(RateLimit, AuthorizedTimes[r], t)})
                <= RateLimit.max_requests

\* Bound: a call is about to give an attempt a request id of its own, and none is left.
OutOfRequests(c) == ctl[c].pc = "commit_decision" /\ \A r \in Requests : attState[r] # "NONE"

(***************************************************************************)
(* No call waits for ever: with several controllers contending for the     *)
(* rows of the same experiments, each call that was entered ends.          *)
(***************************************************************************)
CallsReturn ==
    \A c \in Controllers :
        ctl[c].pc # "idle" ~> (ctl[c].pc = "idle" \/ \E d \in Controllers : OutOfRequests(d))
=============================================================================
