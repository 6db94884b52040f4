----------------------------- MODULE HttpWorkers -----------------------------
(***************************************************************************)
(* The one-shot HTTP workers: which requests a plan makes, in which order,  *)
(* what the worker makes of each answer, and the status it reports.  Pure   *)
(* operators; HttpExperiments runs them against a target that others use.   *)
(*                                                                         *)
(* A plan is a record: capability, the research run, the identity the       *)
(* caller names, the session it logs in or uses (None if none), the origin, *)
(* whether Core's compiled scope allows its URL (inScope), the requests the *)
(* derived envelope does not cover (outside), and mode, the argument of the *)
(* differential probe.  The lab's redirect mode and area are the target's   *)
(* choice to redirect.  The actor is "a"; the other account is Cross.       *)
(***************************************************************************)
EXTENDS ExperimentVerdict, Sequences

HTTP_SCOPE_CAPABILITIES ==
    {"http.transaction", "http.authentication", "http.authorization.differential",
     "http.state_transition"}

\* area: "vulnerable" is the part of the target under test, "secure" its twin.
Request(key, method, area) == [key |-> key, method |-> method, area |-> area]

PlannedDifferential(mode) ==
    <<Request("owner_request", "GET", mode),
      Request("cross_object_request", "GET", mode),
      Request("secure_control", "GET", "secure"),
      Request("unauthenticated_control", "GET", mode)>>

PlannedTransition ==
    <<Request("pre_state_request", "GET", "workflow"),
      Request("control_request", "POST", "control"),
      Request("transition_request", "POST", "workflow"),
      Request("post_state_request", "GET", "workflow")>>

Planned(plan) ==
    CASE plan.capability = "http.authentication" -> <<Request("login", "POST", "login")>>
      [] plan.capability = "http.transaction" -> <<Request("transaction", "GET", "page")>>
      [] plan.capability = "http.authorization.differential" -> PlannedDifferential(plan.mode)
      [] plan.capability = "http.state_transition" -> PlannedTransition

\* The worker request of a resumed attempt has no envelope: nothing is allowed.
EnvelopeAllows(plan, envelope, request) == envelope /\ request.key \notin plan.outside

\* What the worker needs in its request's resolved secret values.
NeedsSecret(plan) ==
    \/ plan.capability = "http.authentication"
    \/ plan.capability = "http.transaction" /\ plan.session # None

\* Checks before anything is sent; "" when they pass.
RefusedStatus(plan, envelope, secret, request) ==
    IF ~envelope THEN "EXECUTION_FAILED"
    ELSE IF NeedsSecret(plan) /\ secret = None THEN "BLOCKED"
    ELSE IF ~EnvelopeAllows(plan, envelope, request) THEN "EXECUTION_FAILED"
    ELSE ""

\* What may become of a request: its response is read, it is a redirect, it
\* does not come in time, or the exchange breaks or exceeds its byte bound.
Answers == {"read", "redirect", "timeout", "broken"}

\* What an exchange ends the probe with; "" when the answer was read.
FailedStatus(answer) ==
    CASE answer = "redirect" -> "REAUTHORIZATION_REQUIRED"
      [] answer = "timeout" -> "TIMED_OUT"
      [] answer = "broken" -> "EXECUTION_FAILED"
      [] answer = "read" -> ""

\* A login that sets no cookie, or with another status, still SUCCEEDED.
LoginResult(response) ==
    [status_code |-> response.status,
     session_established |-> response.status = 200 /\ response.cookie # None]

TransactionResult(response) == [status_code |-> response.status]

\* answers: request key -> what was read of the response.
RawResult(plan, answers) ==
    CASE plan.capability = "http.authentication" -> LoginResult(answers["login"])
      [] plan.capability = "http.transaction" -> TransactionResult(answers["transaction"])
      [] OTHER -> answers

\* build_result moves the cookie out of the raw result.
EphemeralCookie(plan, answers) ==
    IF plan.capability = "http.authentication" /\ LoginResult(answers["login"]).session_established
    THEN answers["login"].cookie ELSE None

-----------------------------------------------------------------------------
(* The target, as the labs of the repository's tests answer: accounts with  *)
(* an owner and readers, a workflow that waits for a reviewer, a login.     *)
(* target: reader and delegated (what "a" was granted), state, approvedBy,  *)
(* and flaws: what the vulnerable parts of it do not check.                 *)

ReadsThrough(target) == target.reader \/ "reads" \in target.flaws

Account(owner, target) ==
    [status |-> 200, owner |-> owner, visibility |-> None, kind |-> None,
     readers |-> IF target.reader THEN {"a"} ELSE {}]

Refusal(status) ==
    [status |-> status, owner |-> None, visibility |-> None, kind |-> None, readers |-> {}]

AccountResponse(target, request) ==
    CASE request.key = "owner_request" -> Account("a", target)
      [] request.key = "unauthenticated_control" -> Refusal(401)
      [] request.area = "vulnerable" /\ ReadsThrough(target) -> Account(Cross, target)
      [] OTHER -> Refusal(403)

\* The policy of the workflow, for actor "a" with the role of a requester.
PolicyStatus(target) ==
    IF target.state # "UNDER_REVIEW" THEN 409 ELSE IF ~target.delegated THEN 403 ELSE 200

\* The control twin of a transition keeps to the policy, on the same record.
TransitionStatus(target, request) ==
    IF request.area = "workflow" /\ "approvals" \in target.flaws THEN 200
    ELSE PolicyStatus(target)

Record(target, status) ==
    [status |-> status, state |-> target.state, approved_by |-> target.approvedBy,
     actor_role |-> "requester",
     delegated_reviewers |-> IF target.delegated THEN {"a"} ELSE {}]

WorkflowResponse(target, request) ==
    Record(target, IF request.method = "GET" THEN 200 ELSE TransitionStatus(target, request))

Response(target, request) ==
    IF request.area \in {"workflow", "control"} THEN WorkflowResponse(target, request)
    ELSE AccountResponse(target, request)

AfterRequest(target, request) ==
    IF request.method = "POST" /\ TransitionStatus(target, request) = 200
    THEN [target EXCEPT !.state = "APPROVED", !.approvedBy = "a"] ELSE target

\* The target lets "a" do what nobody granted it.
Breaches(target, request) ==
    \/ /\ request.key = "cross_object_request"
       /\ AccountResponse(target, request).status = 200 /\ ~target.reader
    \/ /\ request.key = "transition_request"
       /\ TransitionStatus(target, request) = 200 /\ PolicyStatus(target) # 200
=============================================================================
