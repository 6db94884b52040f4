-------------------------- MODULE ExperimentVerdict --------------------------
(***************************************************************************)
(* What an experiment shows: the Transition A normalizers, which turn the   *)
(* raw result of a worker into the payload of an observation, and the       *)
(* deterministic evaluators, which turn a payload into the outcome of an    *)
(* assessment.  Pure operators; the rows they end in are EvidencePipeline's. *)
(*                                                                         *)
(* A raw result is a record of the answers that some evaluator reads; one a *)
(* normalizer refuses (a missing request, a status that is no number) is    *)
(* None.  The differential plan has actor "a" read its own object "a" and   *)
(* the object Cross; the workflow plan has actor "a" ask for approval.      *)
(***************************************************************************)
EXTENDS Integers

CONSTANTS
    None,
    Cross       \* plan argument cross_object

Strategies ==
    {"diagnostic.echo", "http.authorization.differential", "http.state_transition",
     "http.transaction", "http.authentication"}

ResultStatuses ==
    {"SUCCEEDED", "EXECUTION_FAILED", "BLOCKED", "CANCELLED", "TIMED_OUT",
     "BUDGET_EXHAUSTED", "REAUTHORIZATION_REQUIRED"}

STATUSES_WITHOUT_TARGET_OBSERVATION == ResultStatuses \ {"SUCCEEDED"}

DENIED_STATUSES == {401, 403}

DENIED_OR_CONFLICT == {401, 403, 409}

-----------------------------------------------------------------------------
(* Normalizers.                                                            *)

NormalizeEcho(raw) == [echoed |-> raw.echoed]

NormalizeDifferential(raw) ==
    [owner_status |-> raw.owner_request.status, owner_owner |-> raw.owner_request.owner,
     cross_status |-> raw.cross_object_request.status,
     cross_owner |-> raw.cross_object_request.owner,
     cross_visibility |-> raw.cross_object_request.visibility,
     cross_readers |-> raw.cross_object_request.readers,
     cross_kind |-> raw.cross_object_request.kind,
     secure_status |-> raw.secure_control.status,
     unauth_status |-> raw.unauthenticated_control.status]

NormalizeTransition(raw) ==
    LET pre == raw.pre_state_request  post == raw.post_state_request IN
    [actor_role |-> IF pre.actor_role # None THEN pre.actor_role ELSE post.actor_role,
     pre_state |-> pre.state, post_state |-> post.state,
     response_status |-> raw.transition_request.status,
     control_status |-> raw.control_request.status,
     state_changed |-> /\ None \notin {pre.state, post.state}
                       /\ pre.state # post.state,
     approved_by |-> post.approved_by,
     delegated_reviewers |-> pre.delegated_reviewers]

StatusClass(code) == IF code \in 100 .. 599 THEN code \div 100 ELSE 0

NormalizeTransaction(raw) ==
    [status_code |-> raw.status_code, status_class |-> StatusClass(raw.status_code)]

NormalizeAuthentication(raw) ==
    [status_class |-> StatusClass(raw.status_code), established |-> raw.session_established]

Normalize(strategy, raw) ==
    CASE strategy = "diagnostic.echo"                 -> NormalizeEcho(raw)
      [] strategy = "http.authorization.differential" -> NormalizeDifferential(raw)
      [] strategy = "http.state_transition"           -> NormalizeTransition(raw)
      [] strategy = "http.transaction"                -> NormalizeTransaction(raw)
      [] strategy = "http.authentication"             -> NormalizeAuthentication(raw)

-----------------------------------------------------------------------------
(* Evaluators.                                                             *)

Outcomes ==
    {"CONSISTENT_WITH_PREDICTION", "CONTRADICTS_PREDICTION", "INCONCLUSIVE",
     "EXECUTION_UNUSABLE", "NEEDS_MORE_CONTEXT"}

Conclusive == {"CONSISTENT_WITH_PREDICTION", "CONTRADICTS_PREDICTION"}

\* An execution outcome of UNUSABLE_EXECUTION_OUTCOMES is derived from one of the
\* attempt and experiment states below and adds none.
UNUSABLE_ATTEMPT_STATES == {"FAILED", "TIMED_OUT", "CANCELLED", "UNKNOWN_OUTCOME"}

UNUSABLE_EXPERIMENT_STATES ==
    {"EXECUTION_FAILED", "BLOCKED", "CANCELLED", "BUDGET_EXHAUSTED"}

\* What the worker says of itself counts for three of the five evaluators; a
\* worker that reports EXECUTION_FAILED is not among what they call unusable.
UnusableResult(strategy, status) ==
    /\ strategy \notin {"http.transaction", "http.authentication"}
    /\ status \in {"TIMED_OUT", "CANCELLED"}

Unusable(strategy, attempt, experiment, status) ==
    \/ attempt \in UNUSABLE_ATTEMPT_STATES
    \/ experiment \in UNUSABLE_EXPERIMENT_STATES
    \/ UnusableResult(strategy, status)

\* message is the plan argument the echo should return, None if it has none.
EchoVerdict(p, message) ==
    IF message = None THEN "NEEDS_MORE_CONTEXT"
    ELSE IF p.echoed = message THEN "CONSISTENT_WITH_PREDICTION"
    ELSE "CONTRADICTS_PREDICTION"

OwnerReadsOwn(p) == p.owner_status = 200 /\ p.owner_owner = "a"

OwnerProven(p) == p.cross_owner = Cross

GrantedToActor(p) ==
    p.cross_visibility = "PUBLIC" \/ "a" \in p.cross_readers \/ p.cross_kind = "SHARED"

DifferentialVerdict(p, message) ==
    LET got == p.cross_status = 200
        crossed == got /\ OwnerProven(p) /\ Cross # "a" IN
    CASE got /\ ~OwnerProven(p) -> "NEEDS_MORE_CONTEXT"
      [] crossed /\ GrantedToActor(p) -> "CONTRADICTS_PREDICTION"
      [] /\ crossed /\ OwnerReadsOwn(p) /\ ~GrantedToActor(p)
         /\ p.unauth_status \in DENIED_STATUSES /\ p.secure_status = 403
            -> "CONSISTENT_WITH_PREDICTION"
      [] ~got /\ p.secure_status = 403 -> "CONTRADICTS_PREDICTION"
      [] OTHER -> "INCONCLUSIVE"

Delegated(p) == "a" \in p.delegated_reviewers

\* Mutant: it does not matter who approved.
ApprovedByAnyone(p) == p.post_state = "APPROVED"

BecameApproved(p) == p.post_state = "APPROVED" /\ p.approved_by = "a"

Idempotent(p) ==
    /\ p.response_status = 200 /\ ~p.state_changed
    /\ p.pre_state = "APPROVED" /\ p.post_state = "APPROVED"

Stale(p) == p.response_status = 409 /\ ~p.state_changed

ControlHeld(p) == p.control_status \in DENIED_OR_CONFLICT /\ ~p.state_changed

NoProof(p) ==
    /\ \/ p.response_status = 200 /\ p.post_state = None
       \/ p.response_status = 200 /\ ~p.state_changed /\ ~Idempotent(p)
    /\ ~Stale(p) /\ ~ControlHeld(p)

Reviewed(p) ==
    p.state_changed /\ p.post_state = "APPROVED" /\ p.actor_role \in {"reviewer", "admin"}

\* role_bypass or sequence_skip
ViolatesWorkflow(p) ==
    /\ p.actor_role = "requester" /\ ~Delegated(p)
    /\ p.pre_state \in {"UNDER_REVIEW", "DRAFT"}
    /\ p.post_state = "APPROVED" /\ p.state_changed

TransitionVerdict(p, message) ==
    IF NoProof(p) \/ Stale(p) THEN "NEEDS_MORE_CONTEXT"
    ELSE IF \/ Delegated(p) /\ BecameApproved(p)
            \/ Reviewed(p) \/ Idempotent(p) THEN "CONTRADICTS_PREDICTION"
    ELSE IF /\ ViolatesWorkflow(p) /\ BecameApproved(p)
            /\ p.control_status \in DENIED_OR_CONFLICT THEN "CONSISTENT_WITH_PREDICTION"
    ELSE IF ControlHeld(p) THEN "CONTRADICTS_PREDICTION"
    ELSE "INCONCLUSIVE"

\* Any response at all is consistent with the prediction of these two.
TransactionVerdict(p, message) == "CONSISTENT_WITH_PREDICTION"

AuthenticationVerdict(p, message) == "CONSISTENT_WITH_PREDICTION"

\* Mutant: an observation that is not there counts against the hypothesis.
AbsenceContradicts == "CONTRADICTS_PREDICTION"

Absence == "INCONCLUSIVE"

Verdict(strategy, p, message) ==
    IF p = None THEN Absence ELSE
    CASE strategy = "diagnostic.echo" -> EchoVerdict(p, message)
      [] strategy = "http.authorization.differential" -> DifferentialVerdict(p, message)
      [] strategy = "http.state_transition" -> TransitionVerdict(p, message)
      [] strategy = "http.transaction" -> TransactionVerdict(p, message)
      [] strategy = "http.authentication" -> AuthenticationVerdict(p, message)
=============================================================================
