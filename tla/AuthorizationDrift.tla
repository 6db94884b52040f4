------------------------- MODULE AuthorizationDrift -------------------------
(***************************************************************************)
(* One plan is evaluated by Core again and again while the facts it is     *)
(* evaluated on get worse: the authorization source lapses, scope rules    *)
(* are added, budget is used up, a human withdraws an approval.  Core      *)
(* keeps no state, so each step is a fresh evaluate_execution.             *)
(***************************************************************************)
EXTENDS CoreAuthorization

CONSTANTS
    Views,        \* capability claims an Application may bind (or Missing)
    Subjects,     \* target references
    PlanSubject,  \* the one the plan names
    PlanBudget,   \* the issued budget: [budget |-> id, max |-> field -> Nat]
    MaxUsage      \* bound on the usages enumerated

\* Levels are a SideEffectLevel in the catalogues and in the claims, and an
\* issued maximum is a natural number.
ASSUME CatalogueAssumption ==
    /\ \A id \in DOMAIN WorkerRegistry :
         \A action \in DOMAIN WorkerRegistry[id].actions :
            WorkerRegistry[id].actions[action] \in [minimum: Levels, maximum: Levels]
    /\ \A entry \in DOMAIN IntegrationAllowlist :
         IntegrationAllowlist[entry] \in [minimum: Levels, maximum: Levels]

ASSUME ClaimAssumption == \A view \in Views \ {Missing} : view.effective \in Levels

ASSUME PlanAssumption ==
    /\ PlanSubject \in Subjects
    /\ PlanBudget.max \in [BudgetFields -> Nat]
    /\ MaxUsage \in Nat

VARIABLES request, last
driftVars == <<request, last>>

Approvals ==
    [recorded: BOOLEAN, actor_type: {"HUMAN_OPERATOR", "CONTROL_PLANE"},
     subject: Subjects, decision: {"APPROVE", "REJECT"}] \cup {Missing}

SourceRows == [state: SourceStates] \cup {Missing}
Scopes     == [matched: SUBSET RuleEffects, ambiguous: BOOLEAN]

\* Usage as usage_from_consumptions rebuilds it: concurrency is always 0.
Usages ==
    {u \in [BudgetFields -> 0..MaxUsage] :
        /\ u["concurrency"] = 0
        /\ u["runtime_ms"] = 0
        /\ \A f \in BudgetFields : u[f] <= PlanBudget.max[f]}

Evaluations ==
    [capability: Views, level: Levels, source: SourceRows, scope: Scopes,
     issued: {PlanBudget}, usage: Usages, requested_budget: {PlanBudget.budget},
     subject: {PlanSubject}, approval: Approvals]

DriftInit == request \in Evaluations /\ last = EvaluateExecution(request)

Reevaluate(worse) ==
    /\ worse \in Evaluations
    /\ request' = worse
    /\ last' = EvaluateExecution(worse)

AuthorizationLapses == \E s \in {Missing} \cup [state: SourceStates \ {"ACTIVE"}] :
    Reevaluate([request EXCEPT !.source = s])

RuleMatches == \E effect \in RuleEffects \ {"ALLOW"} :
    Reevaluate([request EXCEPT !.scope.matched = @ \cup {effect}])

ScopeBecomesAmbiguous == Reevaluate([request EXCEPT !.scope.ambiguous = TRUE])

BudgetConsumed == \E f \in BudgetFields :
    Reevaluate([request EXCEPT !.usage[f] = @ + 1])

ApprovalWithdrawn == \E a \in Approvals :
    /\ (a # Missing => a.decision = "REJECT")
    /\ Reevaluate([request EXCEPT !.approval = a])

DriftNext ==
    \/ AuthorizationLapses
    \/ RuleMatches
    \/ ScopeBecomesAmbiguous
    \/ BudgetConsumed
    \/ ApprovalWithdrawn

DriftSpec == DriftInit /\ [][DriftNext]_driftVars

-----------------------------------------------------------------------------
(* What the decision must be, written without an order of checks.          *)

Catalogued(view) ==
    \/ /\ view.capability \in DOMAIN WorkerRegistry
       /\ LET d == WorkerRegistry[view.capability] IN
          /\ d.executor = "WORKER"
          /\ view.action \in DOMAIN d.actions
          /\ view.version = d.version /\ view.fingerprint = d.fingerprint
    \/ /\ view.capability \notin DOMAIN WorkerRegistry
       /\ <<view.capability, view.action>> \in DOMAIN IntegrationAllowlist

BoundsOf(view) ==
    IF view.capability \in DOMAIN WorkerRegistry
    THEN WorkerRegistry[view.capability].actions[view.action]
    ELSE IntegrationAllowlist[<<view.capability, view.action>>]

HumanApproved ==
    /\ request.approval # Missing
    /\ request.approval.recorded
    /\ request.approval.actor_type = "HUMAN_OPERATOR"
    /\ request.approval.subject = request.subject
    /\ request.approval.decision = "APPROVE"

Permitted ==
    /\ request.capability # Missing
    /\ Catalogued(request.capability)
    /\ LET b == BoundsOf(request.capability) IN
       /\ request.capability.authoritative_minimum = b.minimum
       /\ request.level \in b.minimum..b.maximum
       /\ request.level = request.capability.effective
    /\ request.source # Missing /\ request.source.state = "ACTIVE"
    /\ "ALLOW" \in request.scope.matched
    /\ request.scope.matched \subseteq {"ALLOW", "UNKNOWN"}
    /\ ~request.scope.ambiguous
    /\ \A f \in BudgetFields : request.usage[f] < request.issued.max[f]
    /\ request.level <= 1 \/ (request.level = 2 /\ HumanApproved)

(***************************************************************************)
(* evaluate_execution answers ALLOW exactly when every condition of the    *)
(* default-deny policy holds, whatever order its checks run in: a claim    *)
(* that disagrees with the registry, a lapsed source, an ambiguous or      *)
(* denied scope, a used-up budget, level 3, or level 2 without a recorded  *)
(* human approval of this very subject each keep it from ALLOW.            *)
(***************************************************************************)
AllowExactlyWhenPermitted == (last.decision = "ALLOW") <=> Permitted

(***************************************************************************)
(* Core asks for a human only when a human can settle it: resolving the    *)
(* scope ambiguity and approving the subject turns every                   *)
(* REQUIRE_HUMAN_REVIEW into ALLOW.  A review of a level 3 plan, a lapsed  *)
(* source or an exhausted budget would be a review that cannot succeed.    *)
(***************************************************************************)
ReviewCanSucceed ==
    last.decision = "REQUIRE_HUMAN_REVIEW" =>
        EvaluateExecution(
            [request EXCEPT !.scope = [matched |-> {"ALLOW"}, ambiguous |-> FALSE],
                            !.approval = [recorded |-> TRUE, actor_type |-> "HUMAN_OPERATOR",
                                          subject |-> PlanSubject, decision |-> "APPROVE"]]
        ).decision = "ALLOW"

\* What Core answers is right: ALLOW for exactly the permitted plans, and a
\* human is asked only where a human can settle it.
DecisionIsRight == AllowExactlyWhenPermitted /\ ReviewCanSucceed

(***************************************************************************)
(* No refusal is lost when the facts get worse: once evaluate_execution    *)
(* has refused a plan, a lapsed source, one more matched rule, more usage  *)
(* or a withdrawn approval never makes it ALLOW.                           *)
(***************************************************************************)
RefusalSurvivesDrift == [][last.decision # "ALLOW" => last'.decision # "ALLOW"]_driftVars
=============================================================================
