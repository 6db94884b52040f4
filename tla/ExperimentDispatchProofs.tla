---------------------- MODULE ExperimentDispatchProofs ----------------------
(***************************************************************************)
(* What Core answers, for every registry, allowlist, claim and budget, and *)
(* what becomes of its answers.  The ordered checks of evaluate_execution  *)
(* say ALLOW exactly where the default-deny policy does, and facts that    *)
(* get worse never undo a refusal.  For any number of controllers,         *)
(* experiments and requests, and for every issued budget: the invariant of *)
(* ExperimentDispatch, the safety properties it implies, and the           *)
(* refinement of BudgetedDispatch.                                         *)
(***************************************************************************)
EXTENDS AuthorizationDrift, ExperimentDispatch, FiniteSetTheorems, TLAPS

(***************************************************************************)
(* Core.                                                                   *)
(***************************************************************************)

\* Core keeps nothing: what it answered last is a function of what it was asked.
Answered == request \in Evaluations /\ last = EvaluateExecution(request)

-----------------------------------------------------------------------------
(* What it takes to pass each check.                                       *)

\* check_capability_authorization and its two branches pass exactly the
\* catalogued claims whose risk is the catalogue's and the plan's.
LEMMA CapabilityPasses ==
    ASSUME NEW view \in Views, NEW level \in Levels
    PROVE  CheckCapabilityAuthorization(view, level).ok <=>
             /\ view # Missing
             /\ Catalogued(view)
             /\ view.authoritative_minimum = BoundsOf(view).minimum
             /\ level \in BoundsOf(view).minimum .. BoundsOf(view).maximum
             /\ level = view.effective
<1>1. ASSUME NEW bounds \in [minimum: Levels, maximum: Levels], view # Missing
      PROVE  CheckRisk(view, level, bounds).ok <=>
               /\ view.authoritative_minimum = bounds.minimum
               /\ level \in bounds.minimum .. bounds.maximum
               /\ level = view.effective
  <2>1. view.effective \in Levels
    BY <1>1, ClaimAssumption
  <2>2. /\ bounds.minimum \in Int /\ bounds.maximum \in Int
        /\ level \in Int /\ view.effective \in Int
    BY <1>1, <2>1 DEF Levels
  <2> QED
    BY <2>2 DEF CheckRisk, Refuse, Pass
<1>2. CASE view = Missing
  BY <1>2 DEF CheckCapabilityAuthorization, Refuse
<1>3. CASE view # Missing /\ view.capability \in DOMAIN WorkerRegistry
  <2> DEFINE definition == WorkerRegistry[view.capability]
  <2>1. CheckCapabilityAuthorization(view, level)
          = CheckWorkerDefinition(view, level, definition)
    BY <1>3 DEF CheckCapabilityAuthorization
  <2>2. CASE /\ definition.executor = "WORKER"
             /\ view.action \in DOMAIN definition.actions
             /\ view.version = definition.version
             /\ view.fingerprint = definition.fingerprint
    <3>1. definition.actions[view.action] \in [minimum: Levels, maximum: Levels]
      BY <1>3, <2>2, CatalogueAssumption
    <3>2. BoundsOf(view) = definition.actions[view.action] /\ Catalogued(view)
      BY <1>3, <2>2 DEF BoundsOf, Catalogued
    <3>3. CheckWorkerDefinition(view, level, definition)
            = CheckRisk(view, level, definition.actions[view.action])
      BY <2>2 DEF CheckWorkerDefinition
    <3> QED
      BY <1>1, <1>3, <2>1, <3>1, <3>2, <3>3
  <2>3. CASE ~(/\ definition.executor = "WORKER"
               /\ view.action \in DOMAIN definition.actions
               /\ view.version = definition.version
               /\ view.fingerprint = definition.fingerprint)
    <3>1. ~Catalogued(view)
      BY <1>3, <2>3 DEF Catalogued
    <3>2. ~CheckWorkerDefinition(view, level, definition).ok
      BY <2>3 DEF CheckWorkerDefinition, Refuse
    <3> QED
      BY <2>1, <3>1, <3>2
  <2> QED
    BY <2>2, <2>3
<1>4. CASE view # Missing /\ view.capability \notin DOMAIN WorkerRegistry
  <2> DEFINE entry == <<view.capability, view.action>>
  <2>1. CheckCapabilityAuthorization(view, level) = CheckIntegrationAllowlist(view, level)
    BY <1>4 DEF CheckCapabilityAuthorization
  <2>2. Catalogued(view) <=> entry \in DOMAIN IntegrationAllowlist
    BY <1>4 DEF Catalogued
  <2>3. CASE entry \in DOMAIN IntegrationAllowlist
    <3>1. IntegrationAllowlist[entry] \in [minimum: Levels, maximum: Levels]
      BY <2>3, CatalogueAssumption
    <3>2. BoundsOf(view) = IntegrationAllowlist[entry]
      BY <1>4 DEF BoundsOf
    <3>3. CheckIntegrationAllowlist(view, level)
            = CheckRisk(view, level, IntegrationAllowlist[entry])
      BY <2>3 DEF CheckIntegrationAllowlist
    <3> QED
      BY <1>1, <1>4, <2>1, <2>2, <2>3, <3>1, <3>2, <3>3
  <2>4. CASE entry \notin DOMAIN IntegrationAllowlist
    <3>1. ~CheckIntegrationAllowlist(view, level).ok
      BY <2>4 DEF CheckIntegrationAllowlist, Refuse
    <3> QED
      BY <2>1, <2>2, <2>4, <3>1
  <2> QED
    BY <2>3, <2>4
<1> QED
  BY <1>2, <1>3, <1>4

\* check_authorization passes an active source and nothing else.
LEMMA AuthorizationPasses ==
    ASSUME NEW src
    PROVE  CheckAuthorization(src).ok <=> src # Missing /\ src.state = "ACTIVE"
BY DEF CheckAuthorization, Refuse, Pass

\* check_scope: a matched refusal denies, then a doubt goes to a human, and
\* what is left is allowed only by an explicit ALLOW.
LEMMA ScopeDecides ==
    ASSUME NEW scope \in Scopes
    PROVE  /\ CheckScope(scope).decision \in Kinds
           /\ CheckScope(scope).decision = "ALLOW" <=>
                /\ "ALLOW" \in scope.matched
                /\ scope.matched \subseteq {"ALLOW", "UNKNOWN"}
                /\ ~scope.ambiguous
           /\ CheckScope(scope).decision = "REQUIRE_HUMAN_REVIEW" <=>
                /\ scope.matched \subseteq {"ALLOW", "UNKNOWN"}
                /\ scope.ambiguous
<1>1. scope.matched \subseteq RuleEffects /\ scope.ambiguous \in BOOLEAN
  BY DEF Scopes
<1>2. scope.matched \cap {"DENY", "OUT_OF_SCOPE"} = {} <=>
        scope.matched \subseteq {"ALLOW", "UNKNOWN"}
  BY <1>1 DEF RuleEffects
<1> QED
  BY <1>1, <1>2 DEF CheckScope, Decide, Kinds

\* check_budget passes while every usage is below its maximum.
LEMMA BudgetPasses ==
    ASSUME NEW usage \in Usages
    PROVE  CheckBudget(PlanBudget, usage, PlanBudget.budget).ok <=>
             \A f \in BudgetFields : usage[f] < PlanBudget.max[f]
<1>1. \A f \in BudgetFields : usage[f] \in Int /\ PlanBudget.max[f] \in Int
  BY PlanAssumption DEF Usages
<1>2. (\E f \in BudgetFields : usage[f] >= PlanBudget.max[f]) <=>
        ~ \A f \in BudgetFields : usage[f] < PlanBudget.max[f]
  BY <1>1
<1> QED
  BY <1>2 DEF CheckBudget, Refuse, Pass

\* check_approval authorizes a recorded human APPROVE of this very subject,
\* and offers a review only where there is no approval at all.
LEMMA ApprovalAuthorizes ==
    ASSUME NEW approval \in Approvals, NEW subject
    PROVE  /\ CheckApproval(approval, subject).authorizes <=>
                /\ approval # Missing
                /\ approval.recorded
                /\ approval.actor_type = "HUMAN_OPERATOR"
                /\ approval.subject = subject
                /\ approval.decision = "APPROVE"
           /\ CheckApproval(approval, subject).authorizes \in BOOLEAN
           /\ CheckApproval(approval, subject).review <=> approval = Missing
<1>1. CASE approval = Missing
  BY <1>1 DEF CheckApproval
<1>2. CASE approval # Missing
  <2>1. approval.recorded \in BOOLEAN /\ approval.decision \in {"APPROVE", "REJECT"}
    BY <1>2 DEF Approvals
  <2> QED
    BY <1>2, <2>1 DEF CheckApproval
<1> QED
  BY <1>1, <1>2

-----------------------------------------------------------------------------
(* The ordered checks together.                                            *)

\* Everything but scope and approval: what no reviewer can supply.
BeyondReview(r) ==
    /\ CheckCapabilityAuthorization(r.capability, r.level).ok
    /\ CheckAuthorization(r.source).ok
    /\ CheckBudget(r.issued, r.usage, r.requested_budget).ok
    /\ r.level \in 0..2

\* The order of the checks does not show: evaluate_execution allows what
\* passes them all, and asks for a human about nothing a human cannot settle.
LEMMA DecisionOfChecks ==
    ASSUME NEW r \in Evaluations
    PROVE  /\ EvaluateExecution(r).decision = "ALLOW" <=>
                /\ BeyondReview(r)
                /\ CheckScope(r.scope).decision = "ALLOW"
                /\ r.level = 2 => CheckApproval(r.approval, r.subject).authorizes
           /\ EvaluateExecution(r).decision = "REQUIRE_HUMAN_REVIEW" => BeyondReview(r)
<1> DEFINE scope    == CheckScope(r.scope)
           approval == CheckApproval(r.approval, r.subject)
<1>1. r.level \in 0..3 /\ r.scope \in Scopes /\ r.approval \in Approvals
  BY DEF Evaluations, Levels
<1>2. scope.decision \in Kinds /\ approval.authorizes \in BOOLEAN
  BY <1>1, ScopeDecides, ApprovalAuthorizes
<1>3. CASE /\ CheckCapabilityAuthorization(r.capability, r.level).ok
           /\ CheckAuthorization(r.source).ok
           /\ scope.decision # "DENY"
           /\ CheckBudget(r.issued, r.usage, r.requested_budget).ok
  <2>1. EvaluateExecution(r) = DecideByLevel(r.level, scope, approval)
    BY <1>3 DEF EvaluateExecution
  <2>2. scope.decision \in {"ALLOW", "REQUIRE_HUMAN_REVIEW"}
    BY <1>2, <1>3 DEF Kinds
  <2>3. DecideByLevel(r.level, scope, approval).decision = "ALLOW" <=>
          /\ r.level # 3 /\ scope.decision = "ALLOW"
          /\ r.level = 2 => approval.authorizes
    BY <1>1, <1>2, <2>2 DEF DecideByLevel, Decide
  <2>4. r.level = 3 => DecideByLevel(r.level, scope, approval).decision = "DENY"
    BY DEF DecideByLevel, Decide
  <2>5. r.level # 3 <=> BeyondReview(r)
    BY <1>1, <1>3 DEF BeyondReview
  <2> QED
    BY <2>1, <2>3, <2>4, <2>5
<1>4. CASE ~(/\ CheckCapabilityAuthorization(r.capability, r.level).ok
             /\ CheckAuthorization(r.source).ok
             /\ scope.decision # "DENY"
             /\ CheckBudget(r.issued, r.usage, r.requested_budget).ok)
  <2>1. EvaluateExecution(r).decision = "DENY"
    BY <1>4 DEF EvaluateExecution, Decide
  <2>2. ~(BeyondReview(r) /\ scope.decision = "ALLOW")
    BY <1>4 DEF BeyondReview
  <2> QED
    BY <2>1, <2>2
<1> QED
  BY <1>3, <1>4

\* Permitted, of any evaluation and not only of the present one.
PermittedPlan(r) ==
    /\ BeyondReview(r)
    /\ "ALLOW" \in r.scope.matched
    /\ r.scope.matched \subseteq {"ALLOW", "UNKNOWN"}
    /\ ~r.scope.ambiguous
    /\ r.level = 2 => /\ r.approval # Missing
                      /\ r.approval.recorded
                      /\ r.approval.actor_type = "HUMAN_OPERATOR"
                      /\ r.approval.subject = r.subject
                      /\ r.approval.decision = "APPROVE"

LEMMA AllowedIsPermitted ==
    ASSUME NEW r \in Evaluations
    PROVE  EvaluateExecution(r).decision = "ALLOW" <=> PermittedPlan(r)
<1>1. r.scope \in Scopes /\ r.approval \in Approvals
  BY DEF Evaluations
<1> QED
  BY <1>1, DecisionOfChecks, ScopeDecides, ApprovalAuthorizes DEF PermittedPlan

LEMMA PermittedRequest ==
    ASSUME request \in Evaluations
    PROVE  Permitted <=> PermittedPlan(request)
<1>1. /\ request.capability \in Views /\ request.level \in Levels
      /\ request.usage \in Usages
      /\ request.issued = PlanBudget /\ request.requested_budget = PlanBudget.budget
  BY DEF Evaluations
<1>2. request.level \in 0..3
  BY <1>1 DEF Levels
<1>3. BeyondReview(request) <=>
        /\ /\ request.capability # Missing
           /\ Catalogued(request.capability)
           /\ request.capability.authoritative_minimum = BoundsOf(request.capability).minimum
           /\ request.level \in BoundsOf(request.capability).minimum
                                  .. BoundsOf(request.capability).maximum
           /\ request.level = request.capability.effective
        /\ request.source # Missing /\ request.source.state = "ACTIVE"
        /\ \A f \in BudgetFields : request.usage[f] < request.issued.max[f]
        /\ request.level \in 0..2
  BY <1>1, CapabilityPasses, AuthorizationPasses, BudgetPasses DEF BeyondReview
<1>4. (request.level <= 1 \/ (request.level = 2 /\ HumanApproved)) <=>
        request.level \in 0..2 /\ (request.level = 2 => HumanApproved)
  BY <1>2
<1> QED
  BY <1>3, <1>4 DEF Permitted, PermittedPlan, HumanApproved

-----------------------------------------------------------------------------
(* The theorems.                                                           *)

LEMMA AnsweredStep == Answered /\ [DriftNext]_driftVars => Answered'
<1> SUFFICES ASSUME Answered, [DriftNext]_driftVars PROVE Answered'
  OBVIOUS
<1>1. ASSUME NEW worse, Reevaluate(worse) PROVE Answered'
  BY <1>1 DEF Reevaluate, Answered
<1>2. CASE UNCHANGED driftVars
  BY <1>2 DEF driftVars, Answered
<1>3. CASE DriftNext
  BY <1>1, <1>3 DEF DriftNext, AuthorizationLapses, RuleMatches, ScopeBecomesAmbiguous,
                    BudgetConsumed, ApprovalWithdrawn
<1> QED
  BY <1>2, <1>3

THEOREM AlwaysAnswered == DriftSpec => []Answered
<1>1. DriftInit => Answered
  BY DEF DriftInit, Answered
<1> QED
  BY <1>1, AnsweredStep, PTL DEF DriftSpec

\* evaluate_execution answers ALLOW exactly under the default-deny policy,
\* for every registry, allowlist, claim, budget and approval.
THEOREM AllowsExactlyPermitted == DriftSpec => []AllowExactlyWhenPermitted
<1>1. Answered => AllowExactlyWhenPermitted
  BY AllowedIsPermitted, PermittedRequest DEF Answered, AllowExactlyWhenPermitted
<1> QED
  BY <1>1, AlwaysAnswered, PTL

\* Core asks for a review only of a plan that a human's answer can still let
\* through: everything the reviewer cannot supply has already passed.
LEMMA ReviewSettles == Answered => ReviewCanSucceed
<1> DEFINE settled == [request EXCEPT
              !.scope = [matched |-> {"ALLOW"}, ambiguous |-> FALSE],
              !.approval = [recorded |-> TRUE, actor_type |-> "HUMAN_OPERATOR",
                            subject |-> PlanSubject, decision |-> "APPROVE"]]
<1> SUFFICES ASSUME Answered, last.decision = "REQUIRE_HUMAN_REVIEW"
             PROVE  EvaluateExecution(settled).decision = "ALLOW"
  BY DEF ReviewCanSucceed
<1>1. request \in Evaluations
  BY DEF Answered
<1>2. BeyondReview(request)
  BY <1>1, DecisionOfChecks DEF Answered
<1>3. settled \in Evaluations
  <2>1. settled.scope \in Scopes
    BY <1>1 DEF Evaluations, Scopes, RuleEffects
  <2>2. settled.approval \in Approvals
    BY <1>1, PlanAssumption DEF Evaluations, Approvals
  <2> QED
    BY <1>1, <2>1, <2>2 DEF Evaluations
<1>4. BeyondReview(settled)
  BY <1>1, <1>2 DEF BeyondReview, Evaluations
<1>5. /\ settled.scope = [matched |-> {"ALLOW"}, ambiguous |-> FALSE]
      /\ settled.approval = [recorded |-> TRUE, actor_type |-> "HUMAN_OPERATOR",
                             subject |-> PlanSubject, decision |-> "APPROVE"]
      /\ settled.subject = PlanSubject
  BY <1>1 DEF Evaluations
<1>6. settled.approval # Missing
  <2>1. "recorded" \in DOMAIN settled.approval /\ "recorded" \notin DOMAIN Missing
    BY <1>5 DEF Missing
  <2> QED
    BY <2>1
<1>7. PermittedPlan(settled)
  BY <1>4, <1>5, <1>6 DEF PermittedPlan
<1> QED
  BY <1>3, <1>7, AllowedIsPermitted

\* What Core answers is right, in both senses the runs check.
THEOREM DecisionsAreRight == DriftSpec => []DecisionIsRight
<1>1. Answered => DecisionIsRight
  BY AllowedIsPermitted, PermittedRequest, ReviewSettles
     DEF Answered, AllowExactlyWhenPermitted, DecisionIsRight
<1> QED
  BY <1>1, AlwaysAnswered, PTL

\* A plan that worsening facts leave permitted was permitted before them.
LEMMA WorseningNeverPermits ==
    ASSUME request \in Evaluations, DriftNext, PermittedPlan(request')
    PROVE  PermittedPlan(request)
<1> USE DEF Reevaluate
<1>1. request' \in Evaluations
  BY DEF DriftNext, AuthorizationLapses, RuleMatches, ScopeBecomesAmbiguous, BudgetConsumed,
         ApprovalWithdrawn
<1>2. CASE AuthorizationLapses
  <2>1. PICK s \in {Missing} \cup [state: SourceStates \ {"ACTIVE"}] :
             request' = [request EXCEPT !.source = s]
    BY <1>2 DEF AuthorizationLapses
  <2>2. request'.source = s
    BY <2>1 DEF Evaluations
  <2>3. ~CheckAuthorization(s).ok
    BY <2>1, AuthorizationPasses
  <2> QED
    BY <2>2, <2>3 DEF PermittedPlan, BeyondReview
<1>3. CASE RuleMatches
  <2>1. PICK effect \in RuleEffects \ {"ALLOW"} :
             request' = [request EXCEPT !.scope.matched = @ \cup {effect}]
    BY <1>3 DEF RuleMatches
  <2>2. /\ request'.scope.matched = request.scope.matched \cup {effect}
        /\ request'.scope.ambiguous = request.scope.ambiguous
    BY <2>1 DEF Evaluations, Scopes
  <2>3. /\ request'.capability = request.capability /\ request'.level = request.level
        /\ request'.source = request.source /\ request'.issued = request.issued
        /\ request'.usage = request.usage /\ request'.subject = request.subject
        /\ request'.requested_budget = request.requested_budget
        /\ request'.approval = request.approval
    BY <2>1 DEF Evaluations
  <2> QED
    BY <2>2, <2>3 DEF PermittedPlan, BeyondReview
<1>4. CASE ScopeBecomesAmbiguous
  <2>1. request'.scope.ambiguous = TRUE
    BY <1>4 DEF ScopeBecomesAmbiguous, Evaluations, Scopes
  <2> QED
    BY <2>1 DEF PermittedPlan
<1>5. CASE BudgetConsumed
  <2>1. PICK f \in BudgetFields : request' = [request EXCEPT !.usage[f] = @ + 1]
    BY <1>5 DEF BudgetConsumed
  <2>2. request.usage \in [BudgetFields -> 0..MaxUsage]
    BY DEF Evaluations, Usages
  <2>3. /\ request'.usage = [request.usage EXCEPT ![f] = @ + 1]
        /\ request'.capability = request.capability /\ request'.level = request.level
        /\ request'.source = request.source /\ request'.issued = request.issued
        /\ request'.scope = request.scope /\ request'.subject = request.subject
        /\ request'.requested_budget = request.requested_budget
        /\ request'.approval = request.approval
    BY <2>1 DEF Evaluations
  <2>4. /\ request.issued = PlanBudget /\ request.requested_budget = PlanBudget.budget
        /\ request.usage \in Usages /\ request'.usage \in Usages
    BY <1>1 DEF Evaluations
  <2>5. \A g \in BudgetFields : request'.usage[g] < PlanBudget.max[g]
    BY <2>3, <2>4, BudgetPasses DEF PermittedPlan, BeyondReview
  <2>6. \A g \in BudgetFields : request.usage[g] < PlanBudget.max[g]
    <3>1. ASSUME NEW g \in BudgetFields PROVE request.usage[g] < PlanBudget.max[g]
      <4>1. request.usage[g] \in Int /\ PlanBudget.max[g] \in Int
        BY <2>2, PlanAssumption
      <4>2. request'.usage[g] = request.usage[g] \/ request'.usage[g] = request.usage[g] + 1
        BY <2>2, <2>3
      <4> QED
        BY <2>5, <4>1, <4>2
    <3> QED
      BY <3>1
  <2>7. CheckBudget(request.issued, request.usage, request.requested_budget).ok
    BY <2>4, <2>6, BudgetPasses
  <2> QED
    BY <2>3, <2>7 DEF PermittedPlan, BeyondReview
<1>6. CASE ApprovalWithdrawn
  <2>1. PICK a \in Approvals : /\ a # Missing => a.decision = "REJECT"
                               /\ request' = [request EXCEPT !.approval = a]
    BY <1>6 DEF ApprovalWithdrawn
  <2>2. /\ request'.approval = a
        /\ request'.capability = request.capability /\ request'.level = request.level
        /\ request'.source = request.source /\ request'.issued = request.issued
        /\ request'.usage = request.usage /\ request'.scope = request.scope
        /\ request'.requested_budget = request.requested_budget
    BY <2>1 DEF Evaluations
  <2>3. request.level # 2
    BY <2>1, <2>2 DEF PermittedPlan
  <2> QED
    BY <2>2, <2>3 DEF PermittedPlan, BeyondReview
<1> QED
  BY <1>2, <1>3, <1>4, <1>5, <1>6 DEF DriftNext

\* No lapse, rule, charge or withdrawn approval turns a refusal into ALLOW.
THEOREM RefusalsSurvive == DriftSpec => RefusalSurvivesDrift
<1>1. Answered /\ Answered' /\ [DriftNext]_driftVars
        => [last.decision # "ALLOW" => last'.decision # "ALLOW"]_driftVars
  <2> SUFFICES ASSUME Answered, Answered', DriftNext, last'.decision = "ALLOW"
               PROVE  last.decision = "ALLOW"
    BY DEF driftVars
  <2>1. request \in Evaluations /\ request' \in Evaluations
    BY DEF Answered
  <2>2. EvaluateExecution(request').decision = "ALLOW"
    BY DEF Answered
  <2>3. PermittedPlan(request')
    BY <2>1, <2>2, AllowedIsPermitted
  <2>4. PermittedPlan(request)
    BY <2>1, <2>3, WorseningNeverPermits
  <2> QED
    BY <2>1, <2>4, AllowedIsPermitted DEF Answered
<1> QED
  BY <1>1, AlwaysAnswered, PTL DEF DriftSpec, RefusalSurvivesDrift

(***************************************************************************)
(* Dispatch.                                                               *)
(***************************************************************************)

Decisions(kinds) == [decision: kinds, reason: ReasonCodes]

-----------------------------------------------------------------------------
(* Lemmas about the operators.                                             *)

(* Every check of evaluate_execution answers, and its reason is a code.    *)
LEMMA RiskReason == \A view, level, bounds : CheckRisk(view, level, bounds).reason \in ReasonCodes
BY DEF ReasonCodes, CheckRisk, Refuse, Pass

LEMMA CapabilityReason ==
    \A view, level : CheckCapabilityAuthorization(view, level).reason \in ReasonCodes
<1>1. \A view, level : CheckIntegrationAllowlist(view, level).reason \in ReasonCodes
  BY RiskReason DEF ReasonCodes, CheckIntegrationAllowlist, Refuse
<1>2. \A view, level, d : CheckWorkerDefinition(view, level, d).reason \in ReasonCodes
  BY RiskReason DEF ReasonCodes, CheckWorkerDefinition, Refuse
<1>3. QED
  BY <1>1, <1>2 DEF ReasonCodes, CheckCapabilityAuthorization, Refuse

(* evaluate_execution decides every request, with one of the three kinds.  *)
LEMMA DecisionType == \A asked : EvaluateExecution(asked) \in Decisions(Kinds)
<1> TAKE asked
<1>1. CheckAuthorization(asked.source).reason \in ReasonCodes
  BY DEF ReasonCodes, CheckAuthorization, Refuse, Pass
<1>2. CheckScope(asked.scope) \in Decisions(Kinds)
  BY DEF ReasonCodes, CheckScope, Decide, Decisions, Kinds
<1>3. CheckBudget(asked.issued, asked.usage, asked.requested_budget).reason \in ReasonCodes
  BY DEF ReasonCodes, CheckBudget, Refuse, Pass
<1>4. CheckApproval(asked.approval, asked.subject).reason \in ReasonCodes
  BY DEF ReasonCodes, CheckApproval
<1>5. \A level, approval : \A scope \in Decisions(Kinds) :
          approval.reason \in ReasonCodes => DecideByLevel(level, scope, approval) \in Decisions(Kinds)
  BY DEF ReasonCodes, DecideByLevel, Decide, Decisions, Kinds
<1>6. \A why \in ReasonCodes : Decide("DENY", why) \in Decisions(Kinds)
  BY DEF Decide, Decisions, Kinds
<1>7. CheckCapabilityAuthorization(asked.capability, asked.level).reason \in ReasonCodes
  BY CapabilityReason
<1>8. CheckScope(asked.scope).reason \in ReasonCodes
  BY <1>2 DEF Decisions
<1>9. QED
  BY <1>1, <1>2, <1>3, <1>4, <1>5, <1>6, <1>7, <1>8 DEF EvaluateExecution

LEMMA VerdictType == \A c, command : Verdict(c, command) \in Decisions(Verdicts)
<1> TAKE c, command
<1>1. EvaluateExecution(ExecutionRequest(c, command)) \in Decisions(Verdicts)
  BY DecisionType DEF Decisions, Verdicts
<1>2. QED
  BY <1>1 DEF ReasonCodes, Verdict, InputRejected, Decide, Decisions, Verdicts, Kinds

(* The outcome of an invocation never looks like an undispatched attempt.  *)
LEMMA OutcomeType ==
    \A i \in Invocations :
        /\ ClassifyInvocation(i).attempt \in Outcomes
        /\ ClassifyInvocation(i).experiment \in ExperimentStates
        /\ i.status = "COMPLETED" => i.result \in ResultStatuses
<1> TAKE i \in Invocations
<1>1. CASE i.status = "COMPLETED"
  <2>1. i.result \in ResultStatuses
    BY <1>1 DEF Invocations
  <2>2. QED
    BY <1>1, <2>1 DEF ClassifyInvocation, ClassifyResult, Outcome, Outcomes,
                      ResultStatuses, ExperimentStates
<1>2. CASE i.status # "COMPLETED"
  <2>1. i.status \in {"TIMED_OUT", "CANCELLED", "FAILED"}
    BY <1>2 DEF Invocations
  <2>2. QED
    BY <1>2, <2>1 DEF ClassifyInvocation, ClassifyFailure, Outcome, Outcomes,
                      ExperimentStates
<1>3. QED
  BY <1>1, <1>2

(* The ledger step: a request is charged once, and never above the issue.  *)
LEMMA ChargeOnce ==
    ASSUME TypeOK, NEW r \in Requests, NEW n \in Nat, n >= 1,
           Started(r) => Paid(r), ~Started(r) => Unpaid(r)
    PROVE  /\ NewInvocations(r) \in Nat /\ NewRequests(r, n) \in Nat
           /\ charged[r].invocation + NewInvocations(r) = 1
           /\ charged[r].request + NewRequests(r, n) >= 1
           /\ charged[r].request + NewRequests(r, n) \in Nat
           /\ Started(r) => NewInvocations(r) = 0 /\ NewRequests(r, n) = 0
           /\ ~Started(r) => NewInvocations(r) = 1 /\ NewRequests(r, n) = n
<1>1. charged[r] \in [invocation: Nat, request: Nat]
  BY DEF TypeOK
<1>2. CASE Started(r)
  BY <1>1, <1>2 DEF Paid, NewInvocations, NewRequests
<1>3. CASE ~Started(r)
  BY <1>1, <1>3 DEF Unpaid, NewInvocations, NewRequests
<1>4. QED
  BY <1>2, <1>3

-----------------------------------------------------------------------------
(* The invariant.                                                          *)

(* Initially no row exists but the plans, and nobody runs a call.          *)
LEMMA InitInvariant == Init => DispatchInvariant
<1> SUFFICES ASSUME Init PROVE DispatchInvariant
  OBVIOUS
<1>1. Idle \in Locals
  BY DEF Idle, Locals, PCs, Sources, Verdicts, ReasonCodes, Kinds
<1>2. TypeOK
  BY <1>1 DEF Init, TypeOK, Sources, SourceStates, ExperimentStates, AttemptStates
<1>3. LocalsMatchRows
  BY DEF Init, Idle, LocalsMatchRows, LocalMatchesRows, Dispatching, Dispatched
<1>4. LedgerWithinAllowance
  BY BudgetAssumption DEF Init, LedgerWithinAllowance, BudgetFields
<1>5. NoReplayAfterCrash
  BY DEF Init, NoReplayAfterCrash
<1>6. ChargedWithState
  BY DEF Init, ChargedWithState, Started, Unpaid
<1>7. QED
  BY <1>2, <1>3, <1>4, <1>5, <1>6 DEF DispatchInvariant

(* A step that writes no row but locals and locks keeps the invariant when *)
(* the controller that moves keeps its own local facts.                    *)
LEMMA LocalStep ==
    ASSUME DispatchInvariant, NEW c \in Controllers, NEW local \in Locals,
           UNCHANGED <<rows, invoked, clock>>,
           rowLock' \in [Experiments -> Controllers \cup {Free}],
           ctl' = [ctl EXCEPT ![c] = local],
           LocalMatchesRows(c)'
    PROVE  DispatchInvariant'
<1> USE DEF DispatchInvariant
<1>1. TypeOK'
  BY DEF TypeOK, rows
<1>2. LocalsMatchRows'
  <2>1. \A d \in Controllers \ {c} : ctl'[d] = ctl[d]
    BY DEF TypeOK
  <2>2. \A d \in Controllers \ {c} : LocalMatchesRows(d)'
    BY <2>1 DEF LocalsMatchRows, LocalMatchesRows, Started, rows
  <2>3. QED
    BY <2>2 DEF LocalsMatchRows
<1>3. LedgerWithinAllowance' /\ NoReplayAfterCrash' /\ ChargedWithState'
  BY DEF LedgerWithinAllowance, NoReplayAfterCrash, ChargedWithState, Started, Paid, Unpaid,
         rows
<1>4. QED
  BY <1>1, <1>2, <1>3

(* A step that moves no request back leaves what the other controllers     *)
(* know of their requests true.                                            *)
LEMMA OthersKeep ==
    ASSUME LocalsMatchRows, NEW c \in Controllers,
           \A d \in Controllers \ {c} : ctl'[d] = ctl[d],
           \A r \in Requests : /\ attState[r] # "NONE" => attState'[r] # "NONE"
                               /\ Started(r) => Started(r)'
                               /\ invoked[r] > 0 => invoked'[r] > 0,
           LocalMatchesRows(c)'
    PROVE  LocalsMatchRows'
<1>1. SUFFICES ASSUME NEW d \in Controllers \ {c} PROVE LocalMatchesRows(d)'
  BY DEF LocalsMatchRows
<1>2. LocalMatchesRows(d) /\ ctl'[d] = ctl[d]
  BY DEF LocalsMatchRows
<1>3. ctl[d].pc \in {"running", "ingest", "fail_attempt"} => ctl[d].pc \in Dispatched
  BY DEF Dispatched
<1>4. QED
  BY <1>2, <1>3 DEF LocalMatchesRows

(* StartExecute to LoadAttempt, DenyDispatch and RejectIngestion: steps    *)
(* that change locals and locks only.                                      *)
LEMMA StepsOfLocals ==
    ASSUME DispatchInvariant, NEW c \in Controllers,
           \/ \E e \in Experiments : StartExecute(c, e)
           \/ LoadContext(c)
           \/ DecideExecution(c)
           \/ ResumeAuthorized(c)
           \/ LoadAttempt(c)
           \/ SizeReservation(c)
           \/ DenyDispatch(c)
           \/ RejectIngestion(c)
           \/ Crash(c)
    PROVE  DispatchInvariant'
<1>0. /\ ctl[c] \in Locals /\ LocalMatchesRows(c) /\ Idle \in Locals
      /\ ctl \in [Controllers -> Locals]
      /\ rowLock \in [Experiments -> Controllers \cup {Free}]
  BY DEF DispatchInvariant, TypeOK, LocalsMatchRows, Idle, Locals, PCs, Sources, Verdicts,
         ReasonCodes, Kinds
<1>1. ASSUME NEW e \in Experiments, StartExecute(c, e) PROVE DispatchInvariant'
  <2>1. CASE ctl' = [ctl EXCEPT ![c] = [Idle EXCEPT !.pc = "authorize", !.exp = e,
                                                    !.now = clock]]
    <3>1. [Idle EXCEPT !.pc = "authorize", !.exp = e, !.now = clock] \in Locals
      BY <1>0 DEF DispatchInvariant, TypeOK, Idle, Locals, PCs
    <3>2. LocalMatchesRows(c)'
      BY <1>0, <2>1 DEF Idle, LocalMatchesRows, Dispatching, Dispatched
    <3>3. QED
      BY <1>0, <1>1, <2>1, <3>1, <3>2, LocalStep DEF StartExecute
  <2>2. ASSUME NEW r \in AttemptsOf(e), InDoubt(attState[r]),
               ctl' = [ctl EXCEPT ![c] = [Idle EXCEPT !.pc = "mark_unknown", !.exp = e,
                                                      !.req = r]]
        PROVE DispatchInvariant'
    <3>1. r \in Requests /\ Started(r)
      BY <2>2 DEF AttemptsOf, InDoubt, Started
    <3>2. [Idle EXCEPT !.pc = "mark_unknown", !.exp = e, !.req = r] \in Locals
      BY <1>0, <3>1 DEF Idle, Locals, PCs
    <3>3. LocalMatchesRows(c)'
      BY <1>0, <1>1, <2>2, <3>1
      DEF StartExecute, rows, Idle, LocalMatchesRows, Dispatching, Dispatched, Started
    <3>4. QED
      BY <1>0, <1>1, <2>2, <3>2, <3>3, LocalStep DEF StartExecute
  <2>3. QED
    BY <1>1, <2>1, <2>2 DEF StartExecute
<1>2. ASSUME LoadContext(c) PROVE DispatchInvariant'
  <2>1. CASE Return(c)
    <3>1. LocalMatchesRows(c)'
      BY <1>0, <2>1 DEF Return, Idle, LocalMatchesRows, Dispatching, Dispatched
    <3>2. QED
      BY <1>0, <1>2, <2>1, <3>1, LocalStep DEF LoadContext, Return
  <2>2. CASE ctl' = [ctl EXCEPT ![c].pc = "decide", ![c].source = source]
    <3> DEFINE local == [ctl[c] EXCEPT !.pc = "decide", !.source = source]
    <3>1. ctl' = [ctl EXCEPT ![c] = local]
      BY <1>0, <2>2
    <3>2. local \in Locals
      BY <1>0 DEF DispatchInvariant, TypeOK, Locals, PCs
    <3>3. LocalMatchesRows(c)'
      BY <1>0, <1>2, <3>1 DEF LoadContext, LocalMatchesRows, Dispatching, Dispatched, Locals
    <3>4. QED
      BY <1>0, <1>2, <3>1, <3>2, <3>3, LocalStep DEF LoadContext
  <2>3. QED
    BY <1>2, <2>1, <2>2 DEF LoadContext
<1>3. ASSUME DecideExecution(c) PROVE DispatchInvariant'
  <2>1. PICK command \in Commands :
           ctl' = [ctl EXCEPT ![c].pc = "commit_decision", ![c].verdict = Verdict(c, command)]
    BY <1>3 DEF DecideExecution
  <2> DEFINE local == [ctl[c] EXCEPT !.pc = "commit_decision", !.verdict = Verdict(c, command)]
  <2>2. ctl' = [ctl EXCEPT ![c] = local]
    BY <1>0, <2>1
  <2>3. local \in Locals
    BY <1>0, VerdictType DEF Locals, PCs, Decisions
  <2>4. LocalMatchesRows(c)'
    BY <1>0, <1>3, <2>2 DEF DecideExecution, LocalMatchesRows, Dispatching, Dispatched, Locals
  <2>5. rowLock' \in [Experiments -> Controllers \cup {Free}]
    BY <1>0, <1>3 DEF DecideExecution, Lock
  <2>6. QED
    BY <1>0, <1>3, <2>2, <2>3, <2>4, <2>5, LocalStep DEF DecideExecution
<1>4. ASSUME ResumeAuthorized(c) PROVE DispatchInvariant'
  <2>1. PICK r \in Requests :
           /\ attState[r] = "AUTHORIZED"
           /\ ctl' = [ctl EXCEPT ![c] = [Idle EXCEPT !.pc = "dispatch", !.exp = attExp[r],
                                                     !.req = r]]
    BY <1>4 DEF ResumeAuthorized
  <2>2. attExp[r] \in Experiments
    BY <2>1 DEF DispatchInvariant, ChargedWithState
  <2>3. [Idle EXCEPT !.pc = "dispatch", !.exp = attExp[r], !.req = r] \in Locals
    BY <1>0, <2>2 DEF Idle, Locals, PCs
  <2>4. LocalMatchesRows(c)'
    BY <1>0, <1>4, <2>1, <2>2
    DEF ResumeAuthorized, rows, Idle, LocalMatchesRows, Dispatching, Dispatched
  <2>5. QED
    BY <1>0, <1>4, <2>1, <2>3, <2>4, LocalStep DEF ResumeAuthorized
<1>5. ASSUME NEW pc \in {"reserve", "mark_unknown", "fail_attempt"},
             UNCHANGED <<rows, rowLock, invoked, clock>>, Goto(c, pc),
             pc = "reserve" => ctl[c].pc = "dispatch",
             pc = "mark_unknown" =>
                ctl[c].pc = "dispatch" /\ attState[ctl[c].req] = "DISPATCHING",
             pc = "fail_attempt" => ctl[c].pc = "ingest"
      PROVE DispatchInvariant'
  <2> DEFINE local == [ctl[c] EXCEPT !.pc = pc]
  <2>1. ctl' = [ctl EXCEPT ![c] = local]
    BY <1>0, <1>5 DEF Goto
  <2>2. local \in Locals
    BY <1>0, <1>5 DEF Locals, PCs
  <2>3. /\ ctl'[c] = local /\ local.pc = pc /\ local.exp = ctl[c].exp
        /\ local.req = ctl[c].req /\ attState' = attState /\ invoked' = invoked
    BY <1>0, <1>5, <2>1 DEF rows, Locals
  <2>4. LocalMatchesRows(c)'
    BY <1>0, <1>5, <2>3 DEF LocalMatchesRows, Dispatching, Dispatched, Started
  <2>5. QED
    BY <1>0, <1>5, <2>1, <2>2, <2>4, LocalStep
<1>6. ASSUME Return(c), UNCHANGED <<rows, invoked, clock>>,
             rowLock' \in [Experiments -> Controllers \cup {Free}]
      PROVE DispatchInvariant'
  <2>1. LocalMatchesRows(c)'
    BY <1>0, <1>6 DEF Return, Idle, LocalMatchesRows, Dispatching, Dispatched
  <2>2. QED
    BY <1>0, <1>6, <2>1, LocalStep DEF Return
<1>7. ASSUME LoadAttempt(c) PROVE DispatchInvariant'
  BY <1>0, <1>5, <1>6, <1>7 DEF LoadAttempt
<1>8. ASSUME SizeReservation(c) PROVE DispatchInvariant'
  <2>1. CASE Return(c) /\ UNCHANGED rowLock
    BY <1>0, <1>6, <1>8, <2>1 DEF SizeReservation, RequestAmount
  <2>2. CASE ~(Return(c) /\ UNCHANGED rowLock)
    <3>1. PICK amount :
             /\ amount >= 1 /\ amount \in Nat
             /\ ctl' = [ctl EXCEPT ![c].pc = "consume", ![c].amount = amount]
             /\ rowLock' = [rowLock EXCEPT ![ctl[c].exp] = c]
      <4>1. Remaining \in Int
        BY BudgetAssumption DEF Remaining, DispatchInvariant, TypeOK, BudgetFields
      <4>2. \A i \in Int : ~(i < 1) => i >= 1 /\ i \in Nat
        OBVIOUS
      <4>3. QED
        BY <1>8, <2>2, <4>1, <4>2, BudgetAssumption DEF SizeReservation, RequestAmount
    <3> DEFINE local == [ctl[c] EXCEPT !.pc = "consume", !.amount = amount]
    <3>2. ctl' = [ctl EXCEPT ![c] = local]
      BY <1>0, <3>1
    <3>3. local \in Locals
      BY <1>0, <3>1 DEF Locals, PCs
    <3>4. /\ ctl'[c] = local /\ local.pc = "consume" /\ local.exp = ctl[c].exp
          /\ local.req = ctl[c].req /\ local.amount = amount
          /\ attState' = attState /\ invoked' = invoked
      BY <1>0, <1>8, <3>2 DEF SizeReservation, RequestAmount, rows, Locals
    <3>5. LocalMatchesRows(c)'
      BY <1>0, <1>8, <3>1, <3>4
      DEF SizeReservation, RequestAmount, LocalMatchesRows, Dispatching, Dispatched, Started
    <3>6. rowLock' \in [Experiments -> Controllers \cup {Free}]
      BY <1>0, <3>1
    <3>7. QED
      BY <1>0, <1>8, <3>2, <3>3, <3>5, <3>6, LocalStep DEF SizeReservation, RequestAmount
  <2>3. QED
    BY <2>1, <2>2
<1>9. ASSUME DenyDispatch(c) PROVE DispatchInvariant'
  BY <1>0, <1>6, <1>9 DEF DenyDispatch, Unlock
<1>10. ASSUME RejectIngestion(c) PROVE DispatchInvariant'
  BY <1>0, <1>5, <1>10 DEF RejectIngestion
<1>11. ASSUME Crash(c) PROVE DispatchInvariant'
  BY <1>0, <1>6, <1>11 DEF Crash
<1>12. QED
  BY <1>1, <1>2, <1>3, <1>4, <1>7, <1>8, <1>9, <1>10, <1>11

(* A step that gives a started attempt an outcome, and its experiment a    *)
(* state: MarkUnknown, RecordOutcome and FailAttempt.                      *)
LEMMA OutcomeStep ==
    ASSUME DispatchInvariant, NEW c \in Controllers, NEW local \in Locals,
           NEW r \in Requests, NEW outcome \in Outcomes, Started(r),
           attState' = [attState EXCEPT ![r] = outcome],
           expState' \in [Experiments -> ExperimentStates],
           ctl' = [ctl EXCEPT ![c] = local],
           UNCHANGED <<source, attExp, attAt, charged, used, result, rowLock, invoked, clock>>,
           LocalMatchesRows(c)'
    PROVE  DispatchInvariant'
<1>1. TypeOK'
  BY DEF DispatchInvariant, TypeOK, AttemptStates, Outcomes
<1>2. \A q \in Requests : /\ attState[q] # "NONE" => attState'[q] # "NONE"
                          /\ Started(q) <=> Started(q)'
  BY DEF DispatchInvariant, TypeOK, Started, Outcomes
<1>3. LocalsMatchRows'
  <2>1. \A d \in Controllers \ {c} : ctl'[d] = ctl[d]
    BY DEF DispatchInvariant, TypeOK
  <2>2. QED
    BY <1>2, <2>1, OthersKeep DEF DispatchInvariant
<1>4. LedgerWithinAllowance' /\ NoReplayAfterCrash'
  BY <1>2 DEF DispatchInvariant, LedgerWithinAllowance, NoReplayAfterCrash
<1>5. ChargedWithState'
  <2>1. \A q \in Requests : (Paid(q) <=> Paid(q)') /\ (Unpaid(q) <=> Unpaid(q)')
    BY DEF Paid, Unpaid
  <2>2. \A q \in Requests : attState'[q] # "NONE" => attState[q] # "NONE"
    BY DEF DispatchInvariant, TypeOK, Started
  <2>3. QED
    BY <1>2, <2>1, <2>2 DEF DispatchInvariant, ChargedWithState
<1>6. QED
  BY <1>1, <1>3, <1>4, <1>5 DEF DispatchInvariant

LEMMA StepsOfOutcomes ==
    ASSUME DispatchInvariant, NEW c \in Controllers,
           MarkUnknown(c) \/ RecordOutcome(c) \/ FailAttempt(c)
    PROVE  DispatchInvariant'
<1> DEFINE r == ctl[c].req
           e == ctl[c].exp
<1>0. /\ ctl[c] \in Locals /\ LocalMatchesRows(c) /\ Idle \in Locals
      /\ ctl \in [Controllers -> Locals] /\ expState \in [Experiments -> ExperimentStates]
  BY DEF DispatchInvariant, TypeOK, LocalsMatchRows, Idle, Locals, PCs, Sources, Verdicts,
         ReasonCodes, Kinds
<1>1. r \in Requests /\ Started(r)
  BY <1>0 DEF MarkUnknown, RecordOutcome, FailAttempt, LocalMatchesRows, Dispatched
<1>2. ASSUME Return(c) PROVE LocalMatchesRows(c)'
  BY <1>0, <1>2 DEF Return, LocalMatchesRows, Idle, Dispatching, Dispatched
<1>3. CASE MarkUnknown(c)
  BY <1>0, <1>1, <1>2, <1>3, OutcomeStep DEF MarkUnknown, Return, Outcomes
<1>4. CASE FailAttempt(c)
  <2>1. expState' \in [Experiments -> ExperimentStates]
    BY <1>0, <1>4 DEF FailAttempt, ExperimentStates
  <2>2. QED
    BY <1>0, <1>1, <1>2, <1>4, <2>1, OutcomeStep DEF FailAttempt, Return, Outcomes
<1>5. CASE RecordOutcome(c)
  <2>1. PICK i \in Invocations :
           /\ attState' = [attState EXCEPT ![r] = ClassifyInvocation(i).attempt]
           /\ expState' = [expState EXCEPT ![e] = ClassifyInvocation(i).experiment]
           /\ IF i.status = "COMPLETED"
              THEN ctl' = [ctl EXCEPT ![c].pc = "ingest", ![c].result = i.result]
              ELSE Return(c)
    BY <1>5 DEF RecordOutcome
  <2>2. /\ ClassifyInvocation(i).attempt \in Outcomes
        /\ ClassifyInvocation(i).experiment \in ExperimentStates
        /\ i.status = "COMPLETED" => i.result \in ResultStatuses
    BY OutcomeType
  <2>3. expState' \in [Experiments -> ExperimentStates]
    BY <1>0, <2>1, <2>2
  <2>4. UNCHANGED <<source, attExp, attAt, charged, used, result, rowLock, invoked, clock>>
    BY <1>5 DEF RecordOutcome
  <2>5. CASE i.status # "COMPLETED"
    <3>1. Return(c)
      BY <2>1, <2>5
    <3>2. QED
      BY <1>0, <1>1, <1>2, <2>1, <2>2, <2>3, <2>4, <3>1, OutcomeStep DEF Return
  <2>6. CASE i.status = "COMPLETED"
    <3> DEFINE local == [ctl[c] EXCEPT !.pc = "ingest", !.result = i.result]
    <3>1. ctl' = [ctl EXCEPT ![c] = local]
      BY <1>0, <2>1, <2>6
    <3>2. local \in Locals
      BY <1>0, <2>2, <2>6 DEF Locals, PCs
    <3>3. /\ ctl'[c] = local /\ local.pc = "ingest" /\ local.exp = e /\ local.req = r
          /\ local.result \in ResultStatuses
      BY <1>0, <2>2, <2>6, <3>1 DEF Locals
    <3>4. attState'[r] \notin {"NONE", "AUTHORIZED"}
      BY <1>1, <2>1, <2>2 DEF DispatchInvariant, TypeOK, Outcomes
    <3>5. LocalMatchesRows(c)'
      BY <1>0, <1>1, <1>5, <2>4, <3>3, <3>4
      DEF RecordOutcome, LocalMatchesRows, Dispatching, Dispatched, ResultStatuses, Started
    <3>6. QED
      BY <1>1, <2>1, <2>2, <2>3, <2>4, <3>1, <3>2, <3>5, OutcomeStep
  <2>7. QED
    BY <2>5, <2>6
<1>6. QED
  BY <1>3, <1>4, <1>5

(* CommitRefusal and CommitAllow: no request that exists is touched.       *)
LEMMA StepsOfDecisions ==
    ASSUME DispatchInvariant, NEW c \in Controllers, CommitRefusal(c) \/ CommitAllow(c)
    PROVE  DispatchInvariant'
<1> DEFINE e == ctl[c].exp
<1>0. /\ ctl[c] \in Locals /\ LocalMatchesRows(c) /\ Idle \in Locals
      /\ ctl \in [Controllers -> Locals] /\ expState \in [Experiments -> ExperimentStates]
      /\ rowLock \in [Experiments -> Controllers \cup {Free}]
  BY DEF DispatchInvariant, TypeOK, LocalsMatchRows, Idle, Locals, PCs, Sources, Verdicts,
         ReasonCodes, Kinds
<1>1. e \in Experiments
  BY <1>0 DEF CommitRefusal, CommitAllow, LocalMatchesRows
<1>2. CASE CommitRefusal(c)
  <2>1. LocalMatchesRows(c)'
    BY <1>0, <1>2 DEF CommitRefusal, Return, LocalMatchesRows, Idle, Dispatching, Dispatched
  <2>2. expState' \in [Experiments -> ExperimentStates]
    <3>1. ctl[c].verdict.decision \in Verdicts
      BY <1>0 DEF Locals
    <3>2. QED
      BY <1>0, <1>1, <1>2, <3>1
      DEF CommitRefusal, DeniedState, ExperimentStates, Verdicts, Kinds
  <2>3. TypeOK'
    BY <1>0, <1>2, <2>2 DEF DispatchInvariant, TypeOK, CommitRefusal, Return, Unlock
  <2>4. UNCHANGED <<attState, attExp, charged, used, result, invoked>>
    BY <1>2 DEF CommitRefusal
  <2>5. LocalsMatchRows'
    <3>1. \A d \in Controllers \ {c} : ctl'[d] = ctl[d]
      BY <1>0, <1>2 DEF CommitRefusal, Return
    <3>2. QED
      BY <2>1, <2>4, <3>1, OthersKeep DEF DispatchInvariant, Started
  <2>6. LedgerWithinAllowance' /\ NoReplayAfterCrash' /\ ChargedWithState'
    BY <2>4 DEF DispatchInvariant, LedgerWithinAllowance, NoReplayAfterCrash,
                ChargedWithState, Started, Paid, Unpaid
  <2>7. QED
    BY <2>3, <2>5, <2>6 DEF DispatchInvariant
<1>3. CASE CommitAllow(c)
  <2>1. PICK r \in Requests :
           /\ attState[r] = "NONE"
           /\ attState' = [attState EXCEPT ![r] = "AUTHORIZED"]
           /\ attExp' = [attExp EXCEPT ![r] = e]
           /\ attAt' = [attAt EXCEPT ![r] = ctl[c].now]
           /\ ctl' = [ctl EXCEPT ![c] = [Idle EXCEPT !.pc = "dispatch", !.exp = e, !.req = r]]
    BY <1>3 DEF CommitAllow
  <2>2. [Idle EXCEPT !.pc = "dispatch", !.exp = e, !.req = r] \in Locals
    BY <1>0, <1>1, <2>1 DEF Idle, Locals, PCs
  <2>3. expState' \in [Experiments -> ExperimentStates]
    BY <1>0, <1>3 DEF CommitAllow, ExperimentStates
  <2>4. ctl[c].now \in Nat
    BY <1>0 DEF Locals
  <2>5. TypeOK'
    BY <1>0, <1>1, <1>3, <2>1, <2>2, <2>3, <2>4
    DEF DispatchInvariant, TypeOK, CommitAllow, Unlock, AttemptStates
  <2>6. UNCHANGED <<charged, used, result, invoked>>
    BY <1>3 DEF CommitAllow
  <2>7. \A q \in Requests : /\ attState[q] # "NONE" => attState'[q] # "NONE"
                            /\ Started(q) <=> Started(q)'
    BY <2>1 DEF DispatchInvariant, TypeOK, Started
  <2>8. LocalMatchesRows(c)'
    BY <1>0, <1>1, <2>1 DEF DispatchInvariant, TypeOK, LocalMatchesRows, Idle, Dispatching,
                            Dispatched
  <2>9. LocalsMatchRows'
    <3>1. \A d \in Controllers \ {c} : ctl'[d] = ctl[d]
      BY <1>0, <2>1
    <3>2. QED
      BY <2>6, <2>7, <2>8, <3>1, OthersKeep DEF DispatchInvariant
  <2>10. LedgerWithinAllowance' /\ NoReplayAfterCrash'
    BY <2>6, <2>7 DEF DispatchInvariant, LedgerWithinAllowance, NoReplayAfterCrash
  <2>11. ChargedWithState'
    <3>1. \A q \in Requests : (Paid(q) <=> Paid(q)') /\ (Unpaid(q) <=> Unpaid(q)')
      BY <2>6 DEF Paid, Unpaid
    <3>2. \A q \in Requests : attState'[q] # "NONE" => attExp'[q] \in Experiments
      BY <1>1, <2>1 DEF DispatchInvariant, TypeOK, ChargedWithState
    <3>3. QED
      BY <2>6, <2>7, <3>1, <3>2 DEF DispatchInvariant, ChargedWithState
  <2>12. QED
    BY <2>5, <2>9, <2>10, <2>11 DEF DispatchInvariant
<1>4. QED
  BY <1>2, <1>3

(* What a committed dispatch writes, in terms of the request's phase.      *)
LEMMA DispatchCharges ==
    ASSUME DispatchInvariant, NEW c \in Controllers, CommitDispatch(c)
    PROVE  LET r == ctl[c].req  n == ctl[c].amount IN
           /\ r \in Requests /\ n \in Nat /\ n >= 1 /\ attState[r] # "NONE"
           /\ attState' = [attState EXCEPT ![r] = "DISPATCHING"]
           /\ Started(r) => charged' = charged /\ used' = used
           /\ ~Started(r) =>
                /\ charged' = [charged EXCEPT ![r] = [invocation |-> 1, request |-> n]]
                /\ used' = [requests |-> used.requests + n,
                            tool_calls |-> used.tool_calls + 1]
                /\ used.requests + n <= Issued.max["requests"]
                /\ used.tool_calls + 1 <= Issued.max["tool_calls"]
<1> DEFINE r == ctl[c].req
           n == ctl[c].amount
<1>1. /\ r \in Requests /\ n \in Nat /\ n >= 1 /\ attState[r] # "NONE"
  BY DEF DispatchInvariant, TypeOK, Locals, LocalsMatchRows, LocalMatchesRows, Dispatching,
         CommitDispatch
<1>2. charged[r] \in [invocation: Nat, request: Nat] /\ used \in [requests: Nat, tool_calls: Nat]
      /\ charged \in [Requests -> [invocation: Nat, request: Nat]]
  BY <1>1 DEF DispatchInvariant, TypeOK
<1>3. (Started(r) => Paid(r)) /\ (~Started(r) => Unpaid(r))
  BY <1>1 DEF DispatchInvariant, ChargedWithState
<1>4. /\ Started(r) => NewInvocations(r) = 0 /\ NewRequests(r, n) = 0
      /\ ~Started(r) => NewInvocations(r) = 1 /\ NewRequests(r, n) = n
  BY <1>1, <1>3, ChargeOnce DEF DispatchInvariant
<1>5. /\ WithinAllowance(r, n)
      /\ attState' = [attState EXCEPT ![r] = "DISPATCHING"]
      /\ charged' = [charged EXCEPT ![r] =
                        [invocation |-> charged[r].invocation + NewInvocations(r),
                         request    |-> charged[r].request + NewRequests(r, n)]]
      /\ used' = [requests   |-> used.requests + NewRequests(r, n),
                  tool_calls |-> used.tool_calls + NewInvocations(r)]
  BY DEF CommitDispatch
<1>6. CASE Started(r)
  <2>1. charged' = [charged EXCEPT ![r] = charged[r]]
    <3>1. [invocation |-> charged[r].invocation, request |-> charged[r].request] = charged[r]
      BY <1>2
    <3>2. /\ charged[r].invocation + NewInvocations(r) = charged[r].invocation
          /\ charged[r].request + NewRequests(r, n) = charged[r].request
      BY <1>2, <1>4, <1>6
    <3>3. QED
      BY <1>5, <3>1, <3>2
  <2>2. used' = used
    BY <1>2, <1>4, <1>5, <1>6
  <2>3. QED
    BY <1>1, <1>2, <1>5, <1>6, <2>1, <2>2
<1>7. CASE ~Started(r)
  <2>1. charged[r].invocation = 0 /\ charged[r].request = 0
    BY <1>3, <1>7 DEF Unpaid
  <2>2. charged[r].invocation + NewInvocations(r) = 1 /\ charged[r].request + NewRequests(r, n) = n
    BY <1>1, <1>4, <1>7, <2>1
  <2>3. charged' = [charged EXCEPT ![r] = [invocation |-> 1, request |-> n]]
    BY <1>5, <2>2
  <2>4. used' = [requests |-> used.requests + n, tool_calls |-> used.tool_calls + 1]
    BY <1>4, <1>5, <1>7
  <2>5. /\ used.requests + n <= Issued.max["requests"]
        /\ used.tool_calls + 1 <= Issued.max["tool_calls"]
    BY <1>4, <1>5, <1>7 DEF WithinAllowance
  <2>6. QED
    BY <1>1, <1>5, <1>7, <2>3, <2>4, <2>5
<1>8. QED
  BY <1>6, <1>7

LEMMA StepOfDispatch ==
    ASSUME DispatchInvariant, NEW c \in Controllers, CommitDispatch(c)
    PROVE  DispatchInvariant'
<1> DEFINE r == ctl[c].req
           n == ctl[c].amount
           local == [ctl[c] EXCEPT !.pc = "invoke"]
<1>1. /\ r \in Requests /\ n \in Nat /\ n >= 1 /\ attState[r] # "NONE"
      /\ attState' = [attState EXCEPT ![r] = "DISPATCHING"]
      /\ Started(r) => charged' = charged /\ used' = used
      /\ ~Started(r) =>
           /\ charged' = [charged EXCEPT ![r] = [invocation |-> 1, request |-> n]]
           /\ used' = [requests |-> used.requests + n, tool_calls |-> used.tool_calls + 1]
           /\ used.requests + n <= Issued.max["requests"]
           /\ used.tool_calls + 1 <= Issued.max["tool_calls"]
  BY DispatchCharges
<1>2. /\ ctl[c] \in Locals /\ ctl[c].exp \in Experiments
      /\ ctl \in [Controllers -> Locals]
      /\ used \in [requests: Nat, tool_calls: Nat]
  BY DEF DispatchInvariant, TypeOK, LocalsMatchRows, LocalMatchesRows, CommitDispatch
<1>3. /\ ctl' = [ctl EXCEPT ![c] = local] /\ local \in Locals
      /\ local.pc = "invoke" /\ local.req = r /\ local.exp = ctl[c].exp
  BY <1>2 DEF CommitDispatch, Goto, Locals, PCs
<1>4. TypeOK'
  <2>1. charged' \in [Requests -> [invocation: Nat, request: Nat]]
    BY <1>1 DEF DispatchInvariant, TypeOK
  <2>2. used' \in [requests: Nat, tool_calls: Nat]
    BY <1>1, <1>2
  <2>3. QED
    BY <1>1, <1>2, <1>3, <2>1, <2>2
    DEF DispatchInvariant, TypeOK, CommitDispatch, Unlock, AttemptStates, ExperimentStates
<1>5. UNCHANGED <<attExp, result, invoked>>
  BY DEF CommitDispatch
<1>6. \A q \in Requests : /\ attState[q] # "NONE" <=> attState'[q] # "NONE"
                          /\ Started(q) => Started(q)'
                          /\ q # r => (Started(q) <=> Started(q)') /\ charged'[q] = charged[q]
  BY <1>1 DEF DispatchInvariant, TypeOK, Started
<1>7. LocalsMatchRows'
  <2>1. LocalMatchesRows(c)'
    BY <1>1, <1>2, <1>3 DEF DispatchInvariant, TypeOK, LocalMatchesRows, Dispatching, Dispatched,
                            Started
  <2>2. \A d \in Controllers \ {c} : ctl'[d] = ctl[d]
    BY <1>2, <1>3
  <2>3. QED
    BY <1>5, <1>6, <2>1, <2>2, OthersKeep DEF DispatchInvariant
<1>8. LedgerWithinAllowance'
  BY <1>1, <1>2 DEF DispatchInvariant, LedgerWithinAllowance
<1>9. NoReplayAfterCrash'
  BY <1>5, <1>6 DEF DispatchInvariant, NoReplayAfterCrash
<1>10. ChargedWithState'
  <2>1. attState'[r] \notin {"NONE", "AUTHORIZED"} /\ charged'[r].invocation = 1
        /\ charged'[r].request >= 1
    BY <1>1 DEF DispatchInvariant, TypeOK, ChargedWithState, Paid
  <2>2. \A q \in Requests \ {r} : /\ Started(q)' => Paid(q)'
                                  /\ ~Started(q)' => Unpaid(q)'
    BY <1>6 DEF DispatchInvariant, ChargedWithState, Paid, Unpaid
  <2>3. \A q \in Requests : /\ Started(q)' => Paid(q)'
                            /\ ~Started(q)' => Unpaid(q)'
    BY <2>1, <2>2 DEF Started, Paid
  <2>4. QED
    BY <1>5, <1>6, <2>3 DEF DispatchInvariant, ChargedWithState
<1>11. QED
  BY <1>4, <1>7, <1>8, <1>9, <1>10 DEF DispatchInvariant

(* InvokeWorker and Ingest: the request is started, and was invoked.       *)
LEMMA StepsOfWorkers ==
    ASSUME DispatchInvariant, NEW c \in Controllers, InvokeWorker(c) \/ Ingest(c)
    PROVE  DispatchInvariant'
<1> DEFINE r == ctl[c].req
<1>0. /\ ctl[c] \in Locals /\ LocalMatchesRows(c) /\ Idle \in Locals
      /\ ctl \in [Controllers -> Locals] /\ invoked \in [Requests -> Nat]
      /\ result \in [Requests -> ResultStatuses \cup {"NONE"}]
  BY DEF DispatchInvariant, TypeOK, LocalsMatchRows, Idle, Locals, PCs, Sources, Verdicts,
         ReasonCodes, Kinds
<1>1. r \in Requests /\ Started(r)
  BY <1>0 DEF InvokeWorker, Ingest, LocalMatchesRows, Dispatched
<1>2. UNCHANGED <<attState, attExp, charged, used>>
  BY DEF InvokeWorker, Ingest, rows
<1>3. invoked' \in [Requests -> Nat] /\ \A q \in Requests : invoked'[q] >= invoked[q]
  BY <1>0, <1>1 DEF InvokeWorker, Ingest
<1>4. \A q \in Requests : result'[q] # "NONE" => invoked'[q] > 0
  <2>1. CASE InvokeWorker(c)
    <3>1. result' = result
      BY <2>1 DEF InvokeWorker, rows
    <3>2. \A q \in Requests : result[q] # "NONE" => invoked[q] > 0
      BY DEF DispatchInvariant, ChargedWithState
    <3>3. QED
      BY <1>0, <1>3, <3>1, <3>2
  <2>2. CASE Ingest(c)
    BY <1>0, <1>1, <2>2 DEF Ingest, DispatchInvariant, ChargedWithState, LocalMatchesRows
  <2>3. QED
    BY <2>1, <2>2
<1>5. \A q \in Requests : invoked'[q] > 0 => Started(q)
  <2>1. CASE InvokeWorker(c)
    BY <1>0, <1>1, <2>1 DEF InvokeWorker, DispatchInvariant, NoReplayAfterCrash
  <2>2. CASE Ingest(c)
    BY <2>2 DEF Ingest, DispatchInvariant, NoReplayAfterCrash
  <2>3. QED
    BY <2>1, <2>2
<1>6. TypeOK' /\ LocalMatchesRows(c)' /\ \A d \in Controllers \ {c} : ctl'[d] = ctl[d]
  <2>1. CASE InvokeWorker(c)
    <3> DEFINE local == [ctl[c] EXCEPT !.pc = "running"]
    <3>1. /\ ctl' = [ctl EXCEPT ![c] = local] /\ local \in Locals
          /\ local.pc = "running" /\ local.req = r /\ local.exp = ctl[c].exp
      BY <1>0, <2>1 DEF InvokeWorker, Goto, Locals, PCs
    <3>2. TypeOK'
      BY <1>0, <1>3, <2>1, <3>1 DEF DispatchInvariant, TypeOK, InvokeWorker, rows
    <3>3. invoked'[r] > 0
      BY <1>0, <1>1, <2>1 DEF InvokeWorker
    <3>4. LocalMatchesRows(c)'
      BY <1>0, <1>1, <1>2, <2>1, <3>1, <3>3
      DEF InvokeWorker, LocalMatchesRows, Dispatching, Dispatched, Started
    <3>5. QED
      BY <1>0, <3>1, <3>2, <3>4
  <2>2. CASE Ingest(c)
    <3>1. ctl' = [ctl EXCEPT ![c] = Idle]
      BY <2>2 DEF Ingest, Return
    <3>2. ctl[c].result \in ResultStatuses \cup {"NONE"}
      BY <1>0 DEF Locals
    <3>3. TypeOK'
      BY <1>0, <2>2, <3>1, <3>2 DEF DispatchInvariant, TypeOK, Ingest
    <3>4. QED
      BY <1>0, <3>1, <3>3 DEF LocalMatchesRows, Idle, Dispatching, Dispatched
  <2>3. QED
    BY <2>1, <2>2
<1>7. LocalsMatchRows'
  <2>1. \A q \in Requests : invoked[q] > 0 => invoked'[q] > 0
    BY <1>0, <1>3
  <2>2. QED
    BY <1>2, <1>6, <2>1, OthersKeep DEF DispatchInvariant, Started
<1>8. LedgerWithinAllowance' /\ NoReplayAfterCrash' /\ ChargedWithState'
  BY <1>2, <1>4, <1>5 DEF DispatchInvariant, LedgerWithinAllowance, NoReplayAfterCrash,
                          ChargedWithState, Started, Paid, Unpaid
<1>9. QED
  BY <1>6, <1>7, <1>8 DEF DispatchInvariant

(* The environment touches nothing the invariant speaks of.                *)
LEMMA StepsOfEnvironment ==
    ASSUME DispatchInvariant, SourceLapses \/ Tick \/ UNCHANGED vars
    PROVE  DispatchInvariant'
<1>1. TypeOK'
  BY DEF DispatchInvariant, TypeOK, SourceLapses, Tick, vars, rows, Sources
<1>2. UNCHANGED <<attState, attExp, charged, used, result, ctl, invoked>>
  BY DEF SourceLapses, Tick, vars, rows
<1>3. LocalsMatchRows'
  BY <1>2 DEF DispatchInvariant, LocalsMatchRows, LocalMatchesRows, Started
<1>4. LedgerWithinAllowance' /\ NoReplayAfterCrash' /\ ChargedWithState'
  BY <1>2 DEF DispatchInvariant, LedgerWithinAllowance, NoReplayAfterCrash, ChargedWithState,
              Started, Paid, Unpaid
<1>5. QED
  BY <1>1, <1>3, <1>4 DEF DispatchInvariant

(* Every step of Next, by the group its action belongs to.                 *)
LEMMA NextInvariant == DispatchInvariant /\ [Next]_vars => DispatchInvariant'
<1> SUFFICES ASSUME DispatchInvariant, [Next]_vars PROVE DispatchInvariant'
  OBVIOUS
<1>1. ASSUME NEW c \in Controllers, ControllerStep(c) \/ Crash(c) PROVE DispatchInvariant'
  <2>1. CASE \/ \E e \in Experiments : StartExecute(c, e)
             \/ LoadContext(c)
             \/ DecideExecution(c)
             \/ ResumeAuthorized(c)
             \/ LoadAttempt(c)
             \/ SizeReservation(c)
             \/ DenyDispatch(c)
             \/ RejectIngestion(c)
             \/ Crash(c)
    BY <2>1, StepsOfLocals
  <2>2. CASE MarkUnknown(c) \/ RecordOutcome(c) \/ FailAttempt(c)
    BY <2>2, StepsOfOutcomes
  <2>3. CASE CommitRefusal(c) \/ CommitAllow(c)
    BY <2>3, StepsOfDecisions
  <2>4. CASE CommitDispatch(c)
    BY <2>4, StepOfDispatch
  <2>5. CASE InvokeWorker(c) \/ Ingest(c)
    BY <2>5, StepsOfWorkers
  <2>6. QED
    BY <1>1, <2>1, <2>2, <2>3, <2>4, <2>5 DEF ControllerStep
<1>2. QED
  BY <1>1, StepsOfEnvironment DEF Next, Acting

(***************************************************************************)
(* The invariant of dispatch: types, the rows a controller may rely on at  *)
(* each point of a call, the ledger, and crash window C.                   *)
(***************************************************************************)
THEOREM DispatchInvariantHolds == Spec => []DispatchInvariant
<1>1. QED
  BY InitInvariant, NextInvariant, PTL DEF Spec

(***************************************************************************)
(* The ledger never exceeds the issued budget.                             *)
(***************************************************************************)
THEOREM LedgerTheorem == Spec => []LedgerWithinAllowance
<1>1. DispatchInvariant => LedgerWithinAllowance
  BY DEF DispatchInvariant
<1>2. QED
  BY <1>1, DispatchInvariantHolds, PTL

(***************************************************************************)
(* Every worker that was invoked is paid for.                              *)
(***************************************************************************)
THEOREM PaidTheorem == Spec => []InvocationsPaidFor
<1>1. DispatchInvariant => InvocationsPaidFor
  BY DEF DispatchInvariant, NoReplayAfterCrash, ChargedWithState, InvocationsPaidFor
<1>2. QED
  BY <1>1, DispatchInvariantHolds, PTL

(***************************************************************************)
(* No request that may have reached a worker looks undispatched.           *)
(***************************************************************************)
THEOREM NoReplayTheorem == Spec => []NoReplayAfterCrash
<1>1. DispatchInvariant => NoReplayAfterCrash
  BY DEF DispatchInvariant
<1>2. QED
  BY <1>1, DispatchInvariantHolds, PTL

-----------------------------------------------------------------------------
(* The refinement of BudgetedDispatch.                                     *)

(* The initial rows are the initial promise.                               *)
LEMMA PromiseInit == Init => Promise!Init
BY DEF Init, Promise!Init

(* A step that keeps every request started, or not, keeps the promise's    *)
(* variables.                                                              *)
LEMMA PromiseStutter ==
    ASSUME UNCHANGED <<charged, used, invoked, result>>,
           \A r \in Requests : /\ attState[r] = "NONE" <=> attState'[r] = "NONE"
                               /\ attState[r] = "AUTHORIZED" <=> attState'[r] = "AUTHORIZED"
    PROVE  UNCHANGED Promise!vars
BY DEF Promise!vars

LEMMA PromiseStep ==
    DispatchInvariant /\ [Next]_vars => [Promise!Next]_(Promise!vars)
<1> SUFFICES ASSUME DispatchInvariant, [Next]_vars
             PROVE  Promise!Next \/ UNCHANGED Promise!vars
  OBVIOUS
<1>0. /\ attState \in [Requests -> AttemptStates] /\ ctl \in [Controllers -> Locals]
      /\ result \in [Requests -> ResultStatuses \cup {"NONE"}]
      /\ invoked \in [Requests -> Nat]
      /\ used \in [requests: Nat, tool_calls: Nat]
      /\ charged \in [Requests -> [invocation: Nat, request: Nat]]
  BY DEF DispatchInvariant, TypeOK
<1>1. CASE UNCHANGED <<attState, charged, used, invoked, result>>
  BY <1>1, PromiseStutter
<1>2. ASSUME NEW c \in Controllers, MarkUnknown(c) \/ RecordOutcome(c) \/ FailAttempt(c)
      PROVE UNCHANGED Promise!vars
  <2>1. ctl[c].req \in Requests /\ Started(ctl[c].req)
    BY <1>2 DEF DispatchInvariant, LocalsMatchRows, LocalMatchesRows, Dispatched, MarkUnknown,
                RecordOutcome, FailAttempt
  <2>2. \E outcome \in Outcomes : attState' = [attState EXCEPT ![ctl[c].req] = outcome]
    BY <1>2, OutcomeType DEF MarkUnknown, RecordOutcome, FailAttempt, Outcomes
  <2>3. \A r \in Requests : /\ attState[r] = "NONE" <=> attState'[r] = "NONE"
                            /\ attState[r] = "AUTHORIZED" <=> attState'[r] = "AUTHORIZED"
    BY <1>0, <2>1, <2>2 DEF Started, Outcomes
  <2>4. UNCHANGED <<charged, used, invoked, result>>
    BY <1>2 DEF MarkUnknown, RecordOutcome, FailAttempt
  <2>5. QED
    BY <2>3, <2>4, PromiseStutter
<1>3. ASSUME NEW c \in Controllers, CommitAllow(c) PROVE Promise!Next
  <2>1. PICK r \in Requests : attState[r] = "NONE"
                              /\ attState' = [attState EXCEPT ![r] = "AUTHORIZED"]
    BY <1>3 DEF CommitAllow
  <2>2. Promise!Authorize(r)
    BY <1>0, <1>3, <2>1 DEF CommitAllow, Promise!Authorize
  <2>3. QED
    BY <2>2 DEF Promise!Next
<1>4. ASSUME NEW c \in Controllers, CommitDispatch(c)
      PROVE Promise!Next \/ UNCHANGED Promise!vars
  <2> DEFINE r == ctl[c].req
             n == ctl[c].amount
  <2>1. /\ r \in Requests /\ n \in Nat /\ n >= 1 /\ attState[r] # "NONE"
        /\ attState' = [attState EXCEPT ![r] = "DISPATCHING"]
        /\ Started(r) => charged' = charged /\ used' = used
        /\ ~Started(r) =>
             /\ charged' = [charged EXCEPT ![r] = [invocation |-> 1, request |-> n]]
             /\ used' = [requests |-> used.requests + n, tool_calls |-> used.tool_calls + 1]
             /\ used.requests + n <= Issued.max["requests"]
             /\ used.tool_calls + 1 <= Issued.max["tool_calls"]
    BY <1>4, DispatchCharges
  <2>2. invoked' = invoked /\ result' = result
    BY <1>4 DEF CommitDispatch
  <2>3. CASE Started(r)
    <3>1. \A q \in Requests : /\ attState[q] = "NONE" <=> attState'[q] = "NONE"
                              /\ attState[q] = "AUTHORIZED" <=> attState'[q] = "AUTHORIZED"
      BY <1>0, <2>1, <2>3 DEF Started
    <3>2. QED
      BY <2>1, <2>2, <2>3, <3>1, PromiseStutter
  <2>4. CASE ~Started(r)
    <3>1. n \in 1..Issued.max["requests"]
      BY <1>0, <2>1, <2>4, BudgetAssumption DEF BudgetFields
    <3>2. attState[r] = "AUTHORIZED"
      BY <2>1, <2>4 DEF Started
    <3> DEFINE Phase(state) == IF state = "NONE" THEN "none"
                               ELSE IF state = "AUTHORIZED" THEN "authorized" ELSE "started"
               phase == [q \in Requests |-> Phase(attState[q])]
               cost == [q \in Requests |-> charged[q].request]
    <3>3. /\ phase[r] = "authorized"
          /\ [q \in Requests |-> Phase(attState'[q])] = [phase EXCEPT ![r] = "started"]
      BY <1>0, <2>1, <3>2
    <3>4. [q \in Requests |-> charged'[q].request] = [cost EXCEPT ![r] = n]
      <4>1. \A q \in Requests : charged'[q].request = IF q = r THEN n ELSE charged[q].request
        BY <1>0, <2>1, <2>4
      <4>2. QED
        BY <4>1
    <3>5. PICK q \in Requests, m \in 1..Issued.max["requests"] : q = r /\ m = n
      BY <2>1, <3>1
    <3>6. Promise!Start(q, m)
      BY <2>1, <2>2, <2>4, <3>3, <3>4, <3>5 DEF Promise!Start
    <3>7. QED
      BY <3>6 DEF Promise!Next
  <2>5. QED
    BY <2>3, <2>4
<1>5. ASSUME NEW c \in Controllers, InvokeWorker(c) PROVE Promise!Next
  <2>1. ctl[c].req \in Requests /\ Started(ctl[c].req)
    BY <1>5 DEF DispatchInvariant, LocalsMatchRows, LocalMatchesRows, Dispatched, InvokeWorker
  <2>2. Promise!Run(ctl[c].req)
    BY <1>0, <1>5, <2>1 DEF InvokeWorker, rows, Started, Promise!Run
  <2>3. QED
    BY <2>1, <2>2 DEF Promise!Next
<1>6. ASSUME NEW c \in Controllers, Ingest(c) PROVE Promise!Next \/ UNCHANGED Promise!vars
  <2> DEFINE r == ctl[c].req
  <2>1. /\ r \in Requests /\ invoked[r] > 0 /\ ctl[c].result \in ResultStatuses
    BY <1>0, <1>6 DEF DispatchInvariant, LocalsMatchRows, LocalMatchesRows, Dispatched, Ingest,
                      Locals
  <2>2. UNCHANGED <<attState, charged, used, invoked>>
    BY <1>6 DEF Ingest
  <2>3. CASE result[r] = "NONE"
    <3>1. result' = [result EXCEPT ![r] = ctl[c].result]
      BY <1>6, <2>3 DEF Ingest
    <3>2. Promise!Store(r, ctl[c].result)
      BY <2>1, <2>2, <2>3, <3>1 DEF Promise!Store
    <3>3. QED
      BY <2>1, <3>2 DEF Promise!Next
  <2>4. CASE result[r] # "NONE"
    <3>1. result' = result
      BY <1>0, <1>6, <2>1, <2>4 DEF Ingest
    <3>2. QED
      BY <2>2, <3>1, PromiseStutter
  <2>5. QED
    BY <2>3, <2>4
<1>7. QED
  <2>1. ASSUME NEW c \in Controllers, ControllerStep(c) \/ Crash(c),
               ~(MarkUnknown(c) \/ RecordOutcome(c) \/ FailAttempt(c)), ~CommitAllow(c),
               ~CommitDispatch(c), ~InvokeWorker(c), ~Ingest(c)
        PROVE UNCHANGED <<attState, charged, used, invoked, result>>
    BY <2>1 DEF ControllerStep, StartExecute, LoadContext, DecideExecution, CommitRefusal,
                ResumeAuthorized, LoadAttempt, SizeReservation, RequestAmount, DenyDispatch, RejectIngestion,
                Crash, rows
  <2>2. SourceLapses \/ Tick \/ UNCHANGED vars
        => UNCHANGED <<attState, charged, used, invoked, result>>
    BY DEF SourceLapses, Tick, vars, rows
  <2>3. QED
    BY <1>1, <1>2, <1>3, <1>4, <1>5, <1>6, <2>1, <2>2 DEF Next, Acting

(***************************************************************************)
(* Dispatch keeps its promise: with any number of controllers, crashes and *)
(* duplicated or resumed calls, ExperimentDispatch implements              *)
(* BudgetedDispatch.                                                       *)
(***************************************************************************)
THEOREM DispatchKeepsPromise == Spec => KeepsPromise
<1>1. QED
  BY DispatchInvariantHolds, PromiseInit, PromiseStep, PTL
  DEF Spec, KeepsPromise, Promise!Spec

-----------------------------------------------------------------------------
(* What a controller that is alone keeps.  A second one breaks both of     *)
(* these: it may commit an outcome or an attempt between a read of the     *)
(* first and the write that relies on it.                                  *)

Authorized == {r \in Requests : attState[r] # "NONE"}

\* Between two of its own steps nobody else moves the attempt of a controller.
StateIsAsRead(c) ==
    /\ ctl[c].pc \in {"reserve", "consume"} => attState[ctl[c].req] = "AUTHORIZED"
    /\ ctl[c].pc \in {"mark_unknown", "invoke", "running"} =>
          attState[ctl[c].req] = "DISPATCHING"
    /\ ctl[c].pc \in {"ingest", "fail_attempt"} => attState[ctl[c].req] = "COMPLETED"

\* Nothing was authorized after the time at which a decision was begun, and
\* the window a pending ALLOW was granted in is still the window.
WindowIsAsRead(c) ==
    /\ IsFiniteSet(Authorized)
    /\ \A r \in Authorized : attAt[r] <= clock
    /\ ctl[c].pc \in {"authorize", "decide", "commit_decision"} =>
          ctl[c].now <= clock /\ \A r \in Authorized : attAt[r] <= ctl[c].now
    /\ ctl[c].pc = "commit_decision" /\ ctl[c].verdict.decision = "ALLOW" => ~RateLimited(c)

AloneInvariant(c) == DispatchInvariant /\ StateIsAsRead(c) /\ WindowIsAsRead(c) /\ RollingWindow

\* A step that authorizes nothing leaves every window as it was.
LEMMA WindowsKept ==
    ASSUME RollingWindow, Authorized' = Authorized, attAt' = attAt
    PROVE  RollingWindow' /\ AuthorizedTimes' = AuthorizedTimes
<1>1. AuthorizedTimes = [r \in Authorized |-> attAt[r]]
  BY DEF AuthorizedTimes, Authorized
<1>2. AuthorizedTimes' = [r \in Authorized' |-> attAt'[r]]
  BY DEF AuthorizedTimes, Authorized
<1>3. AuthorizedTimes' = AuthorizedTimes
  BY <1>1, <1>2
<1> QED
  BY <1>3 DEF RollingWindow

\* Steps of the controller that leave the attempts alone.
LEMMA AloneLocalSteps ==
    ASSUME NEW c \in Controllers, AloneInvariant(c), UNCHANGED <<attState, attAt, clock>>,
           \/ \E e \in Experiments : StartExecute(c, e)
           \/ LoadContext(c)
           \/ DecideExecution(c)
           \/ CommitRefusal(c)
           \/ ResumeAuthorized(c)
           \/ LoadAttempt(c)
           \/ SizeReservation(c)
           \/ DenyDispatch(c)
           \/ InvokeWorker(c)
           \/ Ingest(c)
           \/ RejectIngestion(c)
           \/ Crash(c)
    PROVE  StateIsAsRead(c)' /\ WindowIsAsRead(c)' /\ RollingWindow'
<1>1. ctl \in [Controllers -> Locals] /\ ctl[c] \in Locals
  BY DEF AloneInvariant, DispatchInvariant, TypeOK
<1>2. Authorized' = Authorized
  BY DEF Authorized
<1>3. RollingWindow' /\ AuthorizedTimes' = AuthorizedTimes
  BY <1>2, WindowsKept DEF AloneInvariant
<1>4. IsFiniteSet(Authorized') /\ \A r \in Authorized' : attAt'[r] <= clock'
  BY <1>2 DEF AloneInvariant, WindowIsAsRead
<1>5. ASSUME NEW e \in Experiments, StartExecute(c, e)
      PROVE  StateIsAsRead(c)' /\ WindowIsAsRead(c)'
  <2>1. CASE ctl' = [ctl EXCEPT ![c] = [Idle EXCEPT !.pc = "authorize", !.exp = e,
                                                    !.now = clock]]
    <3>1. ctl'[c].pc = "authorize" /\ ctl'[c].now = clock
      BY <1>1, <2>1 DEF Idle
    <3>2. clock \in Nat
      BY DEF AloneInvariant, DispatchInvariant, TypeOK
    <3> QED
      BY <1>2, <1>4, <3>1, <3>2 DEF StateIsAsRead, WindowIsAsRead
  <2>2. ASSUME NEW r \in AttemptsOf(e), InDoubt(attState[r]),
               ctl' = [ctl EXCEPT ![c] = [Idle EXCEPT !.pc = "mark_unknown", !.exp = e,
                                                      !.req = r]]
        PROVE  StateIsAsRead(c)' /\ WindowIsAsRead(c)'
    <3>1. ctl'[c].pc = "mark_unknown" /\ ctl'[c].req = r
      BY <1>1, <2>2 DEF Idle
    <3> QED
      BY <1>4, <2>2, <3>1 DEF StateIsAsRead, WindowIsAsRead, InDoubt
  <2> QED
    BY <1>5, <2>1, <2>2 DEF StartExecute
<1>6. ASSUME Return(c) PROVE StateIsAsRead(c)' /\ WindowIsAsRead(c)'
  <2>1. ctl'[c].pc = "idle"
    BY <1>1, <1>6 DEF Return, Idle
  <2> QED
    BY <1>4, <2>1 DEF StateIsAsRead, WindowIsAsRead
<1>7. ASSUME LoadContext(c), ~Return(c) PROVE StateIsAsRead(c)' /\ WindowIsAsRead(c)'
  <2>1. ctl[c].pc = "authorize" /\ ctl'[c].pc = "decide" /\ ctl'[c].now = ctl[c].now
    BY <1>1, <1>7 DEF LoadContext, Locals
  <2> QED
    BY <1>2, <1>4, <2>1 DEF AloneInvariant, StateIsAsRead, WindowIsAsRead
<1>8. ASSUME DecideExecution(c) PROVE StateIsAsRead(c)' /\ WindowIsAsRead(c)'
  <2>1. PICK command \in Commands :
            ctl' = [ctl EXCEPT ![c].pc = "commit_decision", ![c].verdict = Verdict(c, command)]
    BY <1>8 DEF DecideExecution
  <2>2. /\ ctl[c].pc = "decide" /\ ctl'[c].pc = "commit_decision"
        /\ ctl'[c].now = ctl[c].now /\ ctl'[c].verdict = Verdict(c, command)
    BY <1>1, <1>8, <2>1 DEF DecideExecution, Locals
  <2>3. Verdict(c, command).decision = "ALLOW" => ~RateLimited(c)
    BY DEF Verdict, InputRejected
  <2>4. RateLimited(c)' <=> RateLimited(c)
    BY <1>3, <2>2 DEF RateLimited
  <2> QED
    BY <1>2, <1>4, <2>2, <2>3, <2>4 DEF AloneInvariant, StateIsAsRead, WindowIsAsRead
<1>9. ASSUME ResumeAuthorized(c) PROVE StateIsAsRead(c)' /\ WindowIsAsRead(c)'
  <2>1. ctl'[c].pc = "dispatch"
    BY <1>1, <1>9 DEF ResumeAuthorized, Idle
  <2> QED
    BY <1>4, <2>1 DEF StateIsAsRead, WindowIsAsRead
<1>10. ASSUME NEW pc, Goto(c, pc),
              pc = "reserve" => attState[ctl[c].req] = "AUTHORIZED",
              pc = "mark_unknown" => attState[ctl[c].req] = "DISPATCHING",
              pc = "running" => attState[ctl[c].req] = "DISPATCHING",
              pc = "fail_attempt" => attState[ctl[c].req] = "COMPLETED",
              pc \in {"reserve", "mark_unknown", "running", "fail_attempt"}
       PROVE  StateIsAsRead(c)' /\ WindowIsAsRead(c)'
  <2>1. ctl'[c].pc = pc /\ ctl'[c].req = ctl[c].req
    BY <1>1, <1>10 DEF Goto, Locals
  <2> QED
    BY <1>4, <1>10, <2>1 DEF StateIsAsRead, WindowIsAsRead
<1>11. ASSUME LoadAttempt(c) PROVE StateIsAsRead(c)' /\ WindowIsAsRead(c)'
  BY <1>6, <1>10, <1>11 DEF LoadAttempt
<1>12. ASSUME SizeReservation(c), ~Return(c) PROVE StateIsAsRead(c)' /\ WindowIsAsRead(c)'
  <2>1. ctl[c].pc = "reserve" /\ ctl'[c].pc = "consume" /\ ctl'[c].req = ctl[c].req
    BY <1>1, <1>12 DEF SizeReservation, Locals
  <2> QED
    BY <1>4, <2>1 DEF AloneInvariant, StateIsAsRead, WindowIsAsRead
<1>13. ASSUME InvokeWorker(c) PROVE StateIsAsRead(c)' /\ WindowIsAsRead(c)'
  BY <1>10, <1>13 DEF InvokeWorker, AloneInvariant, StateIsAsRead
<1>14. ASSUME RejectIngestion(c) PROVE StateIsAsRead(c)' /\ WindowIsAsRead(c)'
  BY <1>10, <1>14 DEF RejectIngestion, AloneInvariant, StateIsAsRead
<1> QED
  BY <1>3, <1>5, <1>6, <1>7, <1>8, <1>9, <1>11, <1>12, <1>13, <1>14
     DEF CommitRefusal, DenyDispatch, Ingest, Crash

\* Steps that move an attempt that exists already.
LEMMA AloneOutcomeSteps ==
    ASSUME NEW c \in Controllers, AloneInvariant(c),
           MarkUnknown(c) \/ CommitDispatch(c) \/ RecordOutcome(c) \/ FailAttempt(c)
    PROVE  /\ StateIsAsRead(c)' /\ WindowIsAsRead(c)' /\ RollingWindow'
           /\ [\A r \in Requests :
                  attState[r] \in Outcomes /\ attState'[r] # attState[r] =>
                      attState[r] = "COMPLETED" /\ attState'[r] = "FAILED"]_vars
<1> DEFINE r == ctl[c].req
<1>1. /\ ctl \in [Controllers -> Locals] /\ ctl[c] \in Locals
      /\ attState \in [Requests -> AttemptStates]
  BY DEF AloneInvariant, DispatchInvariant, TypeOK
<1>2. PICK state : attState' = [attState EXCEPT ![r] = state] /\ attAt' = attAt
                   /\ clock' = clock /\ state # "NONE"
                   /\ (CommitDispatch(c) => state = "DISPATCHING")
                   /\ (FailAttempt(c) => state = "FAILED")
                   /\ (RecordOutcome(c) =>
                         ctl'[c].pc \in {"idle"} \/ (ctl'[c].pc = "ingest" /\ state = "COMPLETED"))
  <2>1. CASE MarkUnknown(c)
    BY <2>1 DEF MarkUnknown, CommitDispatch, FailAttempt, RecordOutcome
  <2>2. CASE CommitDispatch(c)
    BY <2>2 DEF MarkUnknown, CommitDispatch, FailAttempt, RecordOutcome
  <2>3. CASE FailAttempt(c)
    BY <2>3 DEF MarkUnknown, CommitDispatch, FailAttempt, RecordOutcome
  <2>4. CASE RecordOutcome(c)
    <3>1. PICK i \in Invocations :
              /\ attState' = [attState EXCEPT ![r] = ClassifyInvocation(i).attempt]
              /\ IF i.status = "COMPLETED"
                 THEN ctl' = [ctl EXCEPT ![c].pc = "ingest", ![c].result = i.result]
                 ELSE Return(c)
      BY <2>4 DEF RecordOutcome
    <3>2. ClassifyInvocation(i).attempt \in Outcomes
      BY OutcomeType
    <3>3. i.status = "COMPLETED" => ClassifyInvocation(i).attempt = "COMPLETED"
      BY DEF ClassifyInvocation, ClassifyResult, Outcome, Invocations, ResultStatuses
    <3>4. \/ ctl'[c].pc = "idle"
          \/ ctl'[c].pc = "ingest" /\ i.status = "COMPLETED"
      BY <1>1, <3>1 DEF Return, Idle, Locals
    <3> QED
      BY <2>4, <3>1, <3>2, <3>3, <3>4
         DEF MarkUnknown, CommitDispatch, FailAttempt, RecordOutcome, Outcomes
  <2> QED
    BY <2>1, <2>2, <2>3, <2>4
<1>3. /\ r \in Requests /\ attState[r] # "NONE"
      /\ MarkUnknown(c) \/ RecordOutcome(c) => attState[r] = "DISPATCHING"
      /\ CommitDispatch(c) => attState[r] = "AUTHORIZED"
      /\ FailAttempt(c) => attState[r] = "COMPLETED"
  BY DEF AloneInvariant, StateIsAsRead, DispatchInvariant, LocalsMatchRows, LocalMatchesRows,
         MarkUnknown, CommitDispatch, RecordOutcome, FailAttempt, Dispatching, Dispatched,
         Started
<1>4. Authorized' = Authorized
  BY <1>1, <1>2, <1>3 DEF Authorized
<1>5. RollingWindow'
  BY <1>2, <1>4, WindowsKept DEF AloneInvariant
<1>6. \/ ctl'[c].pc = "idle"
      \/ ctl'[c].pc = "invoke" /\ ctl'[c].req = r /\ CommitDispatch(c)
      \/ ctl'[c].pc = "ingest" /\ ctl'[c].req = r /\ RecordOutcome(c)
  BY <1>1 DEF MarkUnknown, CommitDispatch, RecordOutcome, FailAttempt, Return, Goto, Idle, Locals
<1>7. StateIsAsRead(c)'
  BY <1>1, <1>2, <1>3, <1>6 DEF StateIsAsRead
<1>8. WindowIsAsRead(c)'
  BY <1>2, <1>4, <1>6 DEF AloneInvariant, WindowIsAsRead
<1>9. \A q \in Requests :
          attState[q] \in Outcomes /\ attState'[q] # attState[q] =>
              attState[q] = "COMPLETED" /\ attState'[q] = "FAILED"
  BY <1>1, <1>2, <1>3 DEF Outcomes
<1> QED
  BY <1>5, <1>7, <1>8, <1>9

\* The attempts that a window which ends at t holds.
SeenIn(times, t) == {r \in DOMAIN times : InWindow(RateLimit, times[r], t)}

\* A new attempt fits every window: at its own time the window was checked,
\* earlier windows do not see it, and later ones see no more than that one.
LEMMA WindowGrows ==
    ASSUME RateLimit # Missing, NEW times, NEW now \in Nat, NEW r,
           IsFiniteSet(DOMAIN times),
           \A a \in DOMAIN times : times[a] \in Nat /\ times[a] <= now,
           CheckRateLimit(RateLimit, times, now).ok,
           NEW later, DOMAIN later = DOMAIN times \cup {r}, r \notin DOMAIN times,
           \A a \in DOMAIN times : later[a] = times[a],
           later[r] = now,
           NEW t \in Nat, Cardinality(SeenIn(times, t)) <= RateLimit.max_requests
    PROVE  Cardinality(SeenIn(later, t)) <= RateLimit.max_requests
<1>0. RateLimit.max_requests \in Nat /\ RateLimit.window \in Nat
  BY RateLimitAssumption
<1>1. SeenIn(times, now) \subseteq DOMAIN times
  BY DEF SeenIn
<1>2. IsFiniteSet(SeenIn(times, now)) /\ Cardinality(SeenIn(times, now)) \in Nat
  BY <1>1, FS_Subset, FS_CardinalityType
<1>3. Cardinality(SeenIn(times, now)) < RateLimit.max_requests
  <2>1. ~ Cardinality(SeenIn(times, now)) >= RateLimit.max_requests
    BY DEF CheckRateLimit, Refuse, SeenIn
  <2> QED
    BY <2>1, <1>0, <1>2
<1>4. CASE t < now
  <2>1. ~InWindow(RateLimit, later[r], t)
    BY <1>4 DEF InWindow
  <2>2. SeenIn(later, t) = SeenIn(times, t)
    BY <2>1 DEF SeenIn
  <2> QED
    BY <2>2
<1>5. CASE t >= now
  <2>1. SeenIn(later, t) \subseteq SeenIn(times, now) \cup {r}
    <3>1. ASSUME NEW a \in SeenIn(later, t), a # r PROVE a \in SeenIn(times, now)
      <4>1. a \in DOMAIN times /\ times[a] \in Nat /\ times[a] <= now
        BY <3>1 DEF SeenIn
      <4>2. t - RateLimit.window < times[a]
        BY <3>1, <4>1 DEF InWindow, SeenIn
      <4>3. now - RateLimit.window < times[a]
        BY <4>1, <4>2, <1>0, <1>5
      <4> QED
        BY <4>1, <4>3 DEF InWindow, SeenIn
    <3> QED
      BY <3>1
  <2>2. r \notin SeenIn(times, now)
    BY <1>1
  <2>3. /\ IsFiniteSet(SeenIn(times, now) \cup {r})
        /\ Cardinality(SeenIn(times, now) \cup {r}) = Cardinality(SeenIn(times, now)) + 1
    BY <1>2, <2>2, FS_AddElement
  <2>4. /\ IsFiniteSet(SeenIn(later, t)) /\ Cardinality(SeenIn(later, t)) \in Nat
        /\ Cardinality(SeenIn(later, t)) <= Cardinality(SeenIn(times, now) \cup {r})
    BY <2>1, <2>3, FS_Subset, FS_CardinalityType
  <2> QED
    BY <1>0, <1>2, <1>3, <2>3, <2>4
<1> QED
  BY <1>4, <1>5

LEMMA AloneAllowStep ==
    ASSUME NEW c \in Controllers, AloneInvariant(c), CommitAllow(c)
    PROVE  /\ StateIsAsRead(c)' /\ WindowIsAsRead(c)' /\ RollingWindow'
           /\ \A r \in Requests : attState[r] \in Outcomes => attState'[r] = attState[r]
<1> DEFINE now == ctl[c].now
<1>1. /\ ctl \in [Controllers -> Locals] /\ ctl[c] \in Locals /\ clock \in Nat
      /\ attState \in [Requests -> AttemptStates] /\ attAt \in [Requests -> Nat]
  BY DEF AloneInvariant, DispatchInvariant, TypeOK
<1>2. PICK r \in Requests :
          /\ attState[r] = "NONE"
          /\ attState' = [attState EXCEPT ![r] = "AUTHORIZED"]
          /\ attAt' = [attAt EXCEPT ![r] = now]
          /\ ctl' = [ctl EXCEPT ![c] = [Idle EXCEPT !.pc = "dispatch", !.exp = ctl[c].exp,
                                                    !.req = r]]
  BY DEF CommitAllow
<1>3. /\ now \in Nat /\ clock' = clock /\ now <= clock
      /\ IsFiniteSet(Authorized) /\ \A a \in Authorized : attAt[a] <= now
      /\ ~RateLimited(c)
  BY <1>1 DEF CommitAllow, AloneInvariant, WindowIsAsRead, Locals
<1>4. Authorized' = Authorized \cup {r} /\ r \notin Authorized
  BY <1>1, <1>2 DEF Authorized
<1>5. StateIsAsRead(c)' /\ ctl'[c].pc = "dispatch"
  BY <1>1, <1>2 DEF StateIsAsRead, Idle
<1>6. WindowIsAsRead(c)'
  <2>1. IsFiniteSet(Authorized')
    BY <1>3, <1>4, FS_AddElement
  <2>2. \A a \in Authorized' : attAt'[a] <= clock'
    <3>1. \A a \in Authorized : attAt[a] <= clock
      BY DEF AloneInvariant, WindowIsAsRead
    <3>2. Authorized \subseteq Requests
      BY DEF Authorized
    <3> QED
      BY <1>1, <1>2, <1>3, <1>4, <3>1, <3>2
  <2> QED
    BY <1>5, <2>1, <2>2 DEF WindowIsAsRead
<1>7. RollingWindow'
  <2> SUFFICES ASSUME RateLimit # Missing, NEW t \in 0..MaxClock
               PROVE  Cardinality(SeenIn(AuthorizedTimes', t)) <= RateLimit.max_requests
    BY DEF RollingWindow, SeenIn
  <2>1. AuthorizedTimes = [a \in Authorized |-> attAt[a]]
    BY DEF AuthorizedTimes, Authorized
  <2>2. AuthorizedTimes' = [a \in Authorized' |-> attAt'[a]]
    BY DEF AuthorizedTimes, Authorized
  <2>3. CheckRateLimit(RateLimit, AuthorizedTimes, now).ok
    BY <1>3 DEF RateLimited
  <2>4. Cardinality(SeenIn(AuthorizedTimes, t)) <= RateLimit.max_requests
    BY DEF AloneInvariant, RollingWindow, SeenIn
  <2>5. \A a \in DOMAIN AuthorizedTimes :
            AuthorizedTimes[a] \in Nat /\ AuthorizedTimes[a] <= now
    BY <1>1, <1>3, <2>1 DEF Authorized
  <2>6. /\ DOMAIN AuthorizedTimes = Authorized
        /\ DOMAIN AuthorizedTimes' = DOMAIN AuthorizedTimes \cup {r}
        /\ r \notin DOMAIN AuthorizedTimes
        /\ \A a \in DOMAIN AuthorizedTimes : AuthorizedTimes'[a] = AuthorizedTimes[a]
        /\ AuthorizedTimes'[r] = now
    BY <1>1, <1>2, <1>4, <2>1, <2>2 DEF Authorized
  <2>7. t \in Nat
    OBVIOUS
  <2> QED
    BY <1>3, <2>3, <2>4, <2>5, <2>6, <2>7, WindowGrows
<1>8. \A q \in Requests : attState[q] \in Outcomes => attState'[q] = attState[q]
  BY <1>1, <1>2 DEF Outcomes
<1> QED
  BY <1>5, <1>6, <1>7, <1>8

LEMMA AloneStep ==
    ASSUME NEW c, Controllers = {c}, AloneInvariant(c), [Next]_vars
    PROVE  /\ AloneInvariant(c)'
           /\ [\A r \in Requests :
                  attState[r] \in Outcomes /\ attState'[r] # attState[r] =>
                      attState[r] = "COMPLETED" /\ attState'[r] = "FAILED"]_vars
<1> DEFINE Kept == StateIsAsRead(c)' /\ WindowIsAsRead(c)' /\ RollingWindow'
           Final == \A r \in Requests :
                        attState[r] \in Outcomes /\ attState'[r] # attState[r] =>
                            attState[r] = "COMPLETED" /\ attState'[r] = "FAILED"
<1>1. DispatchInvariant'
  BY NextInvariant DEF AloneInvariant
<1>2. CASE ControllerStep(c) \/ Crash(c)
  <2>1. CASE MarkUnknown(c) \/ CommitDispatch(c) \/ RecordOutcome(c) \/ FailAttempt(c)
    BY <1>1, <2>1, AloneOutcomeSteps DEF AloneInvariant
  <2>2. CASE CommitAllow(c)
    BY <1>1, <2>2, AloneAllowStep DEF AloneInvariant
  <2>3. CASE \/ \E e \in Experiments : StartExecute(c, e)
             \/ LoadContext(c) \/ DecideExecution(c) \/ CommitRefusal(c)
             \/ ResumeAuthorized(c) \/ LoadAttempt(c) \/ SizeReservation(c)
             \/ DenyDispatch(c) \/ InvokeWorker(c) \/ Ingest(c) \/ RejectIngestion(c)
             \/ Crash(c)
    <3>1. UNCHANGED <<attState, attAt, clock>>
      BY <2>3 DEF StartExecute, LoadContext, DecideExecution, CommitRefusal, ResumeAuthorized,
                  LoadAttempt, SizeReservation, DenyDispatch, InvokeWorker, Ingest,
                  RejectIngestion, Crash, rows
    <3>2. Kept
      BY <2>3, <3>1, AloneLocalSteps
    <3> QED
      BY <1>1, <3>1, <3>2 DEF AloneInvariant
  <2> QED
    BY <1>2, <2>1, <2>2, <2>3 DEF ControllerStep
<1>3. CASE SourceLapses \/ Tick \/ UNCHANGED vars
  <2>1. UNCHANGED <<attState, attAt, ctl>> /\ (clock' = clock \/ clock' = clock + 1)
    BY <1>3 DEF SourceLapses, Tick, vars, rows
  <2>2. Authorized' = Authorized
    BY <2>1 DEF Authorized
  <2>3. RollingWindow' /\ AuthorizedTimes' = AuthorizedTimes
    BY <2>1, <2>2, WindowsKept DEF AloneInvariant
  <2>4. RateLimited(c)' <=> RateLimited(c)
    BY <2>1, <2>3 DEF RateLimited
  <2>5. StateIsAsRead(c)'
    BY <2>1 DEF AloneInvariant, StateIsAsRead
  <2>6. WindowIsAsRead(c)'
    <3>1. /\ clock \in Nat /\ ctl[c].now \in Nat
          /\ \A r \in Authorized : attAt[r] \in Nat
      BY DEF AloneInvariant, DispatchInvariant, TypeOK, Locals, Authorized
    <3>2. \A r \in Authorized : attAt[r] <= clock'
      BY <2>1, <3>1 DEF AloneInvariant, WindowIsAsRead
    <3>3. ctl[c].now <= clock => ctl[c].now <= clock'
      BY <2>1, <3>1
    <3> QED
      BY <2>1, <2>2, <2>4, <3>2, <3>3 DEF AloneInvariant, WindowIsAsRead
  <2> QED
    BY <1>1, <2>1, <2>3, <2>5, <2>6 DEF AloneInvariant
<1> QED
  BY <1>2, <1>3 DEF Next, Acting

LEMMA AloneInit == ASSUME NEW c, Controllers = {c}, Init PROVE AloneInvariant(c)
<1>1. DispatchInvariant
  BY InitInvariant
<1>2. ctl[c].pc = "idle"
  BY DEF Init, Idle
<1>3. Authorized = {}
  BY DEF Init, Authorized
<1>4. StateIsAsRead(c) /\ WindowIsAsRead(c)
  BY <1>2, <1>3, FS_EmptySet DEF StateIsAsRead, WindowIsAsRead
<1>5. RollingWindow
  <2>1. DOMAIN AuthorizedTimes = {}
    BY <1>3 DEF AuthorizedTimes, Authorized
  <2>2. RateLimit # Missing => RateLimit.max_requests \in Nat
    BY RateLimitAssumption
  <2>3. \A t : {r \in DOMAIN AuthorizedTimes :
                   InWindow(RateLimit, AuthorizedTimes[r], t)} = {}
    BY <2>1
  <2> QED
    BY <2>2, <2>3, FS_EmptySet DEF RollingWindow
<1> QED
  BY <1>1, <1>4, <1>5 DEF AloneInvariant

(***************************************************************************)
(* One controller on the run, whatever it crashes into and resumes, keeps  *)
(* every rolling window of the rate-limit profile within its allowance.    *)
(***************************************************************************)
THEOREM WindowTheorem ==
    ASSUME NEW c, Controllers = {c}
    PROVE  Spec => []RollingWindow
<1>1. Init => AloneInvariant(c)
  BY AloneInit
<1>2. AloneInvariant(c) /\ [Next]_vars => AloneInvariant(c)'
  BY AloneStep
<1>3. AloneInvariant(c) => RollingWindow
  BY DEF AloneInvariant
<1> QED
  BY <1>1, <1>2, <1>3, PTL DEF Spec

(***************************************************************************)
(* One controller on the run never takes a recorded outcome back, except   *)
(* that a rejected ingestion turns COMPLETED into FAILED.                  *)
(***************************************************************************)
THEOREM FinalTheorem ==
    ASSUME NEW c, Controllers = {c}
    PROVE  Spec => OutcomeIsFinal
<1>1. Init => AloneInvariant(c)
  BY AloneInit
<1>2. AloneInvariant(c) /\ [Next]_vars => AloneInvariant(c)'
  BY AloneStep
<1>3. AloneInvariant(c) /\ [Next]_vars =>
          [\A r \in Requests :
              attState[r] \in Outcomes /\ attState'[r] # attState[r] =>
                  attState[r] = "COMPLETED" /\ attState'[r] = "FAILED"]_vars
  BY AloneStep
<1> QED
  BY <1>1, <1>2, <1>3, PTL DEF Spec, OutcomeIsFinal
=============================================================================
