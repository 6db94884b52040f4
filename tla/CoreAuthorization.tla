-------------------------- MODULE CoreAuthorization --------------------------
(***************************************************************************)
(* The pure authorization decision of src/src/research_os/core: which      *)
(* checks evaluate_execution makes, in which order, and what each of them  *)
(* answers.  Nothing here has state.  A check is a record                  *)
(* [ok |-> BOOLEAN, reason |-> ReasonCode]; a decision is a record         *)
(* [decision |-> ..., reason |-> ...].                                     *)
(*                                                                         *)
(* Identifiers (rule ids, approval ids) are carried by the code for the    *)
(* audit trail and never read by a check, so they are left out.            *)
(***************************************************************************)
EXTENDS Integers, FiniteSets

CONSTANTS
    WorkerRegistry,       \* capability id -> definition, the Tools registry
    IntegrationAllowlist  \* <<capability id, action>> -> side-effect bounds

Missing == [missing |-> TRUE]   \* Python's None for an optional record

Levels       == 0..3
SourceStates == {"ACTIVE", "EXPIRED", "REVOKED"}
RuleEffects  == {"ALLOW", "DENY", "OUT_OF_SCOPE", "UNKNOWN"}
ActorTypes   == {"HUMAN_OPERATOR", "CONTROL_PLANE", "WORKER", "INTEGRATION"}
Kinds        == {"ALLOW", "DENY", "REQUIRE_HUMAN_REVIEW"}

\* The ReasonCodes of the checks below.
ReasonCodes ==
    {"ALLOWED", "CAPABILITY_AUTHORIZATION_MISSING", "UNKNOWN_CAPABILITY", "UNKNOWN_ACTION",
     "UNSUPPORTED_CAPABILITY_VERSION", "DEFINITION_FINGERPRINT_MISMATCH",
     "RISK_UNDERSTATEMENT", "RISK_EXCEEDS_CAPABILITY", "SIDE_EFFECT_BINDING_MISMATCH",
     "AUTHORIZATION_MISSING", "AUTHORIZATION_INACTIVE", "SCOPE_DENIED", "SCOPE_AMBIGUOUS",
     "SCOPE_UNKNOWN_CLASSIFICATION", "SCOPE_NOT_EXPLICITLY_ALLOWED", "BUDGET_MISMATCH",
     "BUDGET_EXHAUSTED", "SIDE_EFFECT_LEVEL_DENIED", "APPROVAL_REQUIRED",
     "APPROVAL_NOT_RECORDED", "APPROVAL_INVALID_ACTOR", "APPROVAL_SUBJECT_MISMATCH",
     "APPROVAL_REJECTED", "RATE_LIMIT_DENIED", "SCHEMA_MISMATCH"}

Pass         == [ok |-> TRUE, reason |-> "ALLOWED"]
Decide(kind, why) == [decision |-> kind, reason |-> why]
Refuse(why)  == [ok |-> FALSE, reason |-> why]

-----------------------------------------------------------------------------
(* Capability: the view is a claim, the registry is the policy.            *)

\* Both the Worker branch and the integration branch bound the claimed risk
\* by the catalogued one, and bind it to the level of the request.
CheckRisk(view, level, bounds) ==
    CASE view.authoritative_minimum # bounds.minimum -> Refuse("RISK_UNDERSTATEMENT")
      [] view.effective < bounds.minimum -> Refuse("RISK_UNDERSTATEMENT")
      [] view.effective > bounds.maximum -> Refuse("RISK_EXCEEDS_CAPABILITY")
      [] level # view.effective -> Refuse("SIDE_EFFECT_BINDING_MISMATCH")
      [] OTHER -> Pass

CheckIntegrationAllowlist(view, level) ==
    IF <<view.capability, view.action>> \in DOMAIN IntegrationAllowlist
    THEN CheckRisk(view, level, IntegrationAllowlist[<<view.capability, view.action>>])
    ELSE IF \E entry \in DOMAIN IntegrationAllowlist : entry[1] = view.capability
         THEN Refuse("UNKNOWN_ACTION")
         ELSE Refuse("UNKNOWN_CAPABILITY")

CheckWorkerDefinition(view, level, definition) ==
    IF definition.executor # "WORKER" THEN Refuse("UNKNOWN_CAPABILITY")
    ELSE IF view.action \notin DOMAIN definition.actions THEN Refuse("UNKNOWN_ACTION")
    ELSE IF view.version # definition.version THEN Refuse("UNSUPPORTED_CAPABILITY_VERSION")
    ELSE IF view.fingerprint # definition.fingerprint
         THEN Refuse("DEFINITION_FINGERPRINT_MISMATCH")
    ELSE CheckRisk(view, level, definition.actions[view.action])

CheckCapabilityAuthorization(view, level) ==
    IF view = Missing THEN Refuse("CAPABILITY_AUTHORIZATION_MISSING")
    ELSE IF view.capability \in DOMAIN WorkerRegistry
         THEN CheckWorkerDefinition(view, level, WorkerRegistry[view.capability])
         ELSE CheckIntegrationAllowlist(view, level)

-----------------------------------------------------------------------------
(* Authorization source, scope, budget and approval.                       *)

CheckAuthorization(source) ==
    IF source = Missing THEN Refuse("AUTHORIZATION_MISSING")
    ELSE IF source.state # "ACTIVE" THEN Refuse("AUTHORIZATION_INACTIVE")
    ELSE Pass

\* Mutant: any further matched rule lifts the doubt about an ambiguous scope.
CheckScopeUnknownSettles(scope) ==
    IF scope.matched \cap {"DENY", "OUT_OF_SCOPE"} # {}
    THEN Decide("DENY", "SCOPE_DENIED")
    ELSE IF scope.ambiguous /\ "UNKNOWN" \notin scope.matched
    THEN Decide("REQUIRE_HUMAN_REVIEW", "SCOPE_AMBIGUOUS")
    ELSE IF "ALLOW" \in scope.matched THEN Decide("ALLOW", "ALLOWED")
    ELSE Decide("DENY", "SCOPE_UNKNOWN_CLASSIFICATION")

\* scope.matched holds the effects of the rules whose "matched" flag is set.
CheckScope(scope) ==
    IF scope.matched \cap {"DENY", "OUT_OF_SCOPE"} # {}
    THEN Decide("DENY", "SCOPE_DENIED")
    ELSE IF scope.ambiguous THEN Decide("REQUIRE_HUMAN_REVIEW", "SCOPE_AMBIGUOUS")
    ELSE IF "ALLOW" \in scope.matched THEN Decide("ALLOW", "ALLOWED")
    ELSE IF "UNKNOWN" \in scope.matched THEN Decide("DENY", "SCOPE_UNKNOWN_CLASSIFICATION")
    ELSE Decide("DENY", "SCOPE_NOT_EXPLICITLY_ALLOWED")

BudgetFields == {"requests", "tool_calls", "runtime_ms", "concurrency"}

\* Mutant: exhausted only when the maximum is passed.
CheckBudgetPassed(issued, usage, requested_budget) ==
    IF requested_budget # issued.budget THEN Refuse("BUDGET_MISMATCH")
    ELSE IF \E f \in BudgetFields : usage[f] > issued.max[f] THEN Refuse("BUDGET_EXHAUSTED")
    ELSE Pass

\* Exhausted as soon as one usage has reached its maximum: 0 is not unlimited.
CheckBudget(issued, usage, requested_budget) ==
    IF requested_budget # issued.budget THEN Refuse("BUDGET_MISMATCH")
    ELSE IF \E f \in BudgetFields : usage[f] >= issued.max[f] THEN Refuse("BUDGET_EXHAUSTED")
    ELSE Pass

CheckApproval(approval, subject) ==
    IF approval = Missing
    THEN [authorizes |-> FALSE, review |-> TRUE, reason |-> "APPROVAL_REQUIRED"]
    ELSE LET Denied(why) == [authorizes |-> FALSE, review |-> FALSE, reason |-> why] IN
         IF ~approval.recorded THEN Denied("APPROVAL_NOT_RECORDED")
         ELSE IF approval.actor_type # "HUMAN_OPERATOR" THEN Denied("APPROVAL_INVALID_ACTOR")
         ELSE IF approval.subject # subject THEN Denied("APPROVAL_SUBJECT_MISMATCH")
         ELSE IF approval.decision = "REJECT" THEN Denied("APPROVAL_REJECTED")
         ELSE [authorizes |-> TRUE, review |-> FALSE, reason |-> "ALLOWED"]

-----------------------------------------------------------------------------
(* The decision: capability, authorization, scope, budget, side effect,    *)
(* approval, in this order.                                                *)

\* The last three checks: side-effect level, scope review, approval.
DecideByLevel(level, scope, approval) ==
    IF level = 3 THEN Decide("DENY", "SIDE_EFFECT_LEVEL_DENIED")
    ELSE IF scope.decision = "REQUIRE_HUMAN_REVIEW" THEN scope
    ELSE IF level \in {0, 1} \/ approval.authorizes THEN Decide("ALLOW", "ALLOWED")
    ELSE Decide(IF approval.review THEN "REQUIRE_HUMAN_REVIEW" ELSE "DENY", approval.reason)

EvaluateExecution(request) ==
    LET capability == CheckCapabilityAuthorization(request.capability, request.level)
        auth       == CheckAuthorization(request.source)
        scope      == CheckScope(request.scope)
        budget     == CheckBudget(request.issued, request.usage, request.requested_budget)
    IN  IF ~capability.ok THEN Decide("DENY", capability.reason)
        ELSE IF ~auth.ok THEN Decide("DENY", auth.reason)
        ELSE IF scope.decision = "DENY" THEN Decide("DENY", scope.reason)
        ELSE IF ~budget.ok THEN Decide("DENY", budget.reason)
        ELSE DecideByLevel(request.level, scope,
                           CheckApproval(request.approval, request.subject))

-----------------------------------------------------------------------------
(* The rate limit of the program policy, a rolling window over the times   *)
(* at which attempts were authorized.                                      *)

InWindow(profile, t, now) == now - profile.window < t /\ t <= now

\* Mutant: one attempt more than the profile allows.
CheckRateLimitOffByOne(profile, attempt_times, now) ==
    IF \/ profile.max_requests = 0
       \/ profile.window = 0
       \/ Cardinality({a \in DOMAIN attempt_times :
                         InWindow(profile, attempt_times[a], now)}) > profile.max_requests
    THEN Refuse("RATE_LIMIT_DENIED")
    ELSE Pass

CheckRateLimit(profile, attempt_times, now) ==
    IF \/ profile.max_requests = 0
       \/ profile.window = 0
       \/ Cardinality({a \in DOMAIN attempt_times :
                         InWindow(profile, attempt_times[a], now)}) >= profile.max_requests
    THEN Refuse("RATE_LIMIT_DENIED")
    ELSE Pass
=============================================================================
