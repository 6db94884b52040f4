--------------------------- MODULE RuntimeRouting ---------------------------
(***************************************************************************)
(* How a runtime is chosen for a reasoning role and how, after a call that *)
(* failed, another one is.  An operator holds one routing request; each    *)
(* decision is an audited answer of SelectResearchRuntime.                 *)
(***************************************************************************)
EXTENDS ModelRuntimes

CONSTANT RoutingRequests        \* the requests an operator may make

\* Candidates and preferences come in order, no counter is negative, and an
\* identity or a reason is not None.
ASSUME RoutingAssumption ==
    /\ None \notin RoutingRequests
    /\ None \notin {"STRIX_IS_NOT_MODEL_RUNTIME", "ALREADY_ATTEMPTED"}
    /\ \A request \in RoutingRequests :
          /\ DOMAIN request = {"candidates", "class", "structured", "local", "allow_agent",
                "prohibited", "preference", "ask_on_tie", "attempted", "attempts", "fallbacks",
                "max_attempts", "max_fallbacks", "task", "escalation"}
          /\ request.candidates \in Seq(ToSet(request.candidates))
          /\ request.preference \in Seq(ToSet(request.preference))
          /\ {request.attempts, request.fallbacks, request.max_attempts,
               request.max_fallbacks} \subseteq Nat
          /\ \A c \in ToSet(request.candidates) : c.identity # None

VARIABLES routing,    \* the request, None before it is made
          decision,   \* the last decision, None before the first
          called      \* the calls of selected runtimes: [identity, outcome], oldest first

routingVars == <<routing, decision, called>>

AdapterOrder == <<"anthropic", CliAdapter, "external.agent.contract", "gemini",
                  "local.model.contract", "openai">>
NotObserved == [key |-> 0, latency |-> None, cost |-> None]

\* RuntimeQualityObservation, key being the rank of its four counts.
QualityOf(candidate) == IF candidate.quality = None THEN NotObserved ELSE candidate.quality

CapabilityUnrestricted(capabilities) == capabilities \cap UnrestrictedMarkers # {}

\* _hard_filter: the first reason against a candidate, None when there is none.
HardFilter(c, request) ==
    LET agent == c.identity.class = Agent
        \* why an agent may not reason for this request
        AgentReason ==
            IF ~request.allow_agent \/ request.class = Inference
            THEN "AGENT_NOT_PERMITTED_FOR_INFERENCE_ROLE"
            ELSE IF c.capabilities = {} THEN "CAPABILITY_EXPOSURE_TOO_BROAD"
            ELSE IF CapabilityUnrestricted(c.capabilities \cup c.side_effects)
                 THEN "UNRESTRICTED_CAPABILITY"
            ELSE IF c.side_effects # {} THEN "SIDE_EFFECT_CAPABILITY_ON_REASONING_PATH"
            ELSE None
        ClassReason ==
            IF agent THEN AgentReason
            ELSE IF c.identity.class # request.class THEN "WRONG_RUNTIME_CLASS"
            ELSE IF CapabilityUnrestricted(c.capabilities) THEN "UNRESTRICTED_CAPABILITY"
            ELSE None
    IN CASE c.strix -> "STRIX_IS_NOT_MODEL_RUNTIME"
         [] ~c.strix /\ c.identity.adapter \in request.attempted -> "ALREADY_ATTEMPTED"
         [] OTHER ->
               IF c.prohibited \/ c.identity.adapter \in request.prohibited
               THEN "OPERATOR_PROHIBITED"
               ELSE IF ~c.available THEN "UNAVAILABLE"
               ELSE IF ~c.authenticated THEN "MISSING_AUTHENTICATION"
               ELSE IF request.local /\ ~c.local THEN "LOCALITY_MISMATCH"
               ELSE IF ClassReason # None THEN ClassReason
               ELSE IF request.structured /\ ~c.structured THEN "MISSING_STRUCTURED_OUTPUT"
               ELSE None

\* The first of latency and cost that both candidates have and that differ.
Measured(l, r, field) == l[field] # None /\ r[field] # None /\ l[field] # r[field]

\* _quality_better(left, right) < 0.
QualityBetter(left, right) ==
    LET l == QualityOf(left)
        r == QualityOf(right)
        index(c) == CHOOSE i \in DOMAIN AdapterOrder : AdapterOrder[i] = c.identity.adapter
    IN CASE l.key # r.key -> l.key < r.key
         [] l.key = r.key /\ Measured(l, r, "latency") -> l.latency < r.latency
         [] OTHER -> IF Measured(l, r, "cost") THEN l.cost < r.cost
                     ELSE index(left) < index(right)

QualityEqual(left, right) ==
    LET l == QualityOf(left)
        r == QualityOf(right)
    IN l.key = r.key /\ ~Measured(l, r, "latency") /\ ~Measured(l, r, "cost")

\* sorted() of a short list: the run it starts with (turned round when it descends),
\* then each element goes, by halving, among those before it.  QualityBetter is no
\* strict weak order (a latency may be missing), so which element comes out first
\* depends on the comparisons made.
Halve(sorted, x) ==
    LET bounds[n \in 0..Len(sorted)] ==
            IF n = 0 THEN <<0, Len(sorted)>>
            ELSE LET l == bounds[n - 1][1]
                     r == bounds[n - 1][2]
                     middle == (l + r) \div 2
                 IN IF l >= r THEN <<l, r>>
                    ELSE IF QualityBetter(x, sorted[middle + 1]) THEN <<l, middle>>
                    ELSE <<middle + 1, r>>
    IN InsertAt(sorted, bounds[Len(sorted)][1] + 1, x)

Ranked(candidates) ==
    LET falls(i) == QualityBetter(candidates[i + 1], candidates[i])
        down == Len(candidates) > 1 /\ falls(1)
        run == Max({n \in 1..Len(candidates) : \A i \in 1..(n - 1) : falls(i) = down})
        start == SubSeq(candidates, 1, run)
        sorted[n \in run..Len(candidates)] ==
            IF n = run THEN (IF down THEN Reverse(start) ELSE start)
            ELSE Halve(sorted[n - 1], candidates[n])
    IN sorted[Len(candidates)]

\* TASK_PRICE_CLASS_POLICY and _desired_price_class.
DesiredPriceClass(request) ==
    IF request.escalation \/ request.task = "finding_proposal_qa" THEN Expensive ELSE Cheap

Decision(outcome, request, reasons, selected, attempts) ==
    [outcome |-> outcome, reasons |-> reasons, selected |-> selected,
     attempted |-> request.attempted, attempts |-> attempts,
     fallbacks |-> request.fallbacks]

Refuse(outcome, request, reasons) ==
    Decision(outcome, request, reasons, None, request.attempts)

\* The SELECT decision; the price reason tells why the class was wanted.
Choose(candidate, request, how) ==
    Decision("SELECT", request,
             {"SELECTED_AFTER_HARD_FILTERS", how,
              IF request.escalation THEN "ESCALATION_REQUIRED"
              ELSE IF DesiredPriceClass(request) = Expensive THEN "EXPENSIVE_CLASS_SELECTED"
              ELSE "CHEAP_CLASS_SELECTED"},
             candidate.identity, request.attempts + 1)

\* The candidates at some positions, in their order.
Among(candidates, positions) ==
    LET nth(i) == CHOOSE k \in positions : Cardinality({j \in positions : j <= k}) = i
    IN [i \in 1..Cardinality(positions) |-> candidates[nth(i)]]

\* The preference among the candidates that passed every filter: the operator's order,
\* where an adapter named twice has its last place, then the quality order, where a
\* tie is the operator's to break.
Prefer(survivors, request) ==
    LET places(k) == {i \in DOMAIN request.preference :
                         request.preference[i] = survivors[k].identity.adapter}
        preferred == {k \in DOMAIN survivors : places(k) # {}}
        first == Min({Max(places(k)) : k \in preferred})
        ranked == Ranked(survivors)
        tied == {c \in ToSet(ranked) : /\ c.identity.adapter # ranked[1].identity.adapter
                                       /\ QualityEqual(c, ranked[1])}
    IN CASE preferred # {} ->
               Choose(survivors[Min({k \in preferred : Max(places(k)) = first})],
                      request, "SELECTED_BY_OPERATOR_ORDER")
         [] preferred = {} /\ tied # {} /\ request.ask_on_tie ->
               Refuse("REQUIRE_OPERATOR_SELECTION", request, {"TIE_REQUIRES_OPERATOR"})
         [] OTHER -> Choose(ranked[1], request, "SELECTED_BY_QUALITY_ORDER")

SelectRuntime(request) ==
    LET reasons == {HardFilter(c, request) : c \in ToSet(request.candidates)}
        survivors == Among(request.candidates,
                           {k \in DOMAIN request.candidates :
                               HardFilter(request.candidates[k], request) = None})
        priced == Among(survivors,
                        {k \in DOMAIN survivors :
                            survivors[k].identity.price = DesiredPriceClass(request)})
    IN CASE request.max_attempts = 0 ->
               Refuse("UNAVAILABLE", request, {"ZERO_RUNTIME_ALLOWANCE"})
         [] request.max_attempts # 0 /\ request.attempts >= request.max_attempts ->
               Refuse("UNAVAILABLE", request, {"ATTEMPT_BUDGET_EXHAUSTED"})
         [] OTHER ->
               IF request.candidates = <<>>
               THEN Refuse("NO_COMPATIBLE_RUNTIME", request, {"NO_CANDIDATES"})
               ELSE IF request.task = "monitoring"
               THEN Refuse("BLOCKED_POLICY", request, {"MONITORING_CLASS_DISABLED"})
               ELSE IF survivors = <<>>
               THEN Refuse(IF reasons = {"UNAVAILABLE"} THEN "UNAVAILABLE"
                           ELSE "NO_COMPATIBLE_RUNTIME", request, reasons)
               ELSE IF priced = <<>>
               THEN Refuse(IF DesiredPriceClass(request) = Expensive THEN "BLOCKED_POLICY"
                           ELSE "NO_COMPATIBLE_RUNTIME", request, {"WRONG_RUNTIME_CLASS"})
               ELSE Prefer(priced, request)

\* Mutant: the runtime that failed may be selected again.
RetryAny(request, previous, fallbacks, escalation) ==
    [request EXCEPT !.attempts = previous.attempts, !.fallbacks = fallbacks,
                    !.escalation = escalation]

\* The request of the next attempt.
Retry(request, previous, fallbacks, escalation) ==
    [request EXCEPT !.attempted =
                        previous.attempted
                        \cup IF previous.selected = None THEN {}
                             ELSE {previous.selected.adapter},
                    !.attempts = previous.attempts,
                    !.fallbacks = fallbacks,
                    !.escalation = escalation]

ReconsiderRuntime(request, previous, outcome) ==
    LET stopped == Retry(request, previous, previous.fallbacks, request.escalation)
        \* without an allowance the decision keeps the ids of the request itself
        refused(reason) == Refuse("UNAVAILABLE",
                                  [stopped EXCEPT !.attempted = request.attempted], {reason})
    IN CASE outcome = "CONTENT_POLICY_BLOCKED" ->
               Refuse("BLOCKED_POLICY", stopped, {"CONTENT_POLICY_BLOCK_NO_BYPASS"})
         [] outcome = "ESCALATION_NEEDED" ->
               SelectRuntime([stopped EXCEPT !.escalation = TRUE])
         [] OTHER ->
               IF request.max_fallbacks = 0 THEN refused("ZERO_FALLBACK_ALLOWANCE")
               ELSE IF previous.fallbacks >= request.max_fallbacks
               THEN refused("FALLBACK_EXHAUSTED")
               ELSE SelectRuntime([stopped EXCEPT !.fallbacks = @ + 1])

-----------------------------------------------------------------------------
RoutingInit ==
    /\ routing = None
    /\ decision = None
    /\ called = <<>>

\* SelectResearchRuntime.execute.
SelectResearchRuntime(request) ==
    /\ routing = None
    /\ routing' = request
    /\ decision' = SelectRuntime(request)
    /\ UNCHANGED called

\* The call of the selected runtime, and SelectResearchRuntime.reconsider after it.
Reconsider(outcome) ==
    /\ decision # None
    /\ decision.outcome = "SELECT"
    /\ outcome # "COMPLETED"
    /\ called' = Append(called, [identity |-> decision.selected, outcome |-> outcome])
    /\ decision' = ReconsiderRuntime(routing, decision, outcome)
    /\ UNCHANGED routing

RoutingNext ==
    \/ \E request \in RoutingRequests : SelectResearchRuntime(request)
    \/ \E outcome \in RuntimeOutcomes : Reconsider(outcome)

RoutingSpec == RoutingInit /\ [][RoutingNext]_routingVars

-----------------------------------------------------------------------------
\* However a chain of failed calls goes: no runtime is selected again, the selections
\* and the fallbacks among them stay in the request's allowance, nothing follows a
\* refusal by a provider's safeguard, and an expensive runtime is only ever selected
\* for a task that is, or right after a call that asked for it (reconsider_runtime).
FallbackBounded ==
    decision # None =>
    LET chosen == [i \in DOMAIN called |-> called[i].identity]
                  \o IF decision.outcome = "SELECT" THEN <<decision.selected>> ELSE <<>>
        fallback == {i \in 1..(Len(chosen) - 1) : called[i].outcome # "ESCALATION_NEEDED"}
    IN /\ \A i, j \in DOMAIN chosen : i # j => chosen[i].adapter # chosen[j].adapter
       /\ Len(chosen) <= routing.max_attempts
       /\ Cardinality(fallback) <= routing.max_fallbacks
       /\ \A i \in 1..(Len(chosen) - 1) : called[i].outcome # "CONTENT_POLICY_BLOCKED"
       /\ \A i \in DOMAIN chosen :
             chosen[i].price = Expensive =>
                 \/ routing.escalation \/ routing.task = "finding_proposal_qa"
                 \/ i > 1 /\ called[i - 1].outcome = "ESCALATION_NEEDED"
=============================================================================
