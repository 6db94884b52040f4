------------------------- MODULE HypothesisReasoning -------------------------
(***************************************************************************)
(* The reasoning half of a research cycle: the controller of a run asks a  *)
(* generator and a falsifier, pays for each call, and admits what they     *)
(* say as the run's next hypothesis, or not.  The runs of one program      *)
(* share its daily allowance.                                              *)
(*                                                                         *)
(* Of the other half, what becomes of the hypothesis is here: the plan,    *)
(* the resumption after a death, the end of the experiment.  Dispatch is   *)
(* the subject of Orchestration.  What the model port answers is a         *)
(* ModelCallResult of ModelRuntimes.                                       *)
(***************************************************************************)
EXTENDS ReasoningRules, RuntimeRouting

CONSTANTS
    ResearchRuns,
    UnderWay,          \* the sets of runs that may be under way; the others are over
    Policies,          \* what program_policies holds: None or [limit], limit None or a number
    Prices,            \* MODEL_PRICE_TABLE: model -> [in, out] for PerTokens tokens
    PerTokens,         \* 1 000 000 in the code
    ContextBudget,     \* the default ContextBudget: [observations, hypotheses, negatives, characters]
    StepRequests,      \* the routing requests a step may carry, None among them
    GeneratorResults, FalsifierResults,   \* what the port of a run may answer
    MaxRunModelCalls,     \* the run's own allowance
    SideEffectCeiling,    \* the highest level of a plan the run may execute
    \* bounds of the model
    MaxRunExperiments, MaxDays, MaxCrashes, MaxCalls

\* What a role may be answered in a run.
Results(r, role) == (IF role = "GENERATOR" THEN GeneratorResults ELSE FalsifierResults)[r]

\* The rows of a run, and the items of its contexts, are known by ids of its own.
Kinds ==
    {"run", "question", "obs", "hyp", "reasoning", "exp", "cycle", "opportunity", "der", "neg"}

Ids == [run: ResearchRuns, kind: Kinds, n: Nat]

\* What the provider counted of an answered call, however the port reports it.
Counted(result) ==
    IF result.telemetry # None THEN result.telemetry
    ELSE [in |-> IF result.prompt = None THEN 0 ELSE result.prompt,
          out |-> IF result.completion = None THEN 0 ELSE result.completion]

\* None is no id and no answer, prices, limits and counts are not negative, a budget is
\* charged what was counted, and a challenge lists its alternatives.
ASSUME ReasoningAssumption ==
    /\ IsFiniteSet(ResearchRuns) /\ None \notin Ids
    /\ PerTokens \in Nat \ {0}
    /\ \A m \in DOMAIN Prices : Prices[m].in \in Nat /\ Prices[m].out \in Nat
    /\ \A p \in Policies : p # None => p.limit = None \/ p.limit \in Nat
    /\ SideEffectCeiling \in 0..3
    /\ \A r \in ResearchRuns :
          /\ None \notin Results(r, "GENERATOR") \cup Results(r, "FALSIFIER")
          /\ \A result \in Results(r, "GENERATOR") \cup Results(r, "FALSIFIER") :
                /\ Counted(result).in \in Nat /\ Counted(result).out \in Nat
                /\ result.prompt \in {None, Counted(result).in}
                /\ result.completion \in {None, Counted(result).out}
          /\ \A result \in Results(r, "FALSIFIER") :
                result.error = None => result.output.alternatives \in Nat

VARIABLES
    policy, day, envelopes,   \* the program's policy, today, the days allocated
    reserved,     \* MODEL_CALL rows: <<run, invocation>>
    tokens,       \* token rows of the days: [invocation, side, day, model, amount]
    row,          \* research_orchestration of each run
    hypotheses, reasoning, admissions, experiments, observations,   \* rows of each run
    ctl,          \* the controller of each run
    paid,         \* what providers were really used for: [run, role, day, model, counted]
    crashes       \* of the controller of each run, so far

reasoningRows == <<hypotheses, reasoning, admissions, experiments, observations>>
reasoningVars ==
    <<policy, day, envelopes, reserved, tokens, row, reasoningRows, ctl, paid, crashes>>


\* Between steps; in a step a role is asked, called, paid for (in, out) and answers.
Idle == [pc |-> "idle", role |-> None, cycle |-> None, opportunity |-> None, context |-> None,
         generated |-> None, result |-> None]

ReasoningInit ==
    /\ policy \in Policies
    /\ day = 1
    /\ envelopes = {}
    /\ reserved = {} /\ tokens = {} /\ paid = <<>>
    /\ \E started \in UnderWay :
          row = [r \in ResearchRuns |->
                    [state |-> IF r \in started THEN "READY" ELSE "COMPLETED",
                     phase |-> "CYCLE_READY", cycle |-> None,
                     opportunity |-> None, hypothesis |-> None, experiment |-> None,
                     stop |-> None]]
    /\ hypotheses = [r \in ResearchRuns |-> <<>>]
    /\ reasoning = [r \in ResearchRuns |-> <<>>]
    /\ admissions = [r \in ResearchRuns |-> <<>>]
    /\ experiments = [r \in ResearchRuns |-> <<>>]
    /\ observations = [r \in ResearchRuns |-> {Id(r, "obs", 0)}]
    /\ ctl = [r \in ResearchRuns |-> Idle]
    /\ crashes = [r \in ResearchRuns |-> 0]

-----------------------------------------------------------------------------
(* The daily allowance of the program.                                     *)

\* program_daily_budget: AllocateProgramDailyBudget.
AllocateProgramDailyBudget ==
    /\ policy # None
    /\ day \notin envelopes
    /\ envelopes' = envelopes \cup {day}
    /\ UNCHANGED <<policy, day, reserved, tokens, row, reasoningRows, ctl, paid, crashes>>

NextDay ==
    /\ day < MaxDays
    /\ day' = day + 1
    /\ UNCHANGED <<policy, envelopes, reserved, tokens, row, reasoningRows, ctl, paid, crashes>>

Unpriced == 1048576     \* 2^63 - 1 in the code: more than any limit

\* estimate_cost, UnknownModelPriceError counting as more than any limit.
EstimateCost(model, in, out) ==
    IF model \notin DOMAIN Prices THEN Unpriced
    ELSE (in * Prices[model].in + out * Prices[model].out) \div PerTokens

\* The two sides of an invocation are priced together, by the model of the row that is
\* listed first: of either, since ids are random.
InvocationCost(rows) ==
    LET amount(s) == SumFunction([t \in {u \in rows : u.side = s} |-> t.amount])
    IN EstimateCost((CHOOSE t \in rows : TRUE).model, amount("in"), amount("out"))

\* _sum_estimated_cost.
SumEstimatedCost(records) ==
    LET of(i) == {t \in records : t.invocation = i}
    IN SumFunction([i \in {t.invocation : t \in records} |-> InvocationCost(of(i))])

Spent(d) == SumEstimatedCost({t \in tokens : t.day = d})

\* Mutant: any envelope of the day will do.
ChecksEnvelopeOnly ==
    policy = None \/ (policy # None /\ policy.limit # None /\ day \in envelopes)

\* CheckProgramDailyBudget.
CheckProgramDailyBudget ==
    \/ policy = None
    \/ policy # None /\ policy.limit # None /\ day \in envelopes /\ Spent(day) < policy.limit

-----------------------------------------------------------------------------
(* A step of the controller up to the first model call.                    *)

Active(r) == row[r].state \in {"READY", "RUNNING"}
Set(r, changed) == row' = [row EXCEPT ![r] = changed]
Go(r, changed) == ctl' = [ctl EXCEPT ![r] = changed]
Leave(r) == Go(r, Idle)
unasked == <<policy, day, envelopes, reserved, tokens, paid, crashes>>

\* _stop.
StateForStop(reason) ==
    CASE reason = "BUDGET_EXHAUSTED" -> "BUDGET_EXHAUSTED"
      [] reason = "OPERATIONAL_FAILURE" -> "FAILED_OPERATIONAL"
      [] reason = "REQUIRE_HUMAN_REVIEW" -> "WAITING_HUMAN"
      [] reason \in {"NO_COMPATIBLE_RUNTIME", "CONTENT_POLICY_BLOCKED", "AUTH_REQUIRED",
                     "RATE_LIMITED", "CORE_BLOCKED"} -> "BLOCKED"
      [] OTHER -> "COMPLETED"

Stop(r, reason) ==
    /\ Set(r, [row[r] EXCEPT !.state = StateForStop(reason), !.stop = reason,
                             !.phase = "CYCLE_COMPLETE"])
    /\ Leave(r)

\* The step finds a hypothesis: its own, or the run's latest one when it had only got
\* as far as an opportunity.
AdoptHypothesis(r) ==
    /\ ctl[r].pc = "idle" /\ Active(r)
    /\ row[r].phase = "OPPORTUNITY_SELECTED"
    /\ row[r].hypothesis # None \/ hypotheses[r] # <<>>
    /\ Set(r, [row[r] EXCEPT !.state = "RUNNING", !.phase = "HYPOTHESIS_ADMITTED",
                             !.hypothesis = IF @ # None THEN @ ELSE Last(hypotheses[r]).id])
    /\ UNCHANGED <<unasked, reasoningRows, ctl>>

\* PreparePlannedExperiment and the run's row, one transaction.
PrepareExperiment(r) ==
    LET n == Len(experiments[r]) + 1 IN
    /\ n <= MaxRunExperiments
    /\ experiments' = [experiments EXCEPT ![r] =
           Append(@, [id |-> Id(r, "exp", n), hypothesis |-> row[r].hypothesis,
                      state |-> "PLANNED"])]
    /\ Set(r, [row[r] EXCEPT !.phase = "EXPERIMENT_PLANNED", !.experiment = Id(r, "exp", n)])

\* Mutant: the experiment of the row serves the next hypothesis.
PlanOnce(r) ==
    /\ ctl[r].pc = "plan"
    /\ IF row[r].experiment # None
       THEN Set(r, [row[r] EXCEPT !.phase = "EXPERIMENT_PLANNED"]) /\ UNCHANGED experiments
       ELSE PrepareExperiment(r)
    /\ Leave(r)
    /\ UNCHANGED <<unasked, hypotheses, reasoning, admissions, observations>>

\* The rest of the step that admitted a hypothesis: an experiment of its own, unless its
\* plan exceeds the run's ceiling.
PlanHypothesis(r) ==
    /\ ctl[r].pc = "plan"
    /\ IF ctl[r].result.level > SideEffectCeiling
       THEN Stop(r, "CORE_BLOCKED") /\ UNCHANGED experiments
       ELSE PrepareExperiment(r) /\ Leave(r)
    /\ UNCHANGED <<unasked, hypotheses, reasoning, admissions, observations>>

\* _resume_admitted_hypothesis: the experiment of the row, whatever hypothesis it is of,
\* or else one of this hypothesis, or else a new one.
ResumeHypothesis(r) ==
    /\ ctl[r].pc = "idle" /\ Active(r)
    /\ row[r].phase = "HYPOTHESIS_ADMITTED"
    /\ LET known == IF row[r].experiment # None THEN {row[r].experiment}
                    ELSE {x.id : x \in {y \in Range(experiments[r]) :
                                            y.hypothesis = row[r].hypothesis}} IN
       \/ /\ known = {}
          /\ PrepareExperiment(r)
       \/ /\ \E x \in known : Set(r, [row[r] EXCEPT !.state = "RUNNING",
                                      !.phase = "EXPERIMENT_PLANNED", !.experiment = x])
          /\ UNCHANGED experiments
    /\ UNCHANGED <<unasked, hypotheses, reasoning, admissions, observations, ctl>>

\* The counted end of a cycle, the run's last one or not.
CycleOver(r) ==
    \/ Set(r, [row[r] EXCEPT !.phase = "CYCLE_COMPLETE", !.state = "READY"]) /\ Leave(r)
    \/ Stop(r, "MAX_CYCLES_REACHED")

\* The experiment of the row, in the step that planned it or in a later one.  It runs once
\* and may leave an observation; what has run is not run again, and ends the cycle.
ExecuteExperiment(r) ==
    LET n == row[r].experiment.n
        ends(state) == experiments' = [experiments EXCEPT ![r][n].state = state]
    IN /\ ctl[r].pc = "idle" /\ Active(r)
       /\ row[r].phase = "EXPERIMENT_PLANNED"
       /\ \/ /\ experiments[r][n].state # "PLANNED"
             /\ CycleOver(r)
             /\ UNCHANGED <<experiments, observations>>
          \/ /\ experiments[r][n].state = "PLANNED"
             /\ \/ /\ ends("OUTCOME_RECORDED") /\ CycleOver(r)
                   /\ observations' = [observations EXCEPT ![r] = @ \cup {Id(r, "obs", n)}]
                \/ /\ \E state \in {"PLANNED", "EXECUTION_FAILED"} : ends(state)
                   /\ CycleOver(r) /\ UNCHANGED observations
                \/ /\ ends("BLOCKED") /\ Stop(r, "CORE_BLOCKED") /\ UNCHANGED observations
                \/ /\ ends("UNKNOWN_OUTCOME") /\ Stop(r, "OPERATIONAL_FAILURE")
                   /\ UNCHANGED observations
                \/ /\ Stop(r, "REQUIRE_HUMAN_REVIEW")
                   /\ UNCHANGED <<experiments, observations>>
       /\ UNCHANGED <<unasked, hypotheses, reasoning, admissions>>

\* check_orchestration_bounds as far as model calls go, and the routing gate.
RoutingStop(request) ==
    LET outcome == IF request = None THEN "SELECT" ELSE SelectRuntime(request).outcome IN
    CASE outcome = "SELECT"         -> None
      [] outcome = "BLOCKED_POLICY" -> "CONTENT_POLICY_BLOCKED"
      [] OTHER                      -> "NO_COMPATIBLE_RUNTIME"

ReservedOf(r) == {i \in reserved : i[1] = r}

StepStops(r) ==
    /\ ctl[r].pc = "idle" /\ Active(r)
    /\ row[r].phase \in {"CYCLE_READY", "CYCLE_COMPLETE", "OPPORTUNITY_SELECTED"}
    /\ row[r].phase = "OPPORTUNITY_SELECTED" => row[r].hypothesis = None /\ hypotheses[r] = <<>>
    /\ \/ Cardinality(ReservedOf(r)) >= MaxRunModelCalls /\ Stop(r, "BUDGET_EXHAUSTED")
       \/ /\ Cardinality(ReservedOf(r)) < MaxRunModelCalls
          /\ row[r].phase # "OPPORTUNITY_SELECTED"
          /\ \/ \E request \in StepRequests :
                   RoutingStop(request) # None /\ Stop(r, RoutingStop(request))
             \/ Stop(r, "COMPLETED_NO_MORE_OPPORTUNITIES")
    /\ UNCHANGED <<unasked, reasoningRows>>

\* A cycle id is made when the row has none; no line ever clears it again.
CycleId(r) == IF row[r].cycle # None THEN row[r].cycle ELSE Id(r, "cycle", 1)

SelectOpportunity(r) ==
    /\ ctl[r].pc = "idle" /\ Active(r)
    /\ Cardinality(ReservedOf(r)) < MaxRunModelCalls
    /\ row[r].phase \in {"CYCLE_READY", "CYCLE_COMPLETE"}
    /\ \E request \in StepRequests : RoutingStop(request) = None
    /\ Set(r, [row[r] EXCEPT !.state = "RUNNING", !.phase = "OPPORTUNITY_SELECTED",
                             !.cycle = CycleId(r), !.opportunity = Id(r, "opportunity", 1)])
    /\ Go(r, [Idle EXCEPT !.pc = "context", !.cycle = CycleId(r),
                          !.opportunity = Id(r, "opportunity", 1)])
    /\ UNCHANGED <<unasked, reasoningRows>>

\* The step takes up an opportunity selected before a crash, or before a step that raised.
TakeUpOpportunity(r) ==
    /\ ctl[r].pc = "idle" /\ Active(r)
    /\ Cardinality(ReservedOf(r)) < MaxRunModelCalls
    /\ row[r].phase = "OPPORTUNITY_SELECTED"
    /\ row[r].hypothesis = None /\ hypotheses[r] = <<>>
    /\ Set(r, [row[r] EXCEPT !.state = "RUNNING"])
    /\ Go(r, [Idle EXCEPT !.pc = "context", !.cycle = CycleId(r),
                          !.opportunity = row[r].opportunity])
    /\ UNCHANGED <<unasked, reasoningRows>>

-----------------------------------------------------------------------------
(* ProposeResearchHypothesis through the BudgetEnforcedModelPort.          *)

\* The reads, one transaction, and the context built of them.
BuildResearchContext(r) ==
    LET sources ==
            [observations |-> observations[r],
             hypotheses |-> {h.id : h \in Range(hypotheses[r])},
             experiments |-> Range(experiments[r]),
             inferences |-> {}, external |-> <<>>,
             focus |-> {ctl[r].opportunity}]
    IN /\ ctl[r].pc = "context"
       /\ \E kept \in Keeps(sources, ContextBudget) :
             Go(r, [ctl[r] EXCEPT !.pc = "ask", !.role = "GENERATOR",
                                  !.context = BuildContext(r, sources, kept, ContextBudget)])
       /\ UNCHANGED <<unasked, reasoningRows, row>>

\* model_invocation_request_id: every port counts its attempts from one, and a step asks
\* each role once.
Invocation(r) == <<r, ctl[r].cycle, ctl[r].role>>

\* BudgetEnforcedModelPort.complete up to the call.  The daily check and the reservation
\* are two transactions; whatever another run records between them, the check has been
\* made.  A refusal ends the step with nothing of it stored.
ReserveModelCall(r) ==
    LET i == Invocation(r)
        allowed == /\ CheckProgramDailyBudget
                   /\ i \in reserved \/ Cardinality(ReservedOf(r)) < MaxRunModelCalls
    IN /\ ctl[r].pc = "ask"
       /\ \/ /\ allowed
             /\ reserved' = reserved \cup {i}
             /\ Go(r, [ctl[r] EXCEPT !.pc = "call"])
             /\ UNCHANGED row
          \/ ~allowed /\ Stop(r, "BUDGET_EXHAUSTED") /\ UNCHANGED reserved
       /\ UNCHANGED <<policy, day, envelopes, tokens, paid, crashes, reasoningRows>>

\* _record_tokens records a side of a result when the program has a policy.
Records(result, side) ==
    /\ result.error = None /\ policy # None /\ result.model # None
    /\ (IF side = "in" THEN result.prompt ELSE result.completion) # None

\* ModelPort.complete.  What it gives is kept by the process only.
CallModel(r) ==
    /\ ctl[r].pc = "call"
    /\ Cardinality({n \in DOMAIN paid : paid[n].run = r}) < MaxCalls[r]
    /\ \E result \in Results(r, ctl[r].role) :
          /\ paid' = Append(paid, [run |-> r, role |-> ctl[r].role, day |-> day,
                                   model |-> result.model, counted |-> Counted(result)])
          /\ Go(r, [ctl[r] EXCEPT !.pc = IF Records(result, "in") THEN "in" ELSE
                                         IF Records(result, "out") THEN "out" ELSE "answer",
                                  !.result = result])
    /\ UNCHANGED <<policy, day, envelopes, reserved, tokens, crashes, row, reasoningRows>>

\* Each side is a RecordBudgetConsumption of its own against the day it is by then.  A
\* side an invocation already has that day is dropped; without an envelope the step
\* raises.
RecordTokens(r) ==
    LET side == ctl[r].pc
        result == ctl[r].result
        twice == \E t \in tokens : /\ t.invocation = Invocation(r)
                                   /\ t.side = side /\ t.day = day
    IN /\ side \in {"in", "out"}
       /\ \/ day \notin envelopes /\ Leave(r) /\ UNCHANGED tokens
          \/ /\ day \in envelopes
             /\ tokens' =
                   IF twice THEN tokens
                   ELSE tokens \cup {[invocation |-> Invocation(r), side |-> side,
                                      day |-> day, model |-> result.model,
                                      amount |-> IF side = "in" THEN result.prompt
                                                 ELSE result.completion]}
             /\ Go(r, [ctl[r] EXCEPT !.pc = IF side = "in" /\ Records(result, "out") THEN "out"
                                            ELSE "answer"])
       /\ UNCHANGED <<policy, day, envelopes, reserved, paid, crashes, row, reasoningRows>>

\* What the answers come to: a decision, and which of them were model results.
ReasoningOutcome(admission, generator, falsifier, outcome) ==
    [decision |-> admission, generator |-> generator, falsifier |-> falsifier,
     outcome |-> outcome]

InvocationFailed(result, generator) ==
    LET outcome == RuntimeOutcomeFromException(result.error) IN
    ReasoningOutcome(
        AdmissionDecision("MODEL_INVOCATION_FAILED",
            IF outcome = "CONTENT_POLICY_BLOCKED" THEN outcome ELSE "MODEL_INVOCATION_FAILED"),
        generator, None, outcome)

DecisionOnError(error) ==
    IF error = "ProposalAuthorityError" THEN PolicyConflict ELSE Rejected

\* An answer that ends the cycle where it is, whoever gave it.
Ends(result) == result.error = None => ParseError(result.output) # None

Outcome(r) ==
    LET result == ctl[r].result
        asked == ctl[r].role = "FALSIFIER"
        judged == AdmitHypothesis(ctl[r].context,
                                  ParseHypothesisProposal(ctl[r].generated.output),
                                  ParseHypothesisChallenge(result.output))
    IN IF result.error # None THEN InvocationFailed(result, IF asked THEN ctl[r].generated ELSE None)
       ELSE IF Ends(result)
       THEN ReasoningOutcome(DecisionOnError(ParseError(result.output)),
                             IF asked THEN ctl[r].generated ELSE result,
                             IF asked THEN result ELSE None, None)
       ELSE ReasoningOutcome(judged, ctl[r].generated, result, None)

AskFalsifier(r) ==
    /\ ctl[r].pc = "answer" /\ ctl[r].role = "GENERATOR"
    /\ ~Ends(ctl[r].result)
    /\ Go(r, [ctl[r] EXCEPT !.pc = "ask", !.role = "FALSIFIER", !.generated = ctl[r].result])
    /\ UNCHANGED <<unasked, row, reasoningRows>>

\* _write_cycle and the controller's hook, one transaction: the hypothesis if there is
\* one, a record of each model result, the admission, and the run's row.
WriteCycle(r, outcome, hypothesis) ==
    LET id(n) == Id(r, "reasoning", Len(reasoning[r]) + n)
        record(n, role, result) ==
            [id |-> id(n), role |-> role, hypothesis |-> hypothesis,
             fingerprint |-> ctl[r].context, output |-> result.output]
        generator == IF outcome.generator = None THEN None ELSE id(1)
        falsifier == IF outcome.falsifier = None THEN None ELSE id(2)
    IN /\ hypotheses' = [hypotheses EXCEPT ![r] =
              IF hypothesis = None THEN @
              ELSE Append(@, [id |-> hypothesis, claim |-> outcome.generator.output.claim,
                              origin |-> generator])]
       /\ reasoning' = [reasoning EXCEPT ![r] =
              @ \o (IF generator = None THEN <<>>
                    ELSE <<record(1, "GENERATOR", outcome.generator)>>)
                \o (IF falsifier = None THEN <<>>
                    ELSE <<record(2, "FALSIFIER", outcome.falsifier)>>)]
       /\ admissions' = [admissions EXCEPT ![r] =
              Append(@, [outcome |-> outcome.decision.outcome, reason |-> outcome.decision.reason,
                         fingerprint |-> ctl[r].context, generator |-> generator,
                         falsifier |-> falsifier, hypothesis |-> hypothesis])]

AdoptedRow(r, hypothesis) ==
    [row[r] EXCEPT !.state = "RUNNING", !.phase = "HYPOTHESIS_ADMITTED",
                   !.hypothesis = hypothesis, !.cycle = ctl[r].cycle]

\* _persist_cycle.  An admitted hypothesis is planned first, and when that raises the
\* step ends with nothing stored.
PersistReasoning(r) ==
    LET outcome == Outcome(r)
        admitted == outcome.decision.outcome = "ADMITTED"
        hypothesis == IF admitted THEN Id(r, "hyp", Len(hypotheses[r]) + 1) ELSE None
        plan == PlanAdmittedHypothesis(outcome.generator.output.capability)
    IN /\ ctl[r].pc = "answer"
       /\ ctl[r].role = "FALSIFIER" \/ Ends(ctl[r].result)
       /\ \/ /\ admitted /\ plan.error # None
             /\ Leave(r)
             /\ UNCHANGED <<row, reasoningRows>>
          \/ /\ admitted /\ plan.error = None
             /\ WriteCycle(r, outcome, hypothesis)
             /\ Set(r, AdoptedRow(r, hypothesis))
             /\ Go(r, [Idle EXCEPT !.pc = "plan", !.result = plan])
             /\ UNCHANGED <<experiments, observations>>
          \/ /\ ~admitted
             /\ WriteCycle(r, outcome, None)
             /\ Go(r, [Idle EXCEPT !.pc = "finish", !.result = outcome])
             /\ UNCHANGED <<row, experiments, observations>>
       /\ UNCHANGED unasked

\* The transaction after it: a call that failed stops the run, any other refusal ends the
\* cycle, uncounted.
FinishCycle(r) ==
    /\ ctl[r].pc = "finish"
    /\ LET outcome == ctl[r].result.outcome IN
       \/ outcome # None /\ Stop(r, StopReasonForRuntimeOutcome(outcome))
       \/ /\ outcome = None
          /\ Set(r, [row[r] EXCEPT !.state = "READY", !.phase = "CYCLE_COMPLETE"])
          /\ Leave(r)
    /\ UNCHANGED <<unasked, reasoningRows>>

Crash(r) ==
    /\ crashes[r] < MaxCrashes[r]
    /\ ctl[r].pc # "idle"
    /\ crashes' = [crashes EXCEPT ![r] = @ + 1]
    /\ Leave(r)
    /\ UNCHANGED <<policy, day, envelopes, reserved, tokens, row, reasoningRows, paid>>

ReasoningStep(r) ==
    \/ AdoptHypothesis(r) \/ ResumeHypothesis(r) \/ ExecuteExperiment(r) \/ StepStops(r)
    \/ SelectOpportunity(r) \/ TakeUpOpportunity(r)
    \/ BuildResearchContext(r) \/ ReserveModelCall(r) \/ CallModel(r) \/ RecordTokens(r)
    \/ AskFalsifier(r) \/ PersistReasoning(r) \/ PlanHypothesis(r)
    \/ FinishCycle(r)

ReasoningNext ==
    \/ AllocateProgramDailyBudget \/ NextDay
    \/ \E r \in ResearchRuns : ReasoningStep(r) \/ Crash(r)

ReasoningSpec == ReasoningInit /\ [][ReasoningNext]_reasoningVars

-----------------------------------------------------------------------------

(***************************************************************************)
(* Every hypothesis of a run is the outcome of one admission whose two     *)
(* answers were given on one and the same context, cites only what that    *)
(* context held, was challenged, and rests on rows of its own run,         *)
(* whatever ids a model made up (admit_hypothesis, _write_cycle).          *)
(***************************************************************************)
HypothesisGrounded ==
    \A r \in ResearchRuns : \A h \in Range(hypotheses[r]) :
        \E a \in Range(admissions[r]), g, f \in Range(reasoning[r]) :
            /\ a.hypothesis = h.id /\ a.outcome = "ADMITTED"
            /\ a.generator = g.id /\ g.id = h.origin /\ a.falsifier = f.id
            /\ g.fingerprint = a.fingerprint /\ f.fingerprint = a.fingerprint
            /\ f.output.alternatives > 0
            /\ LET cited == {i \in a.fingerprint.items : i.id \in g.output.references} IN
               /\ g.output.references = {i.id : i \in cited} /\ cited # {}
               /\ \A i \in cited : i.id.run = r
               /\ \A b \in Range(admissions[r]) : b.hypothesis = h.id => b = a

\* The hypotheses of a run that have no experiment, now or by the row's next step, and
\* were not refused one.
Abandoned(r) ==
    {h \in {g.id : g \in Range(hypotheses[r])} :
        /\ \A x \in Range(experiments[r]) : x.hypothesis # h
        /\ row[r].hypothesis = h =>
              row[r].phase # "HYPOTHESIS_ADMITTED" /\ row[r].stop # "CORE_BLOCKED"}

(***************************************************************************)
(* A hypothesis that was admitted gets an experiment, but for the one that *)
(* was being taken there when the controller died: each death costs one at *)
(* most, and none while the run's row names no experiment yet.  Once it    *)
(* names one, a resumed step takes that one up, of whatever hypothesis it  *)
(* is, and the new hypothesis is never tested                              *)
(* (_resume_admitted_hypothesis, and the persist hook of step).            *)
(***************************************************************************)
LostOnlyToDeaths ==
    \A r \in ResearchRuns :
        /\ Cardinality(Abandoned(r)) <= crashes[r]
        /\ Abandoned(r) # {} => row[r].experiment # None

(***************************************************************************)
(* What is recorded against a day stays below its limit but for the calls  *)
(* that were under way when the limit was reached, one of each run: the    *)
(* check is made without a lock, and before each call                      *)
(* (CheckProgramDailyBudget).  An invocation that a death interrupts is    *)
(* completed by another call, so it may cost what the input of one, the    *)
(* output of another and the price of a third come to.                     *)
(***************************************************************************)
DailySpendBounded ==
    LET answered == {p \in Range(paid) : p.model # None}
        costs == {EstimateCost(m.model, i.counted.in, o.counted.out) :
                     m, i, o \in answered} IN
    \A d \in 1..MaxDays :
        policy # None /\ Spent(d) > 0 =>
            Spent(d) <= policy.limit - 1 + Cardinality(ResearchRuns) * Max(costs)
=============================================================================
