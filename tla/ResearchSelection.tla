-------------------------- MODULE ResearchSelection --------------------------
(***************************************************************************)
(* RunResearchSelection: the loop that asks of the observations so far      *)
(* which experiment tells most, prepares and executes it, and stops when    *)
(* nothing is left to ask.  Research ranks (selection.py), the loop keeps   *)
(* the run.                                                                *)
(*                                                                         *)
(* A context is what one probe is about: an actor and a resource (of the    *)
(* object family, the actor's own object and the foreign one together; of   *)
(* the workflow family, a resource, with one transition each).  An identity *)
(* stands for the hash of a probe's capability, purpose, origin, actor,     *)
(* resource and operation, a signature for that of its family, origin and   *)
(* resource.                                                               *)
(*                                                                         *)
(* One process steps the run and may die between two transactions; nothing  *)
(* locks the run against a second.  Selection rows and audit rows are left  *)
(* out: nothing reads them.                                                *)
(***************************************************************************)
EXTENDS Integers, Sequences, FiniteSets, TLC

CONSTANTS
    Null,
    Contexts,
    FamilyOf, ActorOf, ResourceOf,  \* of a context
    VerifierOf,         \* [actor, resource] of its independent reproduction, or Null
    Origins,            \* authorized_origin and candidate_origins
    AuthorizedOrigin,
    Existing,           \* hypotheses the run may have before it starts: a set of functions
    MaxCycles, MaxExperiments, MaxModelCalls, MaxWorkerInvocations, MaxElapsed,
    PauseAfter,         \* pause_after_cycles of a command, Null among them
    Unobserved,         \* states an experiment ends in without an observation
    MaxDeaths           \* bound

Object == "OBJECT_AUTHORIZATION"
Workflow == "WORKFLOW_STATE_TRANSITION"

HypothesisFamilies == {Object, Workflow, "UNKNOWN"}

Outcomes ==
    {"CONSISTENT_WITH_PREDICTION", "CONTRADICTS_PREDICTION", "INCONCLUSIVE",
     "EXECUTION_UNUSABLE", "NEEDS_MORE_CONTEXT"}

StopReasons ==
    {"MAX_CYCLES_REACHED", "BUDGET_EXHAUSTED", "OPERATOR_PAUSED", "NEEDS_MORE_CONTEXT",
     "SUFFICIENT_EVIDENCE_FOR_VERIFICATION", "ALL_HYPOTHESES_FALSIFIED",
     "NO_ACTIVE_HYPOTHESES"}

\* A row of the run: its state, the cycles closed and why it stopped last.
RunRow ==
    [state: {"READY", "RUNNING", "PAUSED", "COMPLETED", "BUDGET_EXHAUSTED"}, cycle: Nat,
     stop: StopReasons \cup {Null}]

\* A probe that may be selected at all is of the authorized origin.  Null is no value of
\* a row.
ASSUME SelectionAssumption ==
    /\ FamilyOf \in [Contexts -> {Object, Workflow}]
    /\ AuthorizedOrigin \in Origins
    /\ \A existing \in Existing :
          existing \in [DOMAIN existing ->
                          [family: HypothesisFamilies, origin: Contexts \cup {Null}]]
    /\ MaxCycles \in Nat
    /\ Null \notin Nat /\ Null \notin Outcomes /\ Null \notin StopReasons
    /\ Null \notin RunRow

VARIABLES
    run,            \* research_orchestration row, Null before start
    hypothesis,     \* by id: family and the context of its origin_reference, Null for all
    opportunities,  \* structural identities of the selected options
    probes,         \* experiments with plan, assessment and cycle row, in order
    seen,           \* by family, actor and resource: the observation with the last id
    stepper,        \* the process: unbound surface, idle, or in a step
    deaths

selectionVars == <<run, hypothesis, opportunities, probes, seen, stepper, deaths>>

-----------------------------------------------------------------------------
(* Portfolio.                                                              *)

Binds(h, k) ==
    /\ hypothesis[h].family = FamilyOf[k]
    /\ hypothesis[h].origin \in {Null, k}

Key(family, actor, resource) == <<family, actor, resource>>

Subject(k) == Key(FamilyOf[k], ActorOf[k], ResourceOf[k])

Observed(k) == Subject(k) \in DOMAIN seen

\* _object_state and _workflow_state, as far as options are made of them.
Unresolved(k) ==
    Observed(k) => ~seen[Subject(k)].proven \/ ~seen[Subject(k)].denied

ControlMissing(k) == Observed(k) => ~seen[Subject(k)].denied

RemainingUntested(h) == \E k \in Contexts : Binds(h, k) /\ ~Observed(k)

\* Assessments are put in the order of their cycles; one whose cycle was never
\* written, because the process died before, comes after all of them.
CycleOf(i) == IF probes[i].cycle = Null THEN MaxCycles + 1 ELSE probes[i].cycle

Assessed(h) == {i \in DOMAIN probes : probes[i].hypothesis = h /\ probes[i].outcome # Null}

\* Mutant: the first assessment is taken for the last.
EarliestOutcome(h) ==
    IF Assessed(h) = {} THEN Null
    ELSE probes[CHOOSE i \in Assessed(h) :
                   \A j \in Assessed(h) \ {i} :
                      CycleOf(j) > CycleOf(i) \/ (CycleOf(j) = CycleOf(i) /\ j > i)].outcome

LatestOutcome(h) ==
    IF Assessed(h) = {} THEN Null
    ELSE probes[CHOOSE i \in Assessed(h) :
                   \A j \in Assessed(h) \ {i} :
                      CycleOf(j) < CycleOf(i) \/ (CycleOf(j) = CycleOf(i) /\ j < i)].outcome

SupportedFamilies ==
    {hypothesis[h].family :
        h \in {g \in DOMAIN hypothesis : LatestOutcome(g) = "CONSISTENT_WITH_PREDICTION"}}

CompetingSupported(h) == SupportedFamilies \ {hypothesis[h].family} # {}

\* lifecycle_from_assessments
Lifecycle(h) ==
    LET latest == LatestOutcome(h) IN
    CASE latest = Null -> "ACTIVE"
      [] latest = "CONTRADICTS_PREDICTION" ->
            IF RemainingUntested(h) THEN "ACTIVE" ELSE "FALSIFIED"
      [] latest = "CONSISTENT_WITH_PREDICTION" -> "SUPPORTED"
      [] latest = "INCONCLUSIVE" ->
            IF CompetingSupported(h) THEN "DEPRIORITIZED" ELSE "NEEDS_MORE_CONTEXT"
      [] OTHER -> "NEEDS_MORE_CONTEXT"

With(states) == {h \in DOMAIN hypothesis : Lifecycle(h) \in states}

Open == With({"ACTIVE", "NEEDS_MORE_CONTEXT"})

Live == With({"ACTIVE", "SUPPORTED", "NEEDS_MORE_CONTEXT"})

Competing == Cardinality({hypothesis[h].family : h \in Live} \ {"UNKNOWN"})

-----------------------------------------------------------------------------
(* Options.                                                                *)

Identity(family, control, origin, actor, resource) ==
    <<family, IF control THEN "control" ELSE "probe", origin, actor, resource>>

\* Mutant: a reproduction has an identity of its own purpose.
IdentityOfPurpose(purpose, family, origin, actor, resource) ==
    <<family, purpose, origin, actor, resource>>

\* An option is identified by the experiment it plans: a reproduction goes by the
\* identity of the probe it repeats for another actor.
OptionIdentity(purpose, family, origin, actor, resource) ==
    Identity(family, purpose = "control", origin, actor, resource)

Option(h, origin, purpose, actor, resource, resolves, control) ==
    LET family == hypothesis[h].family IN
    [hypothesis |-> h, family |-> family, purpose |-> purpose, origin |-> origin,
     actor |-> actor, resource |-> resource,
     resolves |-> resolves, control |-> control,
     signature |-> <<family, origin, resource>>,
     identity |-> OptionIdentity(purpose, family, origin, actor, resource)]

\* The probe and the control of an open hypothesis, the reproduction of a supported one.
OptionsOn(h, k, origin) ==
    (IF h \in Open
     THEN {Option(h, origin, "probe", ActorOf[k], ResourceOf[k], Unresolved(k), FALSE),
           Option(h, origin, "control", ActorOf[k], ResourceOf[k], FALSE, ControlMissing(k))}
     ELSE {})
    \cup
    (IF Lifecycle(h) = "SUPPORTED" /\ VerifierOf[k] # Null
     THEN {Option(h, origin, "reproduction", VerifierOf[k].actor, VerifierOf[k].resource,
                  FALSE, FALSE)}
     ELSE {})

Options ==
    UNION {OptionsOn(x[1], x[2], x[3]) :
              x \in {y \in (DOMAIN hypothesis) \X Contexts \X Origins : Binds(y[1], y[2])}}

Flag(b) == IF b THEN 0 ELSE 1

\* Every option may falsify, so it is of high discrimination as soon as it does
\* anything else.
HighDiscrimination(o) == Competing >= 2 \/ o.resolves \/ o.control

\* Purposes of a family in the order of their names.
PurposeRank(o) ==
    CASE o.purpose = "control"      -> 1
      [] o.purpose = "probe"        -> IF o.family = Object THEN 2 ELSE 3
      [] o.purpose = "reproduction" -> IF o.family = Object THEN 3 ELSE 2

\* selector_key up to the hashes, without the parts that all options share: each may
\* falsify, with as many competing families and as many requests as the others.
SelectorKey(o) ==
    <<Flag(o.origin = AuthorizedOrigin), Flag(o.resolves), Flag(o.control),
      IF o.family = Object THEN 0 ELSE 1, Flag(HighDiscrimination(o)),
      PurposeRank(o)>>

Precedes(o, p) ==
    LET a == SelectorKey(o)  b == SelectorKey(p) IN
    \E i \in DOMAIN a : a[i] < b[i] /\ \A j \in 1 .. i - 1 : a[j] = b[j]

-----------------------------------------------------------------------------
(* Selection.                                                              *)

\* _executed_identities: of plans, whatever became of them, and of opportunities,
\* whether or not an experiment followed.
ExecutedIdentities ==
    opportunities \cup {probes[i].identity : i \in DOMAIN probes}

\* _negative_contexts: where a hypothesis was probed that is falsified by now.
NegativeContexts ==
    {probes[i].signature :
        i \in {j \in DOMAIN probes : Lifecycle(probes[j].hypothesis) = "FALSIFIED"}}

\* Mutant: a context known to be negative needs no control either.
SkipsEveryPurpose(o) == o.signature \in NegativeContexts

LowInformation(o) == o.signature \in NegativeContexts /\ o.purpose = "probe"

Eligible ==
    {o \in Options : /\ o.origin = AuthorizedOrigin
                     /\ o.identity \notin ExecutedIdentities
                     /\ ~LowInformation(o)}

\* select_next_experiment: the first of the eligible.  Hashes order what is left, in
\* no order that means anything.
Selected == {o \in Eligible : \A p \in Eligible : ~Precedes(p, o)}

InStates(states) == Cardinality({i \in DOMAIN probes : probes[i].state \in states})

\* check_orchestration_bounds on the usage of step: no model call, no time.
BoundReached ==
    IF run.cycle >= MaxCycles \/ MaxElapsed <= 0 THEN "MAX_CYCLES_REACHED"
    ELSE IF \/ InStates({"EXECUTION_SUCCEEDED", "EXECUTION_FAILED", "BLOCKED"}) >= MaxExperiments
            \/ MaxModelCalls <= 0
            \/ InStates({"EXECUTION_SUCCEEDED"}) >= MaxWorkerInvocations
         THEN "BUDGET_EXHAUSTED"
    ELSE Null

\* stop_reason_for_portfolio when nothing is selected.
StopReason ==
    IF Open # {} THEN "NEEDS_MORE_CONTEXT"
    ELSE IF With({"SUPPORTED"}) # {} THEN "SUFFICIENT_EVIDENCE_FOR_VERIFICATION"
    ELSE IF With({"FALSIFIED"}) = DOMAIN hypothesis /\ DOMAIN hypothesis # {}
         THEN "ALL_HYPOTHESES_FALSIFIED"
    ELSE "NO_ACTIVE_HYPOTHESES"

-----------------------------------------------------------------------------
(* The run.                                                                *)

Terminal == {"COMPLETED", "BUDGET_EXHAUSTED"}

SelectionInit ==
    /\ run = Null
    /\ hypothesis \in Existing
    /\ opportunities = {} /\ probes = <<>> /\ seen = <<>>
    /\ stepper = [at |-> "unbound", pause |-> Null]
    /\ deaths = 0

\* A run without hypotheses gets one for each context of the command.
Start ==
    /\ run = Null
    /\ \E pause \in PauseAfter : stepper' = [at |-> "idle", pause |-> pause]
    /\ IF DOMAIN hypothesis # {} THEN UNCHANGED hypothesis
       ELSE hypothesis' = [k \in Contexts |-> [family |-> FamilyOf[k], origin |-> k]]
    /\ run' = [state |-> IF MaxCycles = 0 THEN "COMPLETED" ELSE "READY", cycle |-> 0,
               stop |-> IF MaxCycles = 0 THEN "MAX_CYCLES_REACHED" ELSE Null]
    /\ UNCHANGED <<opportunities, probes, seen, deaths>>

Stepping == stepper.at = "idle" /\ run # Null /\ run.state \in {"READY", "RUNNING"}

StopRun(reason) ==
    /\ run' = [run EXCEPT !.state = IF reason = "BUDGET_EXHAUSTED" THEN reason ELSE "COMPLETED",
                          !.stop = reason]
    /\ UNCHANGED <<hypothesis, opportunities, probes, seen, stepper, deaths>>

\* The first transaction of step: it stops the run, or keeps what it selected.
Select ==
    /\ Stepping
    /\ IF BoundReached # Null THEN StopRun(BoundReached)
       ELSE IF Eligible = {} THEN StopRun(StopReason)
       ELSE \E o \in Selected :
              /\ opportunities' = opportunities \cup {o.identity}
              /\ stepper' = [at |-> "prepare", pause |-> stepper.pause, option |-> o]
              /\ UNCHANGED <<run, hypothesis, probes, seen, deaths>>

\* PreparePlannedExperiment: the experiment and its plan, whose identity is that of
\* its arguments.
Prepare ==
    /\ stepper.at = "prepare"
    /\ LET o == stepper.option IN
       probes' = Append(probes,
          [hypothesis |-> o.hypothesis, family |-> o.family, purpose |-> o.purpose,
           actor |-> o.actor, resource |-> o.resource, signature |-> o.signature,
           identity |-> Identity(o.family, o.purpose = "control", o.origin, o.actor, o.resource),
           state |-> "PLANNED", outcome |-> Null, cycle |-> Null])
    /\ stepper' = [at |-> "execute", pause |-> stepper.pause, option |-> stepper.option]
    /\ UNCHANGED <<run, hypothesis, opportunities, seen, deaths>>

\* What the observation of a probe may say, and what the evaluator makes of it: proven
\* is the foreign owner or the state afterwards, denied what the control was answered.
Facts == [proven : BOOLEAN, denied : BOOLEAN]

Concludes(outcome, family, fact) ==
    \/ outcome = "CONSISTENT_WITH_PREDICTION" /\ fact.proven /\ fact.denied
    \/ outcome = "CONTRADICTS_PREDICTION" /\ (fact.proven \/ fact.denied)
    \/ outcome = "INCONCLUSIVE" /\ (fact.proven \/ ~fact.denied)
    \/ outcome = "NEEDS_MORE_CONTEXT" /\ (family = Workflow \/ ~fact.proven)

LastProbe == Len(probes)

\* ExecutePlannedExperiment: an observation, which comes last of its context or not as
\* its id happens to be, or one of the ends without.
Execute ==
    /\ stepper.at = "execute"
    /\ \/ \E fact \in Facts :
             LET o == stepper.option
                 key == Key(o.family, o.actor, o.resource) IN
             /\ probes' = [probes EXCEPT ![LastProbe].state = "EXECUTION_SUCCEEDED"]
             /\ \/ seen' = (key :> fact) @@ seen
                \/ key \in DOMAIN seen /\ UNCHANGED seen
             /\ stepper' = [at |-> "evaluate", pause |-> stepper.pause, option |-> o,
                            fact |-> fact]
       \/ /\ \E state \in Unobserved : probes' = [probes EXCEPT ![LastProbe].state = state]
          /\ stepper' = [at |-> "close", pause |-> stepper.pause]
          /\ UNCHANGED seen
    /\ UNCHANGED <<run, hypothesis, opportunities, deaths>>

\* EvaluateExperimentFeedback, of an experiment with an observation only.
Evaluate ==
    /\ stepper.at = "evaluate"
    /\ \E outcome \in Outcomes :
          /\ Concludes(outcome, stepper.option.family, stepper.fact)
          /\ probes' = [probes EXCEPT ![LastProbe].outcome = outcome]
    /\ stepper' = [at |-> "close", pause |-> stepper.pause]
    /\ UNCHANGED <<run, hypothesis, opportunities, seen, deaths>>

Waiting(pause) == [at |-> "idle", pause |-> pause]

\* The last transaction of step: the run's row and the row of the cycle.
Close ==
    LET cycle == run.cycle + 1
        pauses == stepper.pause # Null /\ cycle >= stepper.pause IN
    /\ stepper.at = "close"
    /\ run' = [state |-> IF pauses THEN "PAUSED" ELSE "RUNNING", cycle |-> cycle,
               stop |-> IF pauses THEN "OPERATOR_PAUSED" ELSE Null]
    /\ probes' = [probes EXCEPT ![LastProbe].cycle = cycle]
    /\ stepper' = Waiting(stepper.pause)
    /\ UNCHANGED <<hypothesis, opportunities, seen, deaths>>

\* resume binds the surface of the command, and takes a paused run up again;
\* bind_surface does the first alone.
Resume ==
    /\ stepper.at \in {"unbound", "idle"} /\ run # Null
    /\ \E pause \in PauseAfter : stepper' = Waiting(pause)
    /\ \/ UNCHANGED run
       \/ run.state = "PAUSED" /\ run' = [run EXCEPT !.state = "RUNNING", !.stop = Null]
    /\ UNCHANGED <<hypothesis, opportunities, probes, seen, deaths>>

\* The process dies between two transactions; what it had selected stays selected.
ProcessDies ==
    /\ stepper.at # "unbound" /\ deaths < MaxDeaths
    /\ deaths' = deaths + 1
    /\ stepper' = [at |-> "unbound", pause |-> Null]
    /\ UNCHANGED <<run, hypothesis, opportunities, probes, seen>>

SelectionNext ==
    \/ Start \/ Select \/ Prepare \/ Execute \/ Evaluate \/ Close \/ Resume \/ ProcessDies

SelectionSpec == SelectionInit /\ [][SelectionNext]_selectionVars

-----------------------------------------------------------------------------
(* Properties.                                                             *)

\* No two experiments of a run put the same question, whatever died between selection and
\* execution, and also where the reproduction of one context is the probe of another
\* (_executed_identities, identity_from_plan_arguments).
ProbedOnce ==
    \A i, j \in DOMAIN probes : i # j => probes[i].identity # probes[j].identity

\* The last assessment of h in time.
LastWord(h) ==
    IF Assessed(h) = {} THEN Null
    ELSE probes[CHOOSE i \in Assessed(h) : \A j \in Assessed(h) : j <= i].outcome

\* The run's last reason agrees with the last word on each hypothesis, as long as no cycle
\* row was lost (stop_reason_for_portfolio; lifecycle_from_assessments).
VerdictStands ==
    (run # Null /\ \A i \in DOMAIN probes : probes[i].outcome # Null => probes[i].cycle # Null)
    => /\ run.stop = "SUFFICIENT_EVIDENCE_FOR_VERIFICATION" =>
             \E h \in DOMAIN hypothesis : LastWord(h) = "CONSISTENT_WITH_PREDICTION"
       /\ run.stop = "ALL_HYPOTHESES_FALSIFIED" =>
             \A h \in DOMAIN hypothesis :
                /\ LastWord(h) = "CONTRADICTS_PREDICTION"
                /\ \A k \in Contexts : Binds(h, k) => Observed(k)

\* Another hypothesis than h was probed there, and is refuted.
RefutedBeside(h, k) ==
    \E i, j \in DOMAIN probes :
        /\ probes[i].outcome = "CONTRADICTS_PREDICTION"
        /\ probes[i].hypothesis = probes[j].hypothesis
        /\ probes[j].hypothesis # h /\ probes[j].resource = ResourceOf[k]

\* What h asks of k: open, its control, and its probe but where another was refuted;
\* supported, its reproduction.
QuestionsOn(h, k) ==
    LET ask(control, actor, resource) ==
            Identity(FamilyOf[k], control, AuthorizedOrigin, actor, resource) IN
    (IF h \in Open THEN {ask(TRUE, ActorOf[k], ResourceOf[k])} ELSE {})
    \cup
    (IF h \in Open /\ ~RefutedBeside(h, k) THEN {ask(FALSE, ActorOf[k], ResourceOf[k])} ELSE {})
    \cup
    (IF Lifecycle(h) = "SUPPORTED" /\ VerifierOf[k] # Null
     THEN {ask(FALSE, VerifierOf[k].actor, VerifierOf[k].resource)}
     ELSE {})

Questions ==
    UNION {QuestionsOn(x[1], x[2]) :
              x \in {y \in (DOMAIN hypothesis) \X Contexts : Binds(y[1], y[2])}}

QuestionsPut == {probes[i].identity : i \in DOMAIN probes}

\* A run that stops by itself has put every question it has, in an experiment with a plan,
\* but for one at most of each death of its process: a selection outlives the process
\* that made it and is not eligible again, so what was selected and not prepared when the
\* process died is never asked (propose_experiment_options; select_next_experiment;
\* the first transaction of step).
NothingLeftUntried ==
    (run # Null /\ run.state = "COMPLETED" /\ run.stop # "MAX_CYCLES_REACHED")
    => Cardinality(Questions \ QuestionsPut) <= deaths
=============================================================================
