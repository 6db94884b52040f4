--------------------------- MODULE EvidencePipeline ---------------------------
(***************************************************************************)
(* From a worker's reply to a candidate.  The dispatcher of an experiment   *)
(* records the outcome of its one attempt and ingests the worker's result;  *)
(* EvaluateExperimentFeedback writes an assessment of what it reads,        *)
(* AdmitDiagnosticEvidence admits evidence on an assessment, and            *)
(* ProposeCandidateFromEvidence a candidate on evidence.  Any number of     *)
(* callers run the last three at any time, beside a dispatcher that may die *)
(* and a controller that finds the attempt in doubt.                        *)
(*                                                                         *)
(* PostgreSQL runs READ COMMITTED, so each statement of a transaction sees  *)
(* what is committed then: a use case is one step per statement that can    *)
(* see something new, and its insert.  Assessments are listed in the order  *)
(* of their random ids.  An observation id is derived from the request id,  *)
(* so an experiment with one attempt has at most one: it goes by the        *)
(* experiment's name here.  Admission records, which nothing reads, and     *)
(* audit rows are left out.                                                 *)
(***************************************************************************)
EXTENDS ExperimentVerdict, FiniteSets

CONSTANTS
    Experiments,
    Runs, Hypotheses,
    RunOf, HypothesisOf,    \* columns of the experiment row
    StrategiesOf,           \* [Experiments -> SUBSET Strategies]: what its plan may ask for
    MessageOf,              \* plan argument of the echo, or None
    RawResults(_),          \* raw results of a strategy's worker, None among them
    Assessments,            \* assessment ids, a set of numbers: bounds the assessments
    EvidenceIds, CandidateIds,
    EvidenceProposals, CandidateProposals,  \* those a command may carry
    Callers,
    Active      \* bound: the experiments that are dispatched; the others stay planned

ASSUME PipelineAssumption ==
    /\ RunOf \in [Experiments -> Runs] /\ HypothesisOf \in [Experiments -> Hypotheses]
    /\ StrategiesOf \in [Experiments -> SUBSET Strategies]
    /\ Assessments \subseteq Int
    /\ None \notin Assessments
    /\ Active \subseteq Experiments
    /\ \A s \in Strategies : \A raw \in RawResults(s) \ {None} : Normalize(s, raw) # None

VARIABLES
    plan,           \* experiment_plan.evaluation_strategy
    attempt,        \* state of the experiment's attempt, NONE before it
    experiment,     \* execution_state
    dispatcher,     \* where the dispatcher of the experiment is
    result,         \* worker_result: status, NONE before it
    observation,    \* payload, None if there is none
    assessment,     \* hypothesis_assessment rows by id
    evidence,
    candidate,
    call            \* the use case each caller is in, with what it has read

vars == <<plan, attempt, experiment, dispatcher, result, observation, assessment,
          evidence, candidate, call>>

execution == <<plan, attempt, experiment, dispatcher, result, observation>>

claims == <<assessment, evidence, candidate>>

Idle == [at |-> "idle"]

-----------------------------------------------------------------------------
(* Rows.                                                                    *)

Polarities == {"SUPPORTING", "CONTRADICTING", "NEUTRAL"}

\* The claims by what an observation must show for them, and the two of a control
\* that held, which only a rejected proposal carries.
ClaimScopes ==
    {"echo_matched", "echo_mismatched", "object_access", "workflow_bypass",
     "access_control_held", "workflow_control_held"}

Classifications ==
    {"DIAGNOSTIC_PLUMBING", "HTTP_AUTHORIZATION_DIFFERENTIAL",
     "HTTP_STATE_TRANSITION_AUTHORIZATION"}

AssessmentRows ==
    [experiment : Experiments, run : Runs, hypothesis : Hypotheses, outcome : Outcomes]

EvidenceRows ==
    [run : Runs, hypothesis : Hypotheses, experiment : Experiments, polarity : Polarities,
     claim : ClaimScopes, observations : SUBSET Experiments, assessments : SUBSET Assessments]

CandidateRows ==
    [run : Runs, hypothesis : Hypotheses, claim : ClaimScopes,
     classification : Classifications, evidence : SUBSET EvidenceIds]

Init ==
    /\ plan \in {f \in [Experiments -> Strategies] : \A e \in Experiments : f[e] \in StrategiesOf[e]}
    /\ attempt = [e \in Experiments |-> "NONE"]
    /\ experiment = [e \in Experiments |-> "PLANNED"]
    /\ dispatcher = [e \in Experiments |-> [at |-> "idle"]]
    /\ result = [e \in Experiments |-> "NONE"]
    /\ observation = [e \in Experiments |-> None]
    /\ assessment = [a \in {} |-> None]
    /\ evidence = [x \in {} |-> None]
    /\ candidate = [c \in {} |-> None]
    /\ call = [p \in Callers |-> Idle]

-----------------------------------------------------------------------------
(* Execution and ingestion.                                                 *)

\* Core allows the experiment and its worker is invoked, or it is refused.
Dispatch(e) ==
    /\ experiment[e] = "PLANNED"
    /\ \/ /\ attempt' = [attempt EXCEPT ![e] = "DISPATCHING"]
          /\ experiment' = [experiment EXCEPT ![e] = "RUNNING"]
          /\ dispatcher' = [dispatcher EXCEPT ![e] = [at |-> "invoking"]]
       \/ /\ \E refused \in {"BLOCKED", "BUDGET_EXHAUSTED"} :
                experiment' = [experiment EXCEPT ![e] = refused]
          /\ UNCHANGED <<attempt, dispatcher>>
    /\ UNCHANGED <<plan, result, observation, claims, call>>

\* _classify_invocation: the states a result leaves, and those of no result.
AfterResult(status) ==
    CASE status = "REAUTHORIZATION_REQUIRED" -> "AUTHORIZATION_CHECK"
      [] status = "BUDGET_EXHAUSTED"         -> "BUDGET_EXHAUSTED"
      [] OTHER                               -> "EXECUTION_SUCCEEDED"

Failures ==
    {<<"TIMED_OUT", "EXECUTION_FAILED">>, <<"CANCELLED", "CANCELLED">>,
     <<"FAILED", "EXECUTION_FAILED">>}

\* The outcome transaction does not look at the state it overwrites.
RecordOutcome(e) ==
    /\ dispatcher[e].at = "invoking"
    /\ \/ \E status \in ResultStatuses :
             \E raw \in IF status = "SUCCEEDED" THEN RawResults(plan[e]) ELSE {None} :
                /\ attempt' = [attempt EXCEPT ![e] = "COMPLETED"]
                /\ experiment' = [experiment EXCEPT ![e] = AfterResult(status)]
                /\ dispatcher' = [dispatcher EXCEPT ![e] =
                                    [at |-> "ingesting", status |-> status, raw |-> raw]]
       \/ \E failure \in Failures :
                /\ attempt' = [attempt EXCEPT ![e] = failure[1]]
                /\ experiment' = [experiment EXCEPT ![e] = failure[2]]
                /\ dispatcher' = [dispatcher EXCEPT ![e] = [at |-> "idle"]]
    /\ UNCHANGED <<plan, result, observation, claims, call>>

\* Result and observation are one transaction.
Ingest(e) ==
    LET reply == dispatcher[e] IN
    /\ reply.at = "ingesting"
    /\ reply.status = "SUCCEEDED" => reply.raw # None
    /\ result' = [result EXCEPT ![e] = reply.status]
    /\ observation' = [observation EXCEPT ![e] =
                         IF reply.status \in STATUSES_WITHOUT_TARGET_OBSERVATION THEN None
                         ELSE Normalize(plan[e], reply.raw)]
    /\ dispatcher' = [dispatcher EXCEPT ![e] = [at |-> "idle"]]
    /\ UNCHANGED <<plan, attempt, experiment, claims, call>>

\* MalformedNormalizedPayloadError: nothing is ingested, and the outcome is revised.
RejectIngestion(e) ==
    LET reply == dispatcher[e] IN
    /\ reply.at = "ingesting"
    /\ reply.status = "SUCCEEDED" /\ reply.raw = None
    /\ attempt' = [attempt EXCEPT ![e] = "FAILED"]
    /\ experiment' = [experiment EXCEPT ![e] = "EXECUTION_FAILED"]
    /\ dispatcher' = [dispatcher EXCEPT ![e] = [at |-> "idle"]]
    /\ UNCHANGED <<plan, result, observation, claims, call>>

\* The dispatcher dies: what the worker answered is lost.
Crash(e) ==
    /\ dispatcher[e].at # "idle"
    /\ dispatcher' = [dispatcher EXCEPT ![e] = [at |-> "idle"]]
    /\ UNCHANGED <<plan, attempt, experiment, result, observation, claims, call>>

-----------------------------------------------------------------------------
(* Use cases.                                                               *)

Enter(p, context) ==
    /\ call[p].at = "idle"
    /\ call' = [call EXCEPT ![p] = context]

Goto(p, context) == call' = [call EXCEPT ![p] = context]

Return(p) == call' = [call EXCEPT ![p] = Idle]

\* execute on an experiment whose attempt is DISPATCHING: another controller than
\* the dispatcher's, or the one that restarted.  It reads, then writes.
FindInDoubt(p, e) ==
    /\ attempt[e] = "DISPATCHING"
    /\ Enter(p, [at |-> "marking", exp |-> e])
    /\ UNCHANGED <<execution, claims>>

MarkUnknown(p) ==
    /\ call[p].at = "marking"
    /\ attempt' = [attempt EXCEPT ![call[p].exp] = "UNKNOWN_OUTCOME"]
    /\ Return(p)
    /\ UNCHANGED <<plan, experiment, dispatcher, result, observation, claims>>

AssessmentsOf(e) == {a \in DOMAIN assessment : assessment[a].experiment = e}

EvaluateLoad(p, e) ==
    /\ Enter(p, [at |-> "evaluate", exp |-> e, experiment |-> experiment[e],
                 attempt |-> attempt[e]])
    /\ UNCHANGED <<execution, claims>>

\* The result, then the observations, then the assessments there are; an experiment
\* that has one is not evaluated again.
EvaluateRead(p) ==
    LET c == call[p] IN
    /\ c.at = "evaluate"
    /\ IF AssessmentsOf(c.exp) # {}
       THEN Return(p)
       ELSE Goto(p, [at |-> "assess", exp |-> c.exp,
                     outcome |-> IF Unusable(plan[c.exp], c.attempt, c.experiment, result[c.exp])
                                 THEN "EXECUTION_UNUSABLE"
                                 ELSE Verdict(plan[c.exp], observation[c.exp], MessageOf[c.exp])])
    /\ UNCHANGED <<execution, claims>>

\* Nothing stops a second assessment of the experiment.
InsertAssessment(p, a) ==
    LET c == call[p] IN
    /\ c.at = "assess"
    /\ a \notin DOMAIN assessment
    /\ assessment' =
          [b \in DOMAIN assessment \cup {a} |->
             IF b = a THEN [experiment |-> c.exp, run |-> RunOf[c.exp],
                            hypothesis |-> HypothesisOf[c.exp], outcome |-> c.outcome]
             ELSE assessment[b]]
    /\ Return(p)
    /\ UNCHANGED <<execution, evidence, candidate>>

-----------------------------------------------------------------------------
(* Evidence.                                                                *)

SUPPORTED_EVIDENCE_STRATEGIES ==
    {"diagnostic.echo", "http.authorization.differential", "http.state_transition"}

\* _select_assessment: the one the command names, else the last by id, else none.
Selectable(e) ==
    IF AssessmentsOf(e) = {} THEN {None} ELSE AssessmentsOf(e)

\* The command names an assessment or leaves it to the last: any may be selected.
AdmitLoad(p, e) ==
    /\ plan[e] \in SUPPORTED_EVIDENCE_STRATEGIES
    /\ \E a \in Selectable(e) :
          Enter(p, [at |-> "admit", exp |-> e, experiment |-> experiment[e], assessment |-> a,
                    outcome |-> IF a = None THEN None ELSE assessment[a].outcome])
    /\ UNCHANGED <<execution, claims>>

\* EvidenceAdmissionContext.execution_unusable, which knows more than the evaluators:
\* a worker that reports EXECUTION_FAILED supports nothing.
AdmissionUnusable(c) ==
    \/ c.outcome = "EXECUTION_UNUSABLE"
    \/ attempt[c.exp] \in UNUSABLE_ATTEMPT_STATES
    \/ c.experiment \in UNUSABLE_EXPERIMENT_STATES
    \/ result[c.exp] \in {"TIMED_OUT", "CANCELLED", "EXECUTION_FAILED"}

Observed(e) == IF observation[e] = None THEN {} ELSE {e}

ProposeEchoEvidence(c) ==
    [polarity |-> IF c.outcome = "CONSISTENT_WITH_PREDICTION" THEN "SUPPORTING" ELSE "CONTRADICTING",
     claim |-> IF c.outcome = "CONSISTENT_WITH_PREDICTION" THEN "echo_matched" ELSE "echo_mismatched"]

ProposeDifferentialEvidence(c) ==
    IF c.outcome = "CONSISTENT_WITH_PREDICTION"
    THEN [polarity |-> "SUPPORTING", claim |-> "object_access"]
    ELSE [polarity |-> "NEUTRAL", claim |-> "access_control_held"]

ProposeTransitionEvidence(c) ==
    IF c.outcome = "CONSISTENT_WITH_PREDICTION"
    THEN [polarity |-> "SUPPORTING", claim |-> "workflow_bypass"]
    ELSE [polarity |-> "NEUTRAL", claim |-> "workflow_control_held"]

\* The proposal the use case makes when the command has none.
ProposedEvidence(c) ==
    LET says == CASE plan[c.exp] = "diagnostic.echo" -> ProposeEchoEvidence(c)
                  [] plan[c.exp] = "http.authorization.differential" ->
                        ProposeDifferentialEvidence(c)
                  [] plan[c.exp] = "http.state_transition" -> ProposeTransitionEvidence(c) IN
    [run |-> RunOf[c.exp], hypothesis |-> HypothesisOf[c.exp], experiment |-> c.exp,
     polarity |-> says.polarity, claim |-> says.claim,
     observations |-> Observed(c.exp), assessments |-> {c.assessment} \ {None}]

\* Mutant: that the context's assessment is referenced is enough.
EvidenceInSomeContext(proposal, c) ==
    /\ proposal.observations # {}
    /\ proposal.observations \subseteq Observed(c.exp)
    /\ c.assessment # None /\ c.assessment \in proposal.assessments

\* The codes that every strategy rejects.
EvidenceInContext(proposal, c) ==
    /\ proposal.run = RunOf[c.exp]
    /\ proposal.hypothesis = HypothesisOf[c.exp]
    /\ proposal.experiment = c.exp
    /\ proposal.observations # {}
    /\ proposal.observations \subseteq Observed(c.exp)
    /\ c.assessment # None /\ c.assessment \in proposal.assessments

\* The polarity is not looked at.
AdmitEchoEvidence(proposal, c) ==
    \/ c.outcome = "CONSISTENT_WITH_PREDICTION" /\ proposal.claim = "echo_matched"
    \/ c.outcome = "CONTRADICTS_PREDICTION" /\ proposal.claim = "echo_mismatched"

AdmitDifferentialEvidence(proposal, c) ==
    /\ c.outcome = "CONSISTENT_WITH_PREDICTION"
    /\ proposal.claim = "object_access" /\ proposal.polarity = "SUPPORTING"

AdmitTransitionEvidence(proposal, c) ==
    /\ c.outcome = "CONSISTENT_WITH_PREDICTION"
    /\ proposal.claim = "workflow_bypass" /\ proposal.polarity = "SUPPORTING"

AdmitsEvidence(proposal, c) ==
    /\ ~AdmissionUnusable(c)
    /\ EvidenceInContext(proposal, c)
    /\ CASE plan[c.exp] = "diagnostic.echo" -> AdmitEchoEvidence(proposal, c)
         [] plan[c.exp] = "http.authorization.differential" ->
               AdmitDifferentialEvidence(proposal, c)
         [] plan[c.exp] = "http.state_transition" -> AdmitTransitionEvidence(proposal, c)

\* The observations, the attempt and the result are read, and what is admitted is
\* inserted; a rejection, or an echo with nothing to propose, inserts no evidence.
AdmitEvidence(p) ==
    LET c == call[p] IN
    /\ c.at = "admit"
    /\ \E proposal \in EvidenceProposals \cup {ProposedEvidence(c)} :
          IF AdmitsEvidence(proposal, c)
          THEN \E x \in EvidenceIds \ DOMAIN evidence :
                  evidence' = [y \in DOMAIN evidence \cup {x} |->
                                 IF y = x THEN proposal ELSE evidence[y]]
          ELSE UNCHANGED evidence
    /\ Return(p)
    /\ UNCHANGED <<execution, assessment, candidate>>

-----------------------------------------------------------------------------
(* Candidates.                                                              *)

ClassificationOf(claim) ==
    CASE claim = "echo_matched"    -> "DIAGNOSTIC_PLUMBING"
      [] claim = "object_access"   -> "HTTP_AUTHORIZATION_DIFFERENTIAL"
      [] claim = "workflow_bypass" -> "HTTP_STATE_TRANSITION_AUTHORIZATION"

ProposableClaims == {"echo_matched", "object_access", "workflow_bypass"}

\* The first of the three deterministic proposals that fits the evidence.
ProposedCandidates(x) ==
    IF evidence[x].polarity = "SUPPORTING" /\ evidence[x].claim \in ProposableClaims
    THEN {[run |-> evidence[x].run, hypothesis |-> evidence[x].hypothesis,
           claim |-> evidence[x].claim,
           classification |-> ClassificationOf(evidence[x].claim), evidence |-> {x}]}
    ELSE {}

\* Mutant: contradicting evidence makes a candidate too.
AdmitsAnyPolarity(proposal, x) ==
    /\ proposal.run = evidence[x].run
    /\ proposal.hypothesis = evidence[x].hypothesis
    /\ proposal.evidence = {x}
    /\ proposal.claim \in ProposableClaims
    /\ proposal.classification = ClassificationOf(proposal.claim)
    /\ evidence[x].claim = proposal.claim

\* admit_candidate.  Its last test of the claim, against the supporting evidence,
\* can fail no more once these hold.
AdmitsCandidate(proposal, x) ==
    /\ proposal.run = evidence[x].run
    /\ proposal.hypothesis = evidence[x].hypothesis
    /\ proposal.evidence = {x}
    /\ proposal.claim \in ProposableClaims
    /\ proposal.classification = ClassificationOf(proposal.claim)
    /\ evidence[x].polarity = "SUPPORTING"
    /\ evidence[x].claim = proposal.claim

\* Evidence does not change: one step.  The command may say that the target is out
\* of scope, or name a duplicate the proposal must agree with; either rejects.
ProposeCandidate(x, c) ==
    /\ x \in DOMAIN evidence /\ c \notin DOMAIN candidate
    /\ \E proposal \in CandidateProposals \cup ProposedCandidates(x) :
          /\ AdmitsCandidate(proposal, x)
          /\ candidate' = [d \in DOMAIN candidate \cup {c} |->
                             IF d = c THEN proposal ELSE candidate[d]]
    /\ UNCHANGED <<execution, assessment, evidence, call>>

-----------------------------------------------------------------------------
ExecutionStep(e) ==
    Dispatch(e) \/ RecordOutcome(e) \/ Ingest(e) \/ RejectIngestion(e) \/ Crash(e)

CallerStep(p) ==
    \/ \E e \in Active : FindInDoubt(p, e) \/ EvaluateLoad(p, e) \/ AdmitLoad(p, e)
    \/ MarkUnknown(p)
    \/ EvaluateRead(p)
    \/ \E a \in Assessments : InsertAssessment(p, a)
    \/ AdmitEvidence(p)

Next ==
    \/ \E e \in Active : ExecutionStep(e)
    \/ \E p \in Callers : CallerStep(p)
    \/ \E x \in EvidenceIds, c \in CandidateIds : ProposeCandidate(x, c)

Spec == Init /\ [][Next]_vars

-----------------------------------------------------------------------------
(* Properties.                                                             *)

\* What the observation of e must say for a claim to be true of its target.
Shows(claim, e) ==
    LET o == observation[e] IN
    CASE claim = "echo_matched"    -> MessageOf[e] # None /\ o.echoed = MessageOf[e]
      [] claim = "echo_mismatched" -> MessageOf[e] # None /\ o.echoed # MessageOf[e]
      [] claim = "object_access"   ->
            /\ o.cross_status = 200 /\ o.cross_owner = Cross /\ Cross # "a"
            /\ "a" \notin o.cross_readers
            /\ o.cross_visibility # "PUBLIC" /\ o.cross_kind # "SHARED"
            /\ 200 \notin {o.secure_status, o.unauth_status}
      [] claim = "workflow_bypass" ->
            /\ o.post_state = "APPROVED" /\ o.pre_state \in {"DRAFT", "UNDER_REVIEW"}
            /\ o.approved_by = "a" /\ "a" \notin o.delegated_reviewers
            /\ o.actor_role = "requester" /\ o.control_status # 200
      [] OTHER -> FALSE

StrategyOf(claim) ==
    CASE claim = "object_access"   -> "http.authorization.differential"
      [] claim = "workflow_bypass" -> "http.state_transition"
      [] OTHER                     -> "diagnostic.echo"

GroundedIn(e, row) ==
    /\ row.run = RunOf[e] /\ row.hypothesis = HypothesisOf[e]
    /\ row.observations = {e}
    /\ result[e] = "SUCCEEDED" /\ observation[e] # None
    /\ plan[e] = StrategyOf(row.claim) /\ Shows(row.claim, e)
    /\ \E a \in row.assessments \cap DOMAIN assessment :
          assessment[a].experiment = e /\ assessment[a].outcome \in Conclusive

\* Whatever a command proposes, evidence cites the observation of its own experiment, in
\* its own run, that observation shows what the evidence claims, and an assessment of the
\* experiment concluded it (admit_evidence; EvaluateExperimentFeedback.execute).
EvidenceGrounded ==
    \A x \in DOMAIN evidence : GroundedIn(evidence[x].experiment, evidence[x])

\* Evidence row supports candidate row.
Supports(row, proposal) ==
    /\ row.polarity = "SUPPORTING"
    /\ <<row.run, row.hypothesis>> = <<proposal.run, proposal.hypothesis>>
    /\ proposal.claim \in ProposableClaims
    /\ proposal.classification = ClassificationOf(proposal.claim)
    /\ result[row.experiment] = "SUCCEEDED" /\ Shows(proposal.claim, row.experiment)

\* A candidate rests on supporting evidence of its own run and hypothesis whose observation
\* shows the candidate's claim, with the classification of that claim (admit_candidate).
CandidateGrounded ==
    \A c \in DOMAIN candidate : \E x \in candidate[c].evidence \cap DOMAIN evidence :
        Supports(evidence[x], candidate[c])

\* Evaluations race with each other and with the ingestion, and each inserts its own
\* assessment; yet no two that conclude anything conclude differently, so that it does
\* not matter which of them admission picks (_select_assessment).
VerdictsAgree ==
    \A a, b \in DOMAIN assessment :
        (/\ assessment[a].experiment = assessment[b].experiment
         /\ {assessment[a].outcome, assessment[b].outcome} \subseteq Conclusive)
        => assessment[a].outcome = assessment[b].outcome

-----------------------------------------------------------------------------
(* The inductive invariant.                                                 *)

\* Nothing is observed of an experiment before its dispatcher ingests, and it
\* ingests once.
IngestedOnce ==
    \A e \in Experiments :
        /\ experiment[e] = "PLANNED" => dispatcher[e].at = "idle"
        /\ experiment[e] = "PLANNED" \/ dispatcher[e].at # "idle"
              => result[e] = "NONE" /\ observation[e] = None
        /\ dispatcher[e].at = "ingesting" => dispatcher[e].status \in ResultStatuses
        /\ observation[e] # None => result[e] = "SUCCEEDED"

\* What the observation of e says of its hypothesis, which stays what it is.
Concludes(e, outcome) ==
    /\ e \in Experiments
    /\ outcome \in Conclusive =>
          observation[e] # None /\ outcome = Verdict(plan[e], observation[e], MessageOf[e])

AssessmentsConclude ==
    \A a \in DOMAIN assessment : Concludes(assessment[a].experiment, assessment[a].outcome)

\* What a use case has read still holds when it writes.
CallOK(p) ==
    LET c == call[p] IN
    /\ c.at \in {"marking", "evaluate", "assess", "admit"} => c.exp \in Experiments
    /\ c.at = "assess" => Concludes(c.exp, c.outcome)
    /\ c.at = "admit" =>
          /\ plan[c.exp] \in SUPPORTED_EVIDENCE_STRATEGIES
          /\ c.assessment # None =>
                /\ c.assessment \in DOMAIN assessment
                /\ assessment[c.assessment].experiment = c.exp
                /\ assessment[c.assessment].outcome = c.outcome

EvidenceOfExperiments ==
    \A x \in DOMAIN evidence : evidence[x].experiment \in Experiments

Shape ==
    /\ plan \in [Experiments -> Strategies]
    /\ experiment = [e \in Experiments |-> experiment[e]]
    /\ dispatcher = [e \in Experiments |-> dispatcher[e]]
    /\ result = [e \in Experiments |-> result[e]]
    /\ observation = [e \in Experiments |-> observation[e]]
    /\ call = [p \in Callers |-> call[p]]

PipelineInvariant ==
    /\ Shape /\ IngestedOnce /\ AssessmentsConclude /\ (\A p \in Callers : CallOK(p))
    /\ EvidenceOfExperiments /\ EvidenceGrounded /\ CandidateGrounded
=============================================================================
