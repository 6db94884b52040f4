----------------------- MODULE EvidencePipelineProofs -----------------------
(***************************************************************************)
(* Evidence and candidates are grounded, and racing assessments agree, for  *)
(* any number of callers, experiments and rows, whatever a command proposes *)
(* and whatever a worker answers.                                           *)
(*                                                                         *)
(* An observation is written once (IngestedOnce), so what a use case has    *)
(* concluded from one stays true (Kept) until it writes, and after.         *)
(***************************************************************************)
EXTENDS EvidencePipeline, TLAPS

\* No step changes a plan, an observation that is there, or its result.
Kept ==
    /\ plan' = plan
    /\ \A e \in Experiments : observation[e] # None =>
          observation'[e] = observation[e] /\ result'[e] = result[e]

\* No step changes a row, or takes one away.
RowsKept ==
    /\ \A a \in DOMAIN assessment : a \in DOMAIN assessment' /\ assessment'[a] = assessment[a]
    /\ \A x \in DOMAIN evidence : x \in DOMAIN evidence' /\ evidence'[x] = evidence[x]
    /\ \A c \in DOMAIN candidate : c \in DOMAIN candidate' /\ candidate'[c] = candidate[c]

-----------------------------------------------------------------------------
(* What an observation says.                                               *)

(* What an evaluator takes for the claim of its strategy is what shows the *)
(* claim; without an observation nothing is concluded.                     *)
LEMMA ConclusionShows ==
    ASSUME NEW e \in Experiments, NEW outcome, Concludes(e, outcome)
    PROVE  /\ outcome \in Conclusive => observation[e] # None
           /\ plan[e] = "diagnostic.echo" /\ outcome = "CONSISTENT_WITH_PREDICTION"
                => Shows("echo_matched", e)
           /\ plan[e] = "diagnostic.echo" /\ outcome = "CONTRADICTS_PREDICTION"
                => Shows("echo_mismatched", e)
           /\ plan[e] = "http.authorization.differential"
                /\ outcome = "CONSISTENT_WITH_PREDICTION" => Shows("object_access", e)
           /\ plan[e] = "http.state_transition"
                /\ outcome = "CONSISTENT_WITH_PREDICTION" => Shows("workflow_bypass", e)
<1>1. outcome \in Conclusive =>
         observation[e] # None /\ outcome = Verdict(plan[e], observation[e], MessageOf[e])
  BY DEF Concludes
<1>2. ASSUME plan[e] = "diagnostic.echo", outcome = "CONSISTENT_WITH_PREDICTION"
      PROVE  Shows("echo_matched", e)
  BY <1>1, <1>2 DEF Conclusive, Verdict, EchoVerdict, Shows
<1>3. ASSUME plan[e] = "diagnostic.echo", outcome = "CONTRADICTS_PREDICTION"
      PROVE  Shows("echo_mismatched", e)
  BY <1>1, <1>3 DEF Conclusive, Verdict, EchoVerdict, Shows
<1>4. ASSUME plan[e] = "http.authorization.differential", outcome = "CONSISTENT_WITH_PREDICTION"
      PROVE  Shows("object_access", e)
  <2>1. DifferentialVerdict(observation[e], MessageOf[e]) = "CONSISTENT_WITH_PREDICTION"
    BY <1>1, <1>4 DEF Conclusive, Verdict
  <2>2. QED
    BY <2>1 DEF DifferentialVerdict, OwnerProven, OwnerReadsOwn, GrantedToActor,
                DENIED_STATUSES, Shows
<1>5. ASSUME plan[e] = "http.state_transition", outcome = "CONSISTENT_WITH_PREDICTION"
      PROVE  Shows("workflow_bypass", e)
  <2>1. TransitionVerdict(observation[e], MessageOf[e]) = "CONSISTENT_WITH_PREDICTION"
    BY <1>1, <1>5 DEF Conclusive, Verdict
  <2>2. /\ ViolatesWorkflow(observation[e]) /\ BecameApproved(observation[e])
        /\ observation[e].control_status \in DENIED_OR_CONFLICT
    BY <2>1 DEF TransitionVerdict
  <2>3. QED
    BY <2>2 DEF ViolatesWorkflow, BecameApproved, Delegated, DENIED_OR_CONFLICT, Shows
<1>6. QED
  BY <1>1, <1>2, <1>3, <1>4, <1>5

(* A conclusion lasts.                                                     *)
LEMMA ConclusionKept ==
    ASSUME Kept, NEW e, NEW outcome, Concludes(e, outcome)
    PROVE  Concludes(e, outcome)'
BY DEF Kept, Concludes

(* Grounds last.                                                           *)
LEMMA GroundsKept ==
    ASSUME Kept, RowsKept, NEW e \in Experiments, NEW row, GroundedIn(e, row)
    PROVE  GroundedIn(e, row)'
<1>1. observation'[e] = observation[e] /\ result'[e] = result[e] /\ plan' = plan
  BY DEF GroundedIn, Kept
<1>2. Shows(row.claim, e)'
  BY <1>1 DEF GroundedIn, Shows
<1>3. \E a \in row.assessments \cap DOMAIN assessment' :
         assessment'[a].experiment = e /\ assessment'[a].outcome \in Conclusive
  BY DEF GroundedIn, RowsKept
<1>4. QED
  BY <1>1, <1>2, <1>3 DEF GroundedIn

LEMMA SupportKept ==
    ASSUME Kept, NEW row, NEW proposal, row.experiment \in Experiments,
           GroundedIn(row.experiment, row), Supports(row, proposal)
    PROVE  Supports(row, proposal)'
<1>1. /\ observation'[row.experiment] = observation[row.experiment]
      /\ result'[row.experiment] = result[row.experiment] /\ plan' = plan
  BY DEF GroundedIn, Kept
<1>2. Shows(proposal.claim, row.experiment)
  BY DEF Supports
<1>3. Shows(proposal.claim, row.experiment)'
  BY <1>1, <1>2 DEF Shows
<1>4. QED
  BY <1>1, <1>3 DEF Supports

(* What a use case has read lasts, too.                                    *)
LEMMA CallKept ==
    ASSUME Kept, RowsKept, NEW p \in Callers, CallOK(p), call'[p] = call[p]
    PROVE  CallOK(p)'
<1> DEFINE c == call[p]
<1>1. c.at = "assess" => Concludes(c.exp, c.outcome)'
  BY ConclusionKept DEF CallOK
<1>2. c.at = "admit" =>
        /\ plan'[c.exp] \in SUPPORTED_EVIDENCE_STRATEGIES
        /\ c.assessment # None =>
              /\ c.assessment \in DOMAIN assessment'
              /\ assessment'[c.assessment].experiment = c.exp
              /\ assessment'[c.assessment].outcome = c.outcome
  BY DEF CallOK, Kept, RowsKept
<1>3. QED
  BY <1>1, <1>2 DEF CallOK, Concludes

(* So a step keeps the invariant if the rows and the calls that are new do. *)
LEMMA NewRowsDecide ==
    ASSUME PipelineInvariant, Shape', IngestedOnce', Kept, RowsKept,
           \A a \in DOMAIN assessment' \ DOMAIN assessment :
              Concludes(assessment[a].experiment, assessment[a].outcome)',
           \A x \in DOMAIN evidence' \ DOMAIN evidence :
              evidence'[x].experiment \in Experiments
              /\ GroundedIn(evidence[x].experiment, evidence[x])',
           \A c \in DOMAIN candidate' \ DOMAIN candidate :
              (\E x \in candidate[c].evidence \cap DOMAIN evidence :
                  Supports(evidence[x], candidate[c]))',
           \A p \in Callers : call'[p] = call[p] \/ CallOK(p)'
    PROVE  PipelineInvariant'
<1> USE DEF PipelineInvariant
<1>1. AssessmentsConclude'
  <2>1. \A a \in DOMAIN assessment :
           Concludes(assessment[a].experiment, assessment[a].outcome)'
    BY ConclusionKept DEF AssessmentsConclude, RowsKept, Concludes
  <2>2. QED
    BY <2>1 DEF AssessmentsConclude
<1>2. (\A p \in Callers : CallOK(p))'
  BY CallKept
<1>3. EvidenceOfExperiments' /\ EvidenceGrounded'
  <2>1. ASSUME NEW x \in DOMAIN evidence
        PROVE  evidence'[x].experiment \in Experiments
               /\ GroundedIn(evidence[x].experiment, evidence[x])'
    <3> DEFINE row == evidence[x]
    <3>1. evidence'[x] = row /\ row.experiment \in Experiments /\ GroundedIn(row.experiment, row)
      BY DEF RowsKept, EvidenceOfExperiments, EvidenceGrounded
    <3>2. QED
      BY <3>1, GroundsKept
  <2>2. QED
    BY <2>1 DEF EvidenceOfExperiments, EvidenceGrounded
<1>4. CandidateGrounded'
  <2>1. ASSUME NEW c \in DOMAIN candidate
        PROVE  (\E x \in candidate[c].evidence \cap DOMAIN evidence :
                  Supports(evidence[x], candidate[c]))'
    <3>1. PICK x \in candidate[c].evidence \cap DOMAIN evidence :
             Supports(evidence[x], candidate[c])
      BY DEF CandidateGrounded
    <3>2. evidence[x].experiment \in Experiments
          /\ GroundedIn(evidence[x].experiment, evidence[x])
      BY DEF EvidenceOfExperiments, EvidenceGrounded
    <3>3. evidence'[x] = evidence[x] /\ candidate'[c] = candidate[c]
      BY DEF RowsKept
    <3>4. Supports(evidence[x], candidate[c])'
      BY <3>1, <3>2, <3>3, SupportKept
    <3>5. x \in candidate'[c].evidence \cap DOMAIN evidence'
      BY <3>3 DEF RowsKept
    <3>6. QED
      BY <3>4, <3>5
  <2>2. QED
    BY <2>1 DEF CandidateGrounded, RowsKept
<1>5. QED
  BY <1>1, <1>2, <1>3, <1>4

-----------------------------------------------------------------------------
(* The invariant.                                                          *)

LEMMA InitInvariant == Init => PipelineInvariant
<1> SUFFICES ASSUME Init PROVE PipelineInvariant
  OBVIOUS
<1>1. Shape
  BY DEF Init, Shape
<1>2. IngestedOnce
  BY DEF Init, IngestedOnce
<1>3. \A p \in Callers : CallOK(p)
  BY DEF Init, Idle, CallOK
<1>4. AssessmentsConclude /\ EvidenceOfExperiments /\ EvidenceGrounded /\ CandidateGrounded
  BY DEF Init, AssessmentsConclude, EvidenceOfExperiments, EvidenceGrounded, CandidateGrounded
<1>5. QED
  BY <1>1, <1>2, <1>3, <1>4 DEF PipelineInvariant

(* The dispatcher writes no claim, and an observation only where none is.   *)
LEMMA ExecutionKeepsInvariant ==
    ASSUME PipelineInvariant, NEW e \in Experiments, ExecutionStep(e)
    PROVE  PipelineInvariant'
<1> USE DEF PipelineInvariant
<1>1. UNCHANGED <<plan, claims, call>>
  BY DEF ExecutionStep, Dispatch, RecordOutcome, Ingest, RejectIngestion, Crash
<1>2. RowsKept
  BY <1>1 DEF RowsKept, claims
<1>3. Shape'
  <2>1. UNCHANGED plan /\ plan \in [Experiments -> Strategies] /\ UNCHANGED call
    BY <1>1 DEF Shape
  <2>2. call' = [p \in Callers |-> call'[p]]
    BY <2>1 DEF Shape
  <2>3. /\ experiment' = [d \in Experiments |-> experiment'[d]]
        /\ dispatcher' = [d \in Experiments |-> dispatcher'[d]]
        /\ result' = [d \in Experiments |-> result'[d]]
        /\ observation' = [d \in Experiments |-> observation'[d]]
    BY DEF Shape, ExecutionStep, Dispatch, RecordOutcome, Ingest, RejectIngestion, Crash
  <2>4. QED
    BY <2>1, <2>2, <2>3 DEF Shape
<1>4. Kept /\ IngestedOnce'
  <2>1. CASE Dispatch(e)
    BY <2>1 DEF Dispatch, Kept, IngestedOnce, Shape
  <2>2. CASE RecordOutcome(e)
    BY <2>2 DEF RecordOutcome, AfterResult, Failures, Kept, IngestedOnce, Shape,
                    ResultStatuses
  <2>3. CASE Ingest(e)
    BY <2>3 DEF Ingest, Kept, IngestedOnce, Shape, ResultStatuses,
                    STATUSES_WITHOUT_TARGET_OBSERVATION
  <2>4. CASE RejectIngestion(e)
    BY <2>4 DEF RejectIngestion, Kept, IngestedOnce, Shape
  <2>5. CASE Crash(e)
    BY <2>5 DEF Crash, Kept, IngestedOnce, Shape
  <2>6. QED
    BY <2>1, <2>2, <2>3, <2>4, <2>5 DEF ExecutionStep
<1>5. QED
  BY <1>1, <1>2, <1>3, <1>4, NewRowsDecide DEF claims

(* A use case that writes nothing but its own call keeps what it has read.  *)
LEMMA ReadKeepsInvariant ==
    ASSUME PipelineInvariant, NEW p \in Callers, NEW context,
           Goto(p, context), UNCHANGED <<execution, claims>>, CallOK(p)'
    PROVE  PipelineInvariant'
<1> USE DEF PipelineInvariant
<1>1. Kept /\ RowsKept
  BY DEF Kept, RowsKept, execution, claims
<1>2. Shape' /\ IngestedOnce'
  BY DEF Shape, IngestedOnce, execution, Goto
<1>3. \A q \in Callers : call'[q] = call[q] \/ CallOK(q)'
  BY DEF Goto, Shape
<1>4. QED
  BY <1>1, <1>2, <1>3, NewRowsDecide DEF claims

LEMMA FindInDoubtKeepsInvariant ==
    ASSUME PipelineInvariant, NEW p \in Callers, NEW e \in Experiments, FindInDoubt(p, e)
    PROVE  PipelineInvariant'
<1> DEFINE context == [at |-> "marking", exp |-> e]
<1>1. Goto(p, context) /\ UNCHANGED <<execution, claims>>
  BY DEF FindInDoubt, Enter, Goto
<1>2. call'[p] = context
  BY <1>1 DEF Goto, PipelineInvariant, Shape
<1>3. call'[p].at = "marking" /\ call'[p].exp = e
  BY <1>2
<1>4. CallOK(p)'
  BY <1>3 DEF CallOK
<1>5. QED
  BY <1>1, <1>4, ReadKeepsInvariant

LEMMA MarkUnknownKeepsInvariant ==
    ASSUME PipelineInvariant, NEW p \in Callers, MarkUnknown(p)
    PROVE  PipelineInvariant'
<1> USE DEF PipelineInvariant
<1>1. Kept /\ RowsKept
  BY DEF Kept, RowsKept, MarkUnknown, claims
<1>2. Shape' /\ IngestedOnce'
  BY DEF Shape, IngestedOnce, MarkUnknown, Return
<1>3. \A q \in Callers : call'[q] = call[q] \/ CallOK(q)'
  BY DEF MarkUnknown, Return, Idle, Shape, CallOK
<1>4. UNCHANGED claims
  BY DEF MarkUnknown
<1>5. QED
  BY <1>1, <1>2, <1>3, <1>4, NewRowsDecide DEF claims

LEMMA EvaluateLoadKeepsInvariant ==
    ASSUME PipelineInvariant, NEW p \in Callers, NEW e \in Experiments, EvaluateLoad(p, e)
    PROVE  PipelineInvariant'
<1> DEFINE context == [at |-> "evaluate", exp |-> e, experiment |-> experiment[e],
                       attempt |-> attempt[e]]
<1>1. Goto(p, context) /\ UNCHANGED <<execution, claims>>
  BY DEF EvaluateLoad, Enter, Goto
<1>2. call'[p] = context
  BY <1>1 DEF Goto, PipelineInvariant, Shape
<1>3. call'[p].at = "evaluate" /\ call'[p].exp = e
  BY <1>2
<1>4. CallOK(p)'
  BY <1>3 DEF CallOK
<1>5. QED
  BY <1>1, <1>4, ReadKeepsInvariant

(* What the evaluator concludes, it concludes from the observation that is  *)
(* there: without one its outcome is INCONCLUSIVE.                          *)
LEMMA EvaluateReadKeepsInvariant ==
    ASSUME PipelineInvariant, NEW p \in Callers, EvaluateRead(p)
    PROVE  PipelineInvariant'
<1> DEFINE c == call[p]
           outcome == IF Unusable(plan[c.exp], c.attempt, c.experiment, result[c.exp])
                      THEN "EXECUTION_UNUSABLE"
                      ELSE Verdict(plan[c.exp], observation[c.exp], MessageOf[c.exp])
           context == [at |-> "assess", exp |-> c.exp, outcome |-> outcome]
<1>1. c.at = "evaluate" /\ c.exp \in Experiments
  BY DEF EvaluateRead, PipelineInvariant, CallOK
<1>2. UNCHANGED <<execution, claims>>
  BY DEF EvaluateRead
<1>3. CASE Return(p)
  <2>1. Goto(p, Idle)
    BY <1>3 DEF Return, Goto
  <2>2. CallOK(p)'
    BY <2>1 DEF Goto, Idle, CallOK, PipelineInvariant, Shape
  <2>3. QED
    BY <1>2, <2>1, <2>2, ReadKeepsInvariant
<1>4. CASE Goto(p, context)
  <2>1. Concludes(c.exp, outcome)
    <3>1. outcome \in Conclusive =>
            outcome = Verdict(plan[c.exp], observation[c.exp], MessageOf[c.exp])
      BY DEF Conclusive
    <3>2. observation[c.exp] = None =>
            Verdict(plan[c.exp], observation[c.exp], MessageOf[c.exp]) = "INCONCLUSIVE"
      BY DEF Verdict, Absence
    <3>3. QED
      BY <1>1, <3>1, <3>2 DEF Concludes, Conclusive
  <2>2. call'[p] = context
    BY <1>4 DEF Goto, PipelineInvariant, Shape
  <2>3. PICK e, o : e = c.exp /\ o = outcome /\ Concludes(e, o)
    BY <2>1
  <2>4. CallOK(p)'
    <3>1. Concludes(e, o)'
      BY <1>2, <2>3, ConclusionKept DEF Kept, execution
    <3>2. call'[p].at = "assess" /\ call'[p].exp = e /\ call'[p].outcome = o
      BY <2>2, <2>3
    <3>3. QED
      BY <1>1, <2>3, <3>1, <3>2 DEF CallOK
  <2>5. QED
    BY <1>2, <1>4, <2>4, ReadKeepsInvariant
<1>5. QED
  BY <1>3, <1>4 DEF EvaluateRead

LEMMA InsertAssessmentKeepsInvariant ==
    ASSUME PipelineInvariant, NEW p \in Callers, NEW a, InsertAssessment(p, a)
    PROVE  PipelineInvariant'
<1> USE DEF PipelineInvariant
<1>1. Kept /\ RowsKept
  BY DEF Kept, RowsKept, InsertAssessment, execution
<1>2. Shape' /\ IngestedOnce'
  BY DEF Shape, IngestedOnce, InsertAssessment, Return, execution
<1>3. \A q \in Callers : call'[q] = call[q] \/ CallOK(q)'
  BY DEF InsertAssessment, Return, Idle, Shape, CallOK
<1>4. \A b \in DOMAIN assessment' \ DOMAIN assessment :
         Concludes(assessment[b].experiment, assessment[b].outcome)'
  <2>1. PICK e, o : e = call[p].exp /\ o = call[p].outcome /\ Concludes(e, o)
    BY DEF InsertAssessment, CallOK
  <2>2. Concludes(e, o)'
    BY <1>1, <2>1, ConclusionKept
  <2>3. \A b \in DOMAIN assessment' \ DOMAIN assessment :
           assessment'[b].experiment = e /\ assessment'[b].outcome = o
    BY <2>1 DEF InsertAssessment
  <2>4. QED
    BY <2>2, <2>3
<1>5. UNCHANGED <<evidence, candidate>>
  BY DEF InsertAssessment
<1>6. QED
  BY <1>1, <1>2, <1>3, <1>4, <1>5, NewRowsDecide

LEMMA AdmitLoadKeepsInvariant ==
    ASSUME PipelineInvariant, NEW p \in Callers, NEW e \in Experiments, AdmitLoad(p, e)
    PROVE  PipelineInvariant'
<1>1. PICK a \in Selectable(e) :
         Goto(p, [at |-> "admit", exp |-> e, experiment |-> experiment[e], assessment |-> a,
                  outcome |-> IF a = None THEN None ELSE assessment[a].outcome])
  BY DEF AdmitLoad, Enter, Goto
<1> DEFINE context == [at |-> "admit", exp |-> e, experiment |-> experiment[e],
                       assessment |-> a,
                       outcome |-> IF a = None THEN None ELSE assessment[a].outcome]
<1>2. UNCHANGED <<execution, claims>> /\ plan[e] \in SUPPORTED_EVIDENCE_STRATEGIES
  BY DEF AdmitLoad
<1>3. call'[p] = context
  BY <1>1 DEF Goto, PipelineInvariant, Shape
<1>4. call'[p].at = "admit" /\ call'[p].exp = e /\ call'[p].assessment = a
  BY <1>3
<1>5. a # None => call'[p].outcome = assessment[a].outcome
  BY <1>3
<1>6. a # None => a \in DOMAIN assessment /\ assessment[a].experiment = e
  BY <1>1 DEF Selectable, AssessmentsOf
<1>7. CallOK(p)'
  BY <1>2, <1>4, <1>5, <1>6 DEF CallOK, execution, claims
<1>8. QED
  BY <1>1, <1>2, <1>7, ReadKeepsInvariant

(* Evidence is admitted for what its observation shows, and the assessment  *)
(* it must cite concluded that.                                            *)
LEMMA AdmittedIsGrounded ==
    ASSUME PipelineInvariant, NEW p \in Callers, call[p].at = "admit", NEW proposal,
           AdmitsEvidence(proposal, call[p])
    PROVE  /\ proposal.experiment = call[p].exp /\ call[p].exp \in Experiments
           /\ GroundedIn(call[p].exp, proposal)
<1> DEFINE c == call[p]
           a == c.assessment
<1>1. /\ EvidenceInContext(proposal, c)
      /\ \/ plan[c.exp] = "diagnostic.echo" /\ AdmitEchoEvidence(proposal, c)
         \/ plan[c.exp] = "http.authorization.differential"
              /\ AdmitDifferentialEvidence(proposal, c)
         \/ plan[c.exp] = "http.state_transition" /\ AdmitTransitionEvidence(proposal, c)
  BY DEF AdmitsEvidence, PipelineInvariant, CallOK, SUPPORTED_EVIDENCE_STRATEGIES
<1>2. /\ c.exp \in Experiments /\ a \in DOMAIN assessment \cap proposal.assessments
      /\ assessment[a].experiment = c.exp /\ assessment[a].outcome = c.outcome
  BY <1>1 DEF EvidenceInContext, PipelineInvariant, CallOK
<1>3. Concludes(c.exp, c.outcome)
  BY <1>2 DEF PipelineInvariant, AssessmentsConclude
<1>4. c.outcome \in Conclusive
  BY <1>1 DEF AdmitEchoEvidence, AdmitDifferentialEvidence, AdmitTransitionEvidence, Conclusive
<1>5. observation[c.exp] # None /\ result[c.exp] = "SUCCEEDED"
  BY <1>2, <1>3, <1>4 DEF Concludes, PipelineInvariant, IngestedOnce
<1>6. /\ proposal.run = RunOf[c.exp] /\ proposal.hypothesis = HypothesisOf[c.exp]
      /\ proposal.experiment = c.exp /\ proposal.observations = {c.exp}
  BY <1>1 DEF EvidenceInContext, Observed
<1>7. plan[c.exp] = StrategyOf(proposal.claim) /\ Shows(proposal.claim, c.exp)
  <2>1. CASE plan[c.exp] = "diagnostic.echo" /\ AdmitEchoEvidence(proposal, c)
    BY <1>2, <1>3, <2>1, ConclusionShows DEF AdmitEchoEvidence, StrategyOf
  <2>2. CASE plan[c.exp] = "http.authorization.differential"
               /\ AdmitDifferentialEvidence(proposal, c)
    BY <1>2, <1>3, <2>2, ConclusionShows DEF AdmitDifferentialEvidence, StrategyOf
  <2>3. CASE plan[c.exp] = "http.state_transition" /\ AdmitTransitionEvidence(proposal, c)
    BY <1>2, <1>3, <2>3, ConclusionShows DEF AdmitTransitionEvidence, StrategyOf
  <2>4. QED
    BY <1>1, <2>1, <2>2, <2>3
<1>8. QED
  BY <1>2, <1>4, <1>5, <1>6, <1>7 DEF GroundedIn

LEMMA AdmitEvidenceKeepsInvariant ==
    ASSUME PipelineInvariant, NEW p \in Callers, AdmitEvidence(p)
    PROVE  PipelineInvariant'
<1>1. UNCHANGED <<execution, assessment, candidate>> /\ call[p].at = "admit"
  BY DEF AdmitEvidence
<1>2. Kept /\ RowsKept
  BY <1>1 DEF AdmitEvidence, Kept, RowsKept, execution
<1>3. Shape' /\ IngestedOnce'
  BY <1>1 DEF PipelineInvariant, Shape, IngestedOnce, AdmitEvidence, Return, execution
<1>4. \A q \in Callers : call'[q] = call[q] \/ CallOK(q)'
  BY DEF AdmitEvidence, Return, Idle, PipelineInvariant, Shape, CallOK
<1>5. ASSUME NEW x \in DOMAIN evidence' \ DOMAIN evidence
      PROVE  evidence'[x].experiment \in Experiments
             /\ GroundedIn(evidence[x].experiment, evidence[x])'
  <2>1. PICK row : AdmitsEvidence(row, call[p]) /\ evidence'[x] = row
    <3>1. evidence' # evidence
      OBVIOUS
    <3>2. PICK row, y : /\ AdmitsEvidence(row, call[p]) /\ y \notin DOMAIN evidence
                        /\ evidence' = [z \in DOMAIN evidence \cup {y} |->
                                          IF z = y THEN row ELSE evidence[z]]
      BY <3>1, Zenon DEF AdmitEvidence
    <3>3. x = y /\ evidence'[x] = row
      BY <3>2
    <3>4. QED
      BY <3>2, <3>3
  <2>2. PICK e \in Experiments : row.experiment = e /\ GroundedIn(e, row)
    BY <1>1, <2>1, AdmittedIsGrounded
  <2>3. GroundedIn(e, row)'
    BY <1>2, <2>2, GroundsKept
  <2>4. QED
    BY <2>1, <2>2, <2>3
<1>6. QED
  BY <1>1, <1>2, <1>3, <1>4, <1>5, NewRowsDecide

(* A candidate takes the claim of supporting evidence.                     *)
LEMMA ProposeCandidateKeepsInvariant ==
    ASSUME PipelineInvariant, NEW x, NEW c, ProposeCandidate(x, c)
    PROVE  PipelineInvariant'
<1>1. UNCHANGED <<execution, assessment, evidence, call>>
  BY DEF ProposeCandidate
<1>2. Kept /\ RowsKept
  BY <1>1 DEF ProposeCandidate, Kept, RowsKept, execution
<1>3. Shape' /\ IngestedOnce'
  BY <1>1 DEF PipelineInvariant, Shape, IngestedOnce, execution
<1>4. ASSUME NEW d \in DOMAIN candidate' \ DOMAIN candidate
      PROVE  (\E y \in candidate[d].evidence \cap DOMAIN evidence :
                Supports(evidence[y], candidate[d]))'
  <2>1. PICK row : AdmitsCandidate(row, x) /\ candidate'[d] = row /\ x \in DOMAIN evidence
    BY DEF ProposeCandidate
  <2>2. /\ GroundedIn(evidence[x].experiment, evidence[x])
        /\ evidence[x].experiment \in Experiments
    BY <2>1 DEF PipelineInvariant, EvidenceGrounded, EvidenceOfExperiments
  <2>3. Supports(evidence[x], row)
    BY <2>1, <2>2 DEF AdmitsCandidate, GroundedIn, Supports
  <2>4. PICK ev : ev = evidence[x] /\ Supports(ev, row) /\ GroundedIn(ev.experiment, ev)
                  /\ ev.experiment \in Experiments
    BY <2>2, <2>3
  <2>5. Supports(ev, row)'
    BY <1>2, <2>4, SupportKept
  <2>6. x \in row.evidence \cap DOMAIN evidence' /\ evidence'[x] = ev
    BY <1>1, <2>1, <2>4 DEF AdmitsCandidate
  <2>7. QED
    BY <2>1, <2>5, <2>6
<1>5. QED
  BY <1>1, <1>2, <1>3, <1>4, NewRowsDecide

LEMMA StutterKeepsInvariant == PipelineInvariant /\ UNCHANGED vars => PipelineInvariant'
BY DEF vars, PipelineInvariant, Shape, IngestedOnce, AssessmentsConclude, Concludes, CallOK,
       EvidenceOfExperiments, EvidenceGrounded, GroundedIn, CandidateGrounded, Supports, Shows

(* The pipeline's invariant holds in every behaviour of the use cases, the  *)
(* dispatcher and its crashes.                                             *)
THEOREM PipelineInvariantHolds == Spec => []PipelineInvariant
<1>1. PipelineInvariant /\ [Next]_vars => PipelineInvariant'
  <2> SUFFICES ASSUME PipelineInvariant, Next PROVE PipelineInvariant'
    BY StutterKeepsInvariant
  <2>1. ASSUME NEW e \in Active, ExecutionStep(e) PROVE PipelineInvariant'
    BY <2>1, PipelineAssumption, ExecutionKeepsInvariant
  <2>2. ASSUME NEW p \in Callers, CallerStep(p) PROVE PipelineInvariant'
    <3>1. ASSUME NEW e \in Active, FindInDoubt(p, e) \/ EvaluateLoad(p, e) \/ AdmitLoad(p, e)
          PROVE  PipelineInvariant'
      BY <3>1, PipelineAssumption, FindInDoubtKeepsInvariant, EvaluateLoadKeepsInvariant,
         AdmitLoadKeepsInvariant
    <3>2. QED
      BY <2>2, <3>1, MarkUnknownKeepsInvariant, EvaluateReadKeepsInvariant,
         InsertAssessmentKeepsInvariant, AdmitEvidenceKeepsInvariant DEF CallerStep
  <2>3. ASSUME NEW x \in EvidenceIds, NEW c \in CandidateIds, ProposeCandidate(x, c)
        PROVE  PipelineInvariant'
    BY <2>3, ProposeCandidateKeepsInvariant
  <2>4. QED
    BY <2>1, <2>2, <2>3 DEF Next
<1>2. QED
  BY <1>1, InitInvariant, PTL DEF Spec

(* Evidence cites the observation of its own experiment, and that shows what *)
(* it claims (admit_evidence).                                             *)
THEOREM EvidenceIsGrounded == Spec => []EvidenceGrounded
<1>1. PipelineInvariant => EvidenceGrounded
  BY DEF PipelineInvariant
<1>2. QED
  BY <1>1, PipelineInvariantHolds, PTL

(* A candidate rests on evidence that shows its claim (admit_candidate).    *)
THEOREM CandidateIsGrounded == Spec => []CandidateGrounded
<1>1. PipelineInvariant => CandidateGrounded
  BY DEF PipelineInvariant
<1>2. QED
  BY <1>1, PipelineInvariantHolds, PTL

(* Of an experiment's assessments, those that conclude agree, whatever they *)
(* raced with (EvaluateExperimentFeedback).                                *)
THEOREM AssessmentsAgree == Spec => []VerdictsAgree
<1>1. PipelineInvariant => VerdictsAgree
  BY DEF PipelineInvariant, AssessmentsConclude, Concludes, VerdictsAgree
<1>2. QED
  BY <1>1, PipelineInvariantHolds, PTL
=============================================================================
