------------------------------ MODULE MCEvidence ------------------------------
(***************************************************************************)
(* Instantiates EvidencePipeline: e1 may be of any strategy; e2 is an echo  *)
(* of another run that is planned and never dispatched, whose run,          *)
(* hypothesis and observation a proposal for e1 may cite.  The raw results  *)
(* of the two differential strategies are the one that shows the claim and  *)
(* its neighbours, which differ from it in one answer.                      *)
(***************************************************************************)
EXTENDS EvidencePipeline, TLC

CONSTANTS e1, e2, p1, p2

MCRunOf == (e1 :> "run1") @@ (e2 :> "run2")
MCHypothesisOf == (e1 :> "h1") @@ (e2 :> "h2")
MCStrategiesOf == (e1 :> Strategies) @@ (e2 :> {"diagnostic.echo"})
MCMessageOf == (e1 :> "m") @@ (e2 :> "m")

Private == [status |-> 200, owner |-> "b", visibility |-> "PRIVATE", readers |-> {}, kind |-> None]

Differential(own, cross, secure, unauth) ==
    [owner_request |-> own, cross_object_request |-> cross, secure_control |-> secure,
     unauthenticated_control |-> unauth]

Own == [status |-> 200, owner |-> "a"]
Refused == [status |-> 403]

Differentials ==
    {Differential(Own, cross, Refused, Refused) :
        cross \in {Private, [Private EXCEPT !.visibility = "PUBLIC"],
                   [Private EXCEPT !.readers = {"a"}], [Private EXCEPT !.kind = "SHARED"],
                   [Private EXCEPT !.owner = None], [Private EXCEPT !.status = 403]}}
    \cup {Differential(Refused @@ [owner |-> None], Private, Refused, Refused),
          Differential(Own, Private, [status |-> 200], Refused),
          Differential(Own, Private, Refused, [status |-> 200])}

Transition(pre, response, post, control) ==
    [pre_state_request |-> pre, transition_request |-> [status |-> response],
     post_state_request |-> post, control_request |-> [status |-> control]]

Pre == [state |-> "UNDER_REVIEW", actor_role |-> "requester", delegated_reviewers |-> {}]
Post == [state |-> "APPROVED", actor_role |-> None, approved_by |-> "a"]

Transitions ==
    {Transition(pre, 200, Post, 403) :
        pre \in {Pre, [Pre EXCEPT !.state = "DRAFT"], [Pre EXCEPT !.state = "APPROVED"],
                 [Pre EXCEPT !.actor_role = "reviewer"],
                 [Pre EXCEPT !.delegated_reviewers = {"a"}]}}
    \cup {Transition(Pre, 200, [Post EXCEPT !.approved_by = "b"], 403),
          Transition(Pre, 200, [Post EXCEPT !.state = None], 403),
          Transition(Pre, 200, [Post EXCEPT !.state = "UNDER_REVIEW"], 200),
          Transition(Pre, 409, [Post EXCEPT !.state = "UNDER_REVIEW"], 200),
          Transition(Pre, 403, [Post EXCEPT !.state = "UNDER_REVIEW"], 403),
          Transition(Pre, 200, Post, 200)}

MCRawResults(s) ==
    {None} \cup
    CASE s = "diagnostic.echo" -> [echoed : {"m", "n"}]
      [] s = "http.authorization.differential" -> Differentials
      [] s = "http.state_transition" -> Transitions
      [] s = "http.transaction" -> [status_code : {200}]
      [] s = "http.authentication" -> [status_code : {200}, session_established : {TRUE}]

MCEvidenceProposals ==
    [run : Runs, hypothesis : Hypotheses, experiment : Experiments, claim : ProposableClaims,
     polarity : {"SUPPORTING", "CONTRADICTING"}, observations : {{e1}, {e2}},
     assessments : {{a} : a \in Assessments}]

MCCandidateProposals ==
    [run : Runs, hypothesis : Hypotheses, claim : ProposableClaims,
     classification : Classifications, evidence : {{x} : x \in EvidenceIds}]

Symmetry == Permutations(Callers)
=============================================================================
