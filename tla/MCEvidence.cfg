SPECIFICATION Spec
CONSTANTS
    None = None
    Cross = "b"
    e1 = e1
    e2 = e2
    Experiments = {e1, e2}
    Runs = {"run1", "run2"}
    Hypotheses = {"h1", "h2"}
    RunOf <- MCRunOf
    HypothesisOf <- MCHypothesisOf
    StrategiesOf <- MCStrategiesOf
    MessageOf <- MCMessageOf
    RawResults <- MCRawResults
    Assessments = {1, 2}
    EvidenceIds = {1}
    CandidateIds = {1}
    EvidenceProposals <- MCEvidenceProposals
    CandidateProposals <- MCCandidateProposals
    Callers = {p1, p2}
    Active = {e1}
    p1 = p1
    p2 = p2
SYMMETRY Symmetry
INVARIANTS
    EvidenceGrounded
    CandidateGrounded
    VerdictsAgree
