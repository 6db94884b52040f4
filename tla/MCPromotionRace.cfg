SPECIFICATION Spec
CONSTANTS
    Actors = {a1, a2}
    x1 = x1
    x2 = x2
    x3 = x3
    x4 = x4
    x5 = x5
    Experiments = {x1, x2, x3, x4, x5}
    Class <- MCClass
    Shows <- MCShows
    ControlsHeld = {x1, x2, x4, x5}
    Candidates = {c1, c2}
    Verifications = {v1, v2}
    Proposals = {p1}
    NoCandidate = NoCandidate
    NoExperiment = NoExperiment
    NoProposal = NoProposal
SYMMETRY Symmetry
CONSTRAINT Bounded
CHECK_DEADLOCK FALSE
INVARIANTS
    FindingProvenance
    OneDecision
PROPERTY
    KeepsFormula
