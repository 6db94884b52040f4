\* One process that may die once.
SPECIFICATION SelectionSpec
CONSTANTS
    Null = Null
    Contexts = {"own", "other", "flow"}
    FamilyOf <- MCFamilyOf
    ActorOf <- MCActorOf
    ResourceOf <- MCResourceOf
    VerifierOf <- MCVerifierOf
    Origins = {"http://a", "http://b"}
    AuthorizedOrigin = "http://a"
    Existing <- MCExisting
    MaxCycles = 5
    MaxExperiments = 4
    MaxModelCalls = 1
    MaxWorkerInvocations = 4
    MaxElapsed = 1
    PauseAfter <- MCPauseAfter
    Unobserved = {"EXECUTION_FAILED", "RUNNING"}
    MaxDeaths = 1
CONSTRAINT Bounded
INVARIANTS
    ProbedOnce
    VerdictStands
    NothingLeftUntried
CHECK_DEADLOCK FALSE
