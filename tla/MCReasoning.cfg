\* Two runs of a program, one of which may die once; a routing request.
SPECIFICATION Spec
CONSTANTS
    None = None
    ResearchRuns = {"r1", "r2"}
    RoutingRequests <- MCRoutingRequests
    UnderWay <- MCUnderWay
    Policies <- MCPolicies
    Prices <- MCPrices
    PerTokens = 2
    ContextBudget <- MCContextBudget
    StepRequests <- MCStepRequests
    GeneratorResults <- MCGeneratorResults
    FalsifierResults <- MCFalsifierResults
    MaxRunModelCalls = 3
    SideEffectCeiling = 0
    MaxRunExperiments = 2
    MaxDays = 2
    MaxCrashes <- MCMaxCrashes
    MaxCalls <- MCMaxCalls
CONSTRAINT Bounded
INVARIANTS
    HypothesisGrounded
    LostOnlyToDeaths
    DailySpendBounded
    FallbackBounded
CHECK_DEADLOCK FALSE
