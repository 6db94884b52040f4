\* Every request to Core; one controller over three experiments under a rate limit.
SPECIFICATION ControlSpec
CONSTANTS
    WorkerRegistry <- MCCatalogue
    IntegrationAllowlist <- MCIntegrationAllowlist
    Controllers = {c1}
    Experiments = {e1, e2, e3}
    Requests = {r1, r2, r3}
    Free = Free
    NoExperiment = NoExperiment
    NoRequest = NoRequest
    e1 = e1
    Level <- MCLevel
    Capability <- MCCapability
    BrowserPage <- MCBrowserPage
    PageRequests = 2
    Commands <- MCCommands
    Issued <- MCIssued
    MaxRequests = 3
    MaxToolCalls = 2
    Subject = "t"
    RateLimit <- MCRateLimit
    MaxPerWindow = 2
    Window = 2
    MaxClock = 2
    Views <- MCViews
    Subjects = {"t", "u"}
    PlanSubject = "t"
    PlanBudget <- OneOfEach
    MaxUsage = 1
SYMMETRY Symmetry
CHECK_DEADLOCK FALSE
INVARIANTS
    DecisionIsRight
    RollingWindow
PROPERTIES
    RefusalSurvivesDrift
    OutcomeIsFinal
