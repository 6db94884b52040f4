SPECIFICATION TimelessSpec
CONSTANTS
    WorkerRegistry <- MCWorkerRegistry
    IntegrationAllowlist <- MCIntegrationAllowlist
    Controllers = {c1, c2}
    Experiments = {e1, e2}
    Requests = {r1, r2}
    Free = Free
    NoExperiment = NoExperiment
    NoRequest = NoRequest
    e1 = e1
    Level <- MCLevel
    Capability <- MCCapability
    BrowserPage <- MCBrowserPage
    PageRequests = 2
    Commands <- MCCommands
    Issued <- MCIssued
    MaxRequests = 2
    MaxToolCalls = 1
    Subject = "t"
    RateLimit <- Missing
    MaxPerWindow = 1
    Window = 2
    MaxClock = 0
CHECK_DEADLOCK FALSE
INVARIANTS
    LedgerWithinAllowance
    InvocationsPaidFor
    NoReplayAfterCrash
PROPERTY
    KeepsPromise
    CallsReturn
