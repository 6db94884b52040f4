\* Two controllers on one run, one fault between them.
CONSTANTS
    r1 = r1
    r2 = r2
    Paths = {"/", "/a"}
    Controls = {"next"}
    ControlsOf <- MCOneLink
    LeadsTo <- MCLeadsTo
    MaxContexts = 2
    Runners = {r1, r2}
    Seed = "/"
    Identities = {"x"}
    SessionOf <- MCSessionOf
    Requests <- MCNoRequests
    SideEffect = {}
    Refusable = {}
    Ambiguous = {}
    MaxDiscoveryCycles = 3
    MaxFrontierItems = 12
    MaxBrowserActions = 8
    MaxHttpTransactions = 4
    MaxPerRouteRevisit = 2
    MaxIdentityVariants = 1
    MaxFaults = 1
SPECIFICATION Spec
SYMMETRY Symmetry
INVARIANTS
    LogLegal
    ClaimRunsOnce
    ProjectedOnce
CHECK_DEADLOCK FALSE
