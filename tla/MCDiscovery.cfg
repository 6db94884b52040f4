\* One controller that may die once or lose its worker once.
CONSTANTS
    r1 = r1
    r2 = r2
    Paths = {"/", "/a"}
    Controls = {"next", "twin", "out"}
    ControlsOf <- MCControlsOf
    LeadsTo <- MCLeadsTo
    MaxContexts = 2
    Runners = {r1}
    Seed = "/"
    Identities = {"x"}
    SessionOf <- MCSessionOf
    Requests <- MCRequests
    SideEffect = {"POST"}
    Refusable = {"POST"}
    Ambiguous = {"twin"}
    MaxDiscoveryCycles = 7
    MaxFrontierItems = 12
    MaxBrowserActions = 8
    MaxHttpTransactions = 4
    MaxPerRouteRevisit = 2
    MaxIdentityVariants = 1
    MaxFaults = 1
SPECIFICATION FairSpec
INVARIANTS
    RememberedPageIsShown
PROPERTIES
    EveryObservationProjected
    DiscoveryStops
CHECK_DEADLOCK FALSE
