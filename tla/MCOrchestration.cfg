\* One controller with crashes, an operator beside it, and the clock.
CONSTANTS
    MaxCycles = 2
    MaxExperiments = 2
    MaxModelCalls = 3
    MaxWorkerInvocations = 2
    AllowRepeat = TRUE
    MaxOperatorCalls = 2
    MaxCrashes = 1
    MaxDenials = 1
    MaxReplays = 1
SPECIFICATION FairSpec
INVARIANTS
    ExperimentRunsOnce
PROPERTIES
    NoWorkWhileInDoubt
    RunStops
CHECK_DEADLOCK FALSE
