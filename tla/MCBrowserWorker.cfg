SPECIFICATION FairSpec
CONSTANTS
    MaxCalls = 3
    MaxSpawns = 2
INVARIANTS
    ChromiumContained
    InStep
PROPERTY
    CallReturns
CHECK_DEADLOCK FALSE
