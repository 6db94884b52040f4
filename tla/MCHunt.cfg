\* One operator who may die once, two nodes and two families.
CONSTANTS
    o1 = o1
    n1 = n1
    n2 = n2
    Operators = {o1}
    Nodes = {n1, n2}
    Who = {"u"}
    Registry <- MCRegistry
    Standings <- MCStandings
    TopN = 1
    MinimumSample = 2
    MaxHypotheses = 2
    MaxInterruptions = 1
SPECIFICATION FairHuntSpec
INVARIANT
    QueueIsBacked
PROPERTIES
    ThrottledForRejections
    EveryCellHypothesized
CHECK_DEADLOCK FALSE
