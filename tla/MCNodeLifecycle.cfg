CONSTANTS
    Goroutines = {g1, g2}
    Closers = {c1, c2}
    Events <- MCEvents
    Capacity = 1
    MaxEvents = 2
SPECIFICATION FairSpec
INVARIANTS
    TypeOK
    FilteredAgreesWithMetrics
    FileWithinMetrics
    LoopHasOwner
PROPERTIES
    TraceReturns
    CloseReturns
    ClosedLoopEnds
