SPECIFICATION FairSpec
CONSTANTS
    p1 = p1
    p2 = p2
    OneShots = {o1}
    Delays = {0, 3}
    Periodics <- MCPeriodics
    Period <- MCPeriod
    Ring = 3
    MaxFlush = 2
    MaxTime = 5
    None = None
INVARIANTS
    TypeOK
    InPlace
    OneReservation
PROPERTIES
    ImplementsTimers
    EventuallyRuns
CHECK_DEADLOCK FALSE
