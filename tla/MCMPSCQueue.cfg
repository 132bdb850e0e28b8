SPECIFICATION FairSpec
CONSTANTS
    Producers = {p1, p2, p3}
    MaxPush = 2
    Stub = Stub
    Null = Null
INVARIANTS
    NoUseAfterFree
    CountTracksQueue
PROPERTIES
    ImplementsFifo
    Delivery
CHECK_DEADLOCK FALSE
