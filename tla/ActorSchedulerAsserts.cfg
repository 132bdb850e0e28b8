SPECIFICATION SchedulerFairSpec
CONSTANTS
    External = {e1}
    Workers = {w1, w2}
    Producers = {e1, w1, w2}
    MaxPush = 1
    Stub = Stub
    Null = Null
INVARIANT HandlersAreSynchronized
CHECK_DEADLOCK FALSE
