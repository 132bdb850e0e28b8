SPECIFICATION Spec
CONSTANTS
    s1 = s1
    s2 = s2
    s3 = s3
    c1 = c1
    c2 = c2
    c3 = c3
    None = None
    Sessions <- MCSessions
    Characters = {c1, c2, c3}
    Plays <- MCDistinct
    Maps = {m1}
    SlotCount = 3
    MaxRequests = 3
    MaxSections = 3
INVARIANT LeavesAreSeen
CHECK_DEADLOCK FALSE
