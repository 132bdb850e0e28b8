SPECIFICATION Spec
CONSTANTS
    s1 = s1
    s2 = s2
    s3 = s3
    c1 = c1
    c2 = c2
    c3 = c3
    None = None
    Sessions <- MCSessions
    Characters = {c1, c2}
    Plays <- MCReconnected
    Maps = {m1,m2}
    SlotCount = 2
    MaxRequests = 3
    MaxSections = 3
INVARIANTS
    TypeOK
    Bookkeeping
    MembershipAgrees
    GhostsHaveACause
    ViewsAgree
CHECK_DEADLOCK FALSE
