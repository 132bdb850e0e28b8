SPECIFICATION Spec
CONSTANTS
    u1 = u1
    u2 = u2
    t1 = t1
    t2 = t2
    l1 = l1
    l2 = l2
    s1 = s1
    s2 = s2
    c1 = c1
    c2 = c2
    None = None
    Zero = Zero
    Users = {u1, u2}
    Tokens = {t1, t2}
    Leavers = {u1}
    UserOf <- MCUserOf
    Lobbies = {l1, l2}
    Sessions = {s1, s2}
    LobbyOf <- MCLobbyOf
    Home = l1
    Worlds = {w1}
    Characters = {c1, c2}
    Owned <- MCOwned
    MaxHellos = 2
    MaxRequests = 1
SYMMETRY Symmetry
INVARIANTS
    TypeOK
    OneTokenPerUser
    ConsumedOnce
    OwnCharacters
    HelloAnswered
CHECK_DEADLOCK FALSE
