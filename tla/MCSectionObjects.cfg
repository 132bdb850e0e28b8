SPECIFICATION Spec
CONSTANTS
    Npcs = {n1, n2, n3}
    Shots = {s1, s2}
    Hp = 2
    Damage = 1
    Lifetime = 1
    ActionLife = 2
    SpawnDuration = 1
    MaxSpawnCount = 1
    MaxBatch = 2
    MaxMail = 2
    MaxSections = 2
    MaxTime = 2
SYMMETRY MCSymmetry
INVARIANTS
    TypeOK
    Registered
    Census
    DeadAreGone
PROPERTIES
    SpentStaysSpent
CHECK_DEADLOCK FALSE
