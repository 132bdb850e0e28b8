SPECIFICATION Spec
CONSTANTS
    Senders = {t1, t2}
    Self = t1
    MaxSend = 3
    Sizes <- MCSizes
    ChunkSize = 2
INVARIANTS
    TypeOK
    WireIsPrefix
    SingleWrite
    NothingForgotten
    BacklogBound
CHECK_DEADLOCK FALSE
