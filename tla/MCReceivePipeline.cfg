SPECIFICATION FairSpec
CONSTANTS
    Kinds <- MCKinds
    MaxPackets = 3
    Bodies = {0, 2}
    HeaderSize = 2
    ReadSize = 5
INVARIANTS
    TypeOK
    Framing
    NoPacketWaits

    
CHECK_DEADLOCK FALSE
