SPECIFICATION Spec
CONSTANTS
    Call = {k1, k2, k3, k4}
    MaxOpen = 2
    None = None
SYMMETRY CallSymmetry
INVARIANTS
    TypeOK
    ServesEachOnce
    RightResult
    RegistersOnce
CHECK_DEADLOCK FALSE
