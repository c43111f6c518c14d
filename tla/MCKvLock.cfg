CONSTANTS
    Workers = {w1, w2, w3}
    Duration = 2
    MaxNow = 5
SYMMETRY Symmetry
SPECIFICATION Spec
CHECK_DEADLOCK FALSE
INVARIANTS
    LockInv
    MutualExclusion
    ExpiryBounded
PROPERTIES
    StrayNeedsCause
    Implements
