\* Two connections under a cap of one or two, a pause line, resets, closes of both sides.
CONSTANTS
    Caps = {1, 2}
    PauseAt = 1
    Window = 2
    Resets = TRUE
    MaxOpens = 2
    MaxData = 2
SPECIFICATION FairSpec
CHECK_DEADLOCK FALSE
INVARIANTS
    EdgeInv
    MacErrsAfterPause
PROPERTIES
    VmErrsOnCrossing
    Settles
