\* The Mac connects up to three times and leaves in every way.
CONSTANTS
    MaxSessions = 3
    PauseAt = 1
    Resets = TRUE
SPECIFICATION FairSpec
CHECK_DEADLOCK FALSE
INVARIANTS
    GateInv

    
