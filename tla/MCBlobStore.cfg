\* Two uploads of one account, a queued message and a copy race the purge.
CONSTANTS
    u = u
    v = v
    q = q
    c = c
    Writers = {u, v, q, c}
    Kind <- KindOf
    Account <- Accounts
    HoldFor = 1
    MaxNow = 2
    MaxFaults = 1
SPECIFICATION FairSpec
CHECK_DEADLOCK FALSE
INVARIANTS
    BlobInv
    DanglingNeedsCause
PROPERTIES
    GarbageCollected
