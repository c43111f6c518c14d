\* A user, its group, a subscription that comes, expires and goes, a client.
CONSTANTS
    u = u
    g = g
    n1 = n1
    n2 = n2
    c1 = c1
    Users = {u}
    Groups = {g}
    MaxId = 1
    Notes = {n1, n2}
    About <- AboutWhom
    Part <- Parts
    Clients = {c1}
    Cap = 1
    MaxAttempts = 2
    MaxSets = 3
    MaxFaults = 1
SPECIFICATION FairSpec
CHECK_DEADLOCK FALSE
INVARIANTS
    PushInv
    RouterServes
PROPERTIES
    QueuedIsSent
