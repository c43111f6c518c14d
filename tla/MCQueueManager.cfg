\* Two due messages, up to two threads, and two requests, panics or failed scans.
CONSTANTS
    m1 = m1
    m2 = m2
    q1 = q1
    Msgs = {m1, m2}
    Queues = {q1}
    QueueOf <- SameQueue
    MaxThreads = 2
    LockedFor = 2
    Refresh = 1
    MaxDue = 1
    MaxChan = 1
    MaxRequests = 2
SPECIFICATION FairSpec
INVARIANTS
    ManagerInv
PROPERTIES
    DueIsTried
