\* Two tasks on one account, commits, a truncated log, an eviction or an error.
CONSTANTS
    Messages = {m1}
    Mailboxes = {b1}
    Threads = {t1, t2}
    MaxLog = 3
    MaxEntries = 1
    Tasks = {p1, p2}
    MaxLocks = 3
    MaxCalls = 3
    MaxTrouble = 1
SPECIFICATION Spec
SYMMETRY Symmetry
CHECK_DEADLOCK FALSE
INVARIANTS
    CacheInv
    AnswersFresh
    GhostsHaveCause
