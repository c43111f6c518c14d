\* Every kind of session; pages of one change; the log is cut to two entries.
CONSTANTS
    Messages = {m1, m2}
    Mailboxes = {b1}
    Threads = {t1, t2}
    MaxLog = 4
    MaxEntries = 2
    Sessions <- AllSessions
    MaxChanges = 1
SPECIFICATION Spec
SYMMETRY Symmetry
CHECK_DEADLOCK FALSE
INVARIANTS
    SyncInv
    DifferencesHaveCause
PROPERTIES
    PagesAdvance
