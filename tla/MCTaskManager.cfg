\* Three ids of a batching type, one a file's, on one node or two: two tasks, or one and a fault.
CONSTANTS
    n1 = n1
    n2 = n2
    index = index
    Nodes = {n1, n2}
    Ids = {1, 2, 3}
    Types = {index}
    TypeOf <- OneType
    RoleChoices <- OneOrBoth
    Capacity <- One
    BatchSize <- Two
    RetryDelay = 1
    BackoffFor = 1
    MaxAttempts = 1
    Deadline = 2
    Outcomes = {"success", "temporary", "backoff"}
    Silent = {1}
    MaxNow = 2
    FaultKinds = {"scan", "lock", "read", "write", "crash", "overrun"}
    MaxEvents = 2
SYMMETRY Symmetry
SPECIFICATION Spec
CHECK_DEADLOCK FALSE
INVARIANTS
    TaskInv
    KeysMatch
    Exclusive
    ResultsApplied
PROPERTIES
    FinishedStaysGone
