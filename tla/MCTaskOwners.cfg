\* An event and a task or a report: three requests, schedules or failed writes.
CONSTANTS
    a = a
    other = other
    Nodes = {a}
    Ids = {1, 2}
    Types = {other}
    TypeOf <- OneType
    RoleChoices <- AllRoles
    Capacity <- One
    BatchSize <- One
    RetryDelay = 1
    BackoffFor = 2
    MaxAttempts = 1
    Deadline = 2
    Outcomes = {"success", "temporary"}
    Silent = {}
    MaxNow = 2
    FaultKinds = {"write"}
    MaxEvents = 3
    Events = {1}
    Reports = {2}
    Alarms <- AlarmTimes
    MinInterval = 2
    AdminOps = {"update", "destroy"}
SPECIFICATION FairOwnedSpec
CHECK_DEADLOCK FALSE
INVARIANTS
    
    LeavesWithCause
PROPERTIES
    DueIsRun
