\* Two virtual queues, or one of them with a fault, a delivery that outlasts its
\* lock or an administrator.
CONSTANTS
    r1 = r1
    r2 = r2
    qa = qa
    qb = qb
    Rcpts = {r1, r2}
    Queues = {qa, qb}
    Reserved = {r1}
    HomeQueues <- Either
    NextQueue <- Stay
    Expiry <- TtlAndAttempts
    NotifyAfter = 1
    RetryAfter = 1
    MaxNow = 2
    MaxClaims = 1
    MaxEdits = 1
    MaxTrouble = 1
SPECIFICATION Spec
CHECK_DEADLOCK FALSE
INVARIANTS
    SpoolInv
    QuotaConserved
    ReportedOnce
    RcptScheduled
    DeliveredOnce
    Accounted
