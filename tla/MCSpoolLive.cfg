\* Two recipients of one queue, one of which may change queue, and faults or
\* deliveries that outlast their lock.
CONSTANTS
    r1 = r1
    r2 = r2
    qa = qa
    qb = qb
    Rcpts = {r1, r2}
    Queues = {qa, qb}
    Reserved = {}
    HomeQueues <- OneHome
    NextQueue <- Move
    Expiry <- TtlBoth
    NotifyAfter = 0
    RetryAfter = 1
    MaxNow = 1
    MaxClaims = 1
    MaxEdits = 0
    MaxTrouble = 2
SPECIFICATION FairSpec
CHECK_DEADLOCK FALSE
PROPERTIES
    Drains
