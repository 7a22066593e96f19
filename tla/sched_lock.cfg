SPECIFICATION AsyncSpec
CONSTANTS
    Client = {c1}
    Runner = r
    Nobody = none
    NoTask = notask
    Task = {t1, t2}
    Call = {"schedule", "wait"}
    Async = TRUE
    Interval = 1
    MaxNow = 2
INVARIANTS
    QueueExclusive
CHECK_DEADLOCK FALSE
