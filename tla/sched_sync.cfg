SPECIFICATION FairSpec
CONSTANTS
    Client = {c1, c2}
    Runner = r
    Nobody = none
    NoTask = notask
    Task = {t1, t2}
    Call = {"schedule", "asap", "wait"}
    Async = FALSE
    Interval = 1
    MaxNow = 2
INVARIANTS
    TypeOK
    TakesDueTask
    NoDrift
    WaitingCallMade
PROPERTY
    EventuallyRun
CHECK_DEADLOCK FALSE
