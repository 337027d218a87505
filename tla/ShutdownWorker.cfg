SPECIFICATION FairSpec
CONSTANTS
    Stoppers = {s1}
    Watchers = 1
    Workers = 1
    KeyWorkers = {q1}
    KPBuffer = 1
    WorkBuffer = 0
    MaxBatch = 1
    MaxRules = 1
CHECK_DEADLOCK FALSE
PROPERTIES
    WorkerStopIdempotent
