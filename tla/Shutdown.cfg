SPECIFICATION FairSpec
CONSTANTS
    Stoppers = {s1, s2}
    Watchers = 1
    Workers = 1
    KeyWorkers = {q1}
    KPBuffer = 2
    WorkBuffer = 1
    MaxBatch = 2
    MaxRules = 2
CHECK_DEADLOCK FALSE
INVARIANTS
    TypeOK
    StoppedIsQuiet
    ProducersFirst
    NoLostWakeup
PROPERTIES
    StopsInOrder
    CrawlerStops
    WatchersStop
    WorkersStop
