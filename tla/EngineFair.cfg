SPECIFICATION FairSpec
CONSTANTS
    e1 = e1
    e2 = e2
    w1 = w1
    w2 = w2
    q1 = q1
    q2 = q2
    a = a
    b = b
    v = v
    start = start
    finish = finish
    l1 = l1
    l2 = l2
    pa = pa
    pb = pb
    Engines = {e1}
    Workers = {w1}
    KeyWorkers = {q1}
    EngineOf <- OneWorker
    Keys = {a, b}
    PrefixOf <- TwoPrefixes
    Values = {v}
    Nil = Nil
    InitialStore <- MCInitialStore
    External <- MCExternal
    Rules = {start, finish}
    RuleKeys <- MCRuleKeys
    Satisfied <- MCSatisfied
    CallbackPut <- MCCallbackPut
    LockKey <- OneLockKey
    CrawlMutex = lc
    KPBuffer = 1
    WorkBuffer = 1
    MaxWrites = 1
    MaxFaults = 1
    Lapses = TRUE
    NoKey = NoKey
    NoRule = NoRule
INVARIANTS
    LockedWhileWorking
PROPERTIES
    Served
    CrawlEnds
