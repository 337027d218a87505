SPECIFICATION Spec
CONSTANTS
    e1 = e1
    e2 = e2
    w1 = w1
    w2 = w2
    q1 = q1
    q2 = q2
    a = a
    b = b
    v = v
    start = start
    finish = finish
    l1 = l1
    l2 = l2
    pa = pa
    pb = pb
    Engines = {e1, e2}
    Workers = {w1, w2}
    KeyWorkers = {q1, q2}
    EngineOf <- TwoEngines
    Keys = {a, b}
    PrefixOf <- OnePrefix
    Values = {v}
    Nil = Nil
    InitialStore <- MCInitialStore
    External <- MCExternal
    Rules = {start, finish}
    RuleKeys <- MCRuleKeys
    Satisfied <- MCSatisfied
    CallbackPut <- MCCallbackPut
    LockKey <- TwoLockKeys
    CrawlMutex = lc
    KPBuffer = 1
    WorkBuffer = 0
    MaxWrites = 1
    MaxFaults = 0
    Lapses = FALSE
    NoKey = NoKey
    NoRule = NoRule
INVARIANTS
    TypeOK
    CallbackJustified
    CallbacksExclusive
    CrawlersExclusive
PROPERTIES
    RulesAreGuarded
