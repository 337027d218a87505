\* One engine with two workers.  The shortest pause, 2 of 3 seconds, is longer
\* than the cool-off.
CONSTANTS
    e1 = e1
    Engines = {e1}
    Workers = {w1, w2}
    EngineOf <- OneEngine
    CoolOff = 1
    SyncInterval = 3
    JitterPercent = 10
    TTL = 2
    PreKeys = 1
    WorkBuffer = 1
    RuleLock = RuleLock
    CrawlMutex = CrawlMutex
    NoKey = NoKey
    MaxFaults = 2
    MaxWrites = 1
SPECIFICATION FairSpec
INVARIANTS
    TypeOK
    PollKept
PROPERTIES
    PollDelay
    PolledAgain
    CrawlsAgain
