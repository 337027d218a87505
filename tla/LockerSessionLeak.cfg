SPECIFICATION Spec
CONSTANTS
    e1 = e1
    e2 = e2
    w1 = w1
    w2 = w2
    w3 = w3
    s1 = s1
    s2 = s2
    s3 = s3
    Engines = {e1, e2}
    Workers = {w1, w2, w3}
    EngineOf <- MCEngineOf
    LockKeys = {k1}
    Sessions = {s1, s2, s3}
    Home <- MCHome
    Shared <- AllPrivate
    UseTryLock = FALSE
    NoKey = NoKey
    NoSession = NoSession
INVARIANTS
    SessionsClosed
