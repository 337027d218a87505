SPECIFICATION Spec
CONSTANTS
    S = S
    ttl = ttl
    x = x
    geo = geo
    a = a
    b = b
    g = g
    north = north
    south = south
    one = one
    two = two
    Nil = Nil
    Slash = S
    Params = {x, geo}
    Keys <- MCKeys
    Values = {one}
    Filters = {FALSE, TRUE}
    RuleSet <- MCRuleSet
    LockPattern <- MCLockPattern
    PollSet <- MCPollSet
    Ttl = ttl
    Lock = lock
    RuleLocks = rule_locks
    KeyExpansion <- MCKeyExpansion
    Constraints <- MCConstraints
    MaxAdded = 2
    AttrValues <- MCAttrValues
INVARIANTS
    WatchedOnce
    OneLock
    CrawlerPatternsSuffice

    
    
    
