SPECIFICATION Spec
CONSTANTS
    S = S
    ttl = ttl
    x = x
    geo = geo
    a = a
    b = b
    g = g
    north = north
    south = south
    one = one
    two = two
    Nil = Nil
    Slash = S
    Params = {x, geo}
    Keys <- TwoKeys
    Values = {one, two}
    Filters = {TRUE}
    RuleSet <- MCTwice
    LockPattern <- MCLockPattern
    PollSet <- NoPolls
    Ttl = ttl
    Lock = lock
    RuleLocks = rule_locks
    KeyExpansion <- MCKeyExpansion
    Constraints <- NoConstraints
    MaxAdded = 1
    AttrValues <- MCAttrValues
PROPERTIES
    FilterTriggers
