\* The same keys, used through @Cached alone.
CONSTANTS
    k1 = k1
    k2 = k2
    t1 = t1
    t2 = t2
    Keys = {k1, k2}
    Callers = {c1, c2}
    Tags = {t1, t2}
    TagsOf <- Overlapping
    HasTtl = {k2}
    Decorated = {TRUE}
    NoEntry = NoEntry
    Idle = Idle
    MaxVersion = 2
SPECIFICATION Spec
INVARIANTS
    TagInvalidation
