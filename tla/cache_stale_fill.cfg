\* A read that misses races the commit of a transaction.
CONSTANTS
    Tables = {t1}
    CachedTables = {t1}
    Readers = {r1}
    Mutators = {}
    Handles = {h1}
    Empty = Empty
    NoEntry = NoEntry
    Idle = Idle
    HasTtl = FALSE
    Backends = {"client"}
SPECIFICATION Spec
INVARIANTS
    InvalidatedAfterCommit
CHECK_DEADLOCK FALSE
