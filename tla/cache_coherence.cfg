\* A reader, a mutator and a transaction on two tables, one of them not cached,
\* over a driver of each kind; two callers and two keys of the tagged cache;
\* and the small instances of the framework's other parts.
CONSTANTS
    Tables = {t1, t2}
    CachedTables = {t1}
    Readers = {r1}
    Mutators = {m1}
    Handles = {h1}
    Empty = Empty
    NoEntry = NoEntry
    Idle = Idle
    HasTtl = TRUE
    Backends = {"snapshot", "client", "autocommit"}
    CacheKeys = {k1, k2}
    CacheCallers = {c1, c2}
    Tags = {g1, g2}
    KeysWithTtl = {k2}
    Decorated = {TRUE, FALSE}
    MaxVersion = 2
    OffloadCalls = {o1, o2}
    Requests = {q1, q2}
    MaxContexts = 2
    Root = Root
    Plugins = {"a", "b"}
    MaxRegistered = 2
    PluginCallers = {b1, b2}
    MaxPluginCalls = 3
    MaxCommands = 2
    MaxBreaks = 1
    MaxEdits = 1
    Nothing = Nothing
    MaxSaves = 4
    MaxExits = 1
    Tagged <- TagsOfKeys
    Programs <- SomePrograms
    Commands <- SomeCommands
    Joins = {"a"}
    Joined = {"2"}
    Blank = "-"
    Packs <- PackOrder
SPECIFICATION SuiteSpec
SYMMETRY Symmetry
INVARIANTS
    TypesOK
    
    NeverServesUncommitted
    TaggedIsFresh
    EnhancersTakenOnce
    ScopesHold
    PluginsLive
    ImportsResolve
    NothingIsForgotten
CHECK_DEADLOCK FALSE
