\* Two callers of save and delete, two keys, hooks that may change the key of an
\* entity; two calls on one query builder; two parents and one tag.
CONSTANTS
    Keys = {k1, k2}
    Targets = {x}
    Callers = {c1, c2}
    Seed = Seed
    Idle = Idle
    NotLoaded = NotLoaded
    Rekey = TRUE
    QueryCallers = {q1, q2}
    MaxQueries = 3
    MaxQueryFaults = 1
    MaxOptions = 2
    Null = Null
    None = None
    Parents = {p1, p2}
    Tags = {t1}
    Loads = {l1}
    MaxChanges = 2
    MaxLoadFaults = 1
    Lazy = Lazy
    Unset = Unset
    QueryTables <- SomeTables
    QueryFilters <- SomeFilters
SPECIFICATION SuiteSpec
SYMMETRY Symmetry
INVARIANTS
    TypesOK
    PrimaryKeyUnique
    SerialUnlessOverlapped
    LinksHaveOwners
    KeyFollows
PROPERTY AnswersAsAsked
CHECK_DEADLOCK FALSE
