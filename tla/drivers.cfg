\* One caller of writeTable and two transactions on two tables and two clients;
\* one of each on sqlite; two processes that start with three versions of an
\* entity; two units of work; three migrations and two runners; three seeders.
CONSTANTS
    Writers = {w1}
    Txs = {x1, x2}
    SqlTables = {t1, t2}
    Clients = {c1, c2}
    Dialects = {"postgres", "mysql", "mssql", "oracle"}
    MaxRetries = 1
    MaxFaults = 1
    MaxWrites = 1
    Seed = Seed
    Empty = Empty
    Untouched = Untouched
    Nobody = Nobody
    SqliteWriters = {sw}
    SqliteTxs = {sx}
    MaxSqliteFaults = 1
    MaxSqliteCalls = 2
    Torn = Torn
    SyncDialects = {"postgres", "mysql", "mssql", "oracle", "sqlite"}
    Processes = {p1, p2}
    MaxSyncFaults = 1
    MaxSyncRetries = 1
    MaxDeploys = 3
    Absent = Absent
    MaxQueue = 2
    MaxToolFaults = 1
    NoSchema = NoSchema
    Scopes = {s1, s2}
    MaxCommitFaults = 1
    MigrationIds = {1, 2, 3}
    Irreversible = {2}
    Runners = {r1, r2}
    MaxRuns = 3
    MaxBreaks = 1
    References <- SqlReferences
    Versions <- EntityVersions
    Wanted <- WantedSchema
    Found <- FoundSchemas
    Configurations <- QueuedChanges
    Graphs <- SeederGraphs
SPECIFICATION SuiteSpec
SYMMETRY Symmetry
INVARIANTS
    TypesOK
    WholeOrNothing
    PoolReturns
    SqliteSerial
    TableKept
    ToolsReach
    OutcomeTold
    HistoryTells
    SeedsInOrder
CHECK_DEADLOCK FALSE
