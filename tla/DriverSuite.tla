----------------------------- MODULE DriverSuite -----------------------------
(***************************************************************************)
(* The SQL drivers and what works on them, side by side: the transactions  *)
(* of the pooled drivers, sqlite, ensureTable, the schema tools, the unit  *)
(* of work, migrations and seeds.  They do not call one another, so the    *)
(* initial state chooses one, the focus, and only that one takes steps;    *)
(* the others stay in one of their initial states.  SchemaSuite declares   *)
(* the state of ensureTable and of the schema tools.                       *)
(***************************************************************************)
EXTENDS Integers, SchemaSuite

CONSTANTS
    Writers, Txs, SqlTables, References, Clients, Dialects, MaxRetries, MaxFaults, MaxWrites,
    Seed, Empty, Untouched, Nobody,
    SqliteWriters, SqliteTxs, MaxSqliteFaults, MaxSqliteCalls, Torn,
    Scopes, MaxCommitFaults,
    MigrationIds, Irreversible, Runners, MaxRuns, MaxBreaks, Graphs

VARIABLES
    focus,
    database, cached, committed, client, job, transaction, faults, writes, cascaded,
    setting, rows, foreignKeys, file, action, copy, sqliteFaults, calls, up, serial, blurred,
    form, scopeTransaction, completed, step, hooks, asked, outcome, adopted, commitFaults,
    registered, history, effect, torn, kept, runner, runs, breaks, overlapped,
    seeders, selected, visit, planted

-----------------------------------------------------------------------------

Sql    == INSTANCE PooledSqlDriver WITH Tables <- SqlTables, Refers <- References
Sqlite == INSTANCE SqliteDriver
Uow    == INSTANCE UnitOfWork WITH transaction <- scopeTransaction
Mig    == INSTANCE Migrations WITH SeederGraphs <- Graphs, stored <- history

ASSUME DriversAssumption ==
    /\ Sql!PooledSqlAssumption /\ Sqlite!SqliteAssumption /\ Sync!SyncAssumption
    /\ Tools!ToolsAssumption /\ Uow!UnitOfWorkAssumption /\ Mig!MigrationsAssumption

-----------------------------------------------------------------------------
(* Each component's initial states, or one of them when it is not the focus. *)

Starts(name, init, parked) == init /\ (focus = name \/ parked)

SuiteInit ==
    /\ focus \in {"pool", "sqlite", "sync", "tools", "unit of work", "migrations", "seeds"}
    /\ Starts("pool", Sql!Init,
              database = [dialect |-> "postgres", onDelete |-> "cascade"] /\ cached = SqlTables)
    /\ Starts("sqlite", Sqlite!Init,
              setting = [file |-> TRUE, order |-> <<"parent", "child">>] /\ foreignKeys)
    /\ Starts("sync", Sync!SyncInit, dialect = "mysql" /\ db.table = Absent)
    /\ Starts("tools", Tools!ToolsInit, stored = NoSchema /\ server = "local")
    /\ Starts("unit of work", Uow!UowInit, \A s, t \in Scopes : form[s] = form[t] /\ form[s] = "run")
    /\ Starts("migrations", Mig!MigrationsInit, registered = MigrationIds)
    /\ Starts("seeds", Mig!SeedsInit, selected = {} /\ \A s \in DOMAIN seeders : seeders[s] = {})

poolVars      == <<database, cached, committed, client, job, transaction, faults, writes, cascaded>>
sqliteVars    == <<setting, rows, foreignKeys, file, action, copy, sqliteFaults, calls, up, serial, blurred>>
scopeVars     == <<form, scopeTransaction, completed, step, hooks, asked, outcome, adopted, commitFaults>>
migrationVars == <<registered, history, effect, torn, kept, runner, runs, breaks, overlapped,
                   seeders, selected, visit, planted>>
SuiteVars == <<focus, poolVars, sqliteVars, tableVars, toolVars, scopeVars, migrationVars>>

Turn(name, others) == focus = name /\ UNCHANGED <<focus, others>>

PoolSteps ==
    /\ Turn("pool", <<sqliteVars, tableVars, toolVars, scopeVars, migrationVars>>)
    /\ Sql!Next
SqliteSteps ==
    /\ Turn("sqlite", <<poolVars, tableVars, toolVars, scopeVars, migrationVars>>)
    /\ Sqlite!Next
TableSteps ==
    /\ Turn("sync", <<poolVars, sqliteVars, toolVars, scopeVars, migrationVars>>)
    /\ Sync!SyncNext
ToolsSteps ==
    /\ Turn("tools", <<poolVars, sqliteVars, tableVars, scopeVars, migrationVars>>)
    /\ Tools!ToolsNext
ScopeSteps ==
    /\ Turn("unit of work", <<poolVars, sqliteVars, tableVars, toolVars, migrationVars>>)
    /\ Uow!UowNext
MigrationSteps ==
    /\ Turn("migrations", <<poolVars, sqliteVars, tableVars, toolVars, scopeVars>>)
    /\ Mig!MigrationsNext
SeedSteps ==
    /\ Turn("seeds", <<poolVars, sqliteVars, tableVars, toolVars, scopeVars>>)
    /\ Mig!SeedsNext

SuiteNext ==
    \/ PoolSteps \/ SqliteSteps \/ TableSteps \/ ToolsSteps
    \/ ScopeSteps \/ MigrationSteps \/ SeedSteps

SuiteSpec == SuiteInit /\ [][SuiteNext]_SuiteVars

-----------------------------------------------------------------------------
(* Properties.                                                             *)

\* The variables of every component hold values of their kinds.
TypesOK ==
    /\ focus = "pool" => Sql!TypeOK
    /\ focus = "sqlite" => Sqlite!TypeOK
    /\ focus = "sync" => Sync!TypeOK
    /\ focus = "tools" => Tools!TypeOK
    /\ focus = "unit of work" => Uow!TypeOK
    /\ focus \in {"migrations", "seeds"} => Mig!TypeOK

\* Nobody sees a table between its DELETE and its INSERT, and in postgres
\* nobody sees rows of a transaction whose COMMIT had no effect (writeTable and
\* the transaction drivers of postgres, mysql, mssql and oracle).
WholeOrNothing == focus = "pool" => Sql!WholeOrNothing

\* A client goes back to the pool, or is lost in the one way there is, and the
\* pool does not come to a stop but where it is bound to (withClient,
\* beginTransaction, and the transaction drivers' commit and rollback).
PoolReturns == focus = "pool" => Sql!ClientsReturn /\ Sql!NeverStuck

\* What the tests of mssql and oracle expect of a savepoint.
SavepointRollbackWorks == focus = "pool" => Sql!SavepointRollbackWorks

\* The sqlite database and its file hold what the calls one by one would have
\* left, but where calls overlapped or failed (writeTable, persist,
\* dumpState and applyState of sqlite.ts).
SqliteSerial == focus = "sqlite" => Sqlite!SqliteSerial

\* An ensureTable that returned has brought the table to the entity's schema,
\* the table has kept its rows, and getSchema reads its columns back (ensureTable
\* and getSchema of the five drivers).
TableKept == focus = "sync" => Sync!SyncReached /\ Sync!RowsKept /\ Sync!ReadsBack

\* A plan of the differ makes the table what the entity says, and what is
\* queued on a schema builder is executed once, but where the driver only adds
\* columns or has lost the table's constraints (differ.ts, statements.ts,
\* builder.ts, ensureTable and getSchema of the drivers).
ToolsReach == focus = "tools" => Tools!ScriptReaches /\ Tools!QueuedOnce

\* The owner of a unit of work is told what became of it (unit-of-work.ts,
\* transactional.ts).
OutcomeTold == focus = "unit of work" => Uow!OutcomeTold

\* The history table tells which migrations have been run (MigrationRunner.run).
HistoryTells == focus = "migrations" => Mig!HistoryTells

\* Seeders run after those they depend on (resolveSeedExecutionOrder).
SeedsInOrder == focus = "seeds" => Mig!SeedsInOrder

=============================================================================
