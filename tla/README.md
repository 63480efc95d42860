# TLA+ models of OCD-JS

OCD-JS is a TypeScript backend framework: decorators, dependency injection, an
HTTP server, an ORM with several drivers, caches, plugins and tools around
them. This directory holds TLA+ modules of its stateful parts, TLC
configurations that check them on small instances, and theorems that TLAPS
proves for every instance. Paths below are relative to the repository.

    tlc -workers 2 -config nested.cfg MCNestedTransaction     # one run
    tlapm NestedTransactionProofs.tla                         # one module's proofs

`PROJECT.json` lists, for tools, the components, the runs, the source lines
each definition translates, the hazards of the code with the properties that
cover them, and a mutated definition per property that the property catches.

## 1. The system

Everything runs in one node process: code between two `await`s is atomic, and
whatever shares an object may run at every `await`. What makes the code hard is
therefore not threads but callers that read something, await, and act on what
they read; promises that reject half way; and, for what is persisted, crashes.

| Component | State | Operations | Talks to |
| --- | --- | --- | --- |
| In-process drivers, `packages/orm/src/drivers/{base,memory,json}.ts` | tables and schemas (`PersistedState`); for JSON a file and a promise chain | `init`, `readTable`, `writeTable`, `ensureTable`, `updateSchema`, `dropTable`, `beginTransaction`; the handle's edits, `commit`, `rollback`, savepoints | the file system |
| SQL drivers, `drivers/{sqlite,postgres,mysql,mssql,oracle}.ts` | a connection or a pool; per transaction a client | the same interface, rows deleted and inserted again | the database; `resilience.ts` |
| Resilience, `resilience.ts`, `drivers/retryable.ts` | none | retry a task, with back-off and a deadline | SQL drivers |
| Second-level cache, `second-level-cache.ts` | a map from tables to rows with an expiry | the driver's interface again, in front of a driver | any driver |
| Connection, `connection.ts`, `transactional.ts`, `identity-map.ts` | identity map; AsyncLocalStorage with the current transaction, its savepoint counter and identity map | `transaction`, nested `transaction`, `beginUnitOfWork`, schema synchronisation | driver, repositories |
| Unit of work, `unit-of-work.ts` | a transaction handle and a `completed` flag | `run`, `commit`, `rollback` | connection |
| Repository, `repository.ts`, `entity-hooks.ts` | none of its own; caches for change tracking | `find*`, `save`, `delete`, relations | driver, identity map, events |
| Queries, `query-builder.ts`, `query/` | the builder's options | `getMany`, `getOne`, aggregates | driver or a plan over the table |
| Lazy references, `relations/` | the promise of the load | `load`, `get`, `set` | repository |
| Migrations and seeds, `migrations/` | the history table | `run`, `revert`; the order of seeds | driver |
| Schema, `schema/` | none | builder, differ | driver |
| Tagged cache, `packages/performance/src/cache` | entries with expiry and tags | `get`, `set`, `delete`, `invalidate`, `getOrSet`, `@Cached` | its caller's resolver |
| Pipeline, offload, transport, `packages/performance` | per call: a worker and a timer | run | worker threads |
| HTTP kernel and adapter, `packages/server` | per request: position in the chain, context | `handle` | container, security middlewares |
| Container, `packages/core/src/di` | instances by token, per container | `resolve`, request containers | everything |
| Application, `packages/core/src/{application,routing}` | per context: modules, container, routes; a global registry of enhancers | `createApplicationContext` | container |
| Plugins, `packages/plugins` | registry | `bootstrap`, `shutdown` | container |
| Rate limiter, CSRF, ..., `packages/security` | counters per key | one handler each | HTTP kernel |
| Auth, feature flags, governance, integrations, observability | maps | lookups | HTTP kernel |
| Dev server, `packages/dev-server` | child process, change queue | build, lint, restart, stop | file watcher |
| CLI, tooling, testing, contract testing, examples | none at run time | generators and helpers | the file system |

What makes each correct, and what is hard about it:

* **Drivers.** Tables change atomically; a transaction is invisible until it
  commits and leaves nothing when it does not; the file follows the memory and
  survives a failed write. Hard: `ensureTable` changes the state before it
  enqueues anything, `init` works beside the chain, a commit replaces the whole
  state, writes may fail and the process may die while one runs.
* **Second-level cache.** What is cached is what the driver holds. Hard: every
  method touches the cache after an `await`.
* **Transactions.** A failed nested call is undone and nothing else is, and
  entities in an identity map show the rows they stand for. Hard: savepoint
  names come from a counter that is copied, and nested calls may be started at
  the same time.
* **Repository.** Keys stay unique and calls that do not overlap are serial.
  Hard: read, hooks, write of the whole table, then the join table.
* **Tagged cache.** After `invalidate` no older value is served. Hard: values
  computed before and stored after.
* **SQL drivers, resilience, unit of work, migrations.** All or nothing, once.
  Hard: pools, retries after a lost answer, crashes between two writes.
* **HTTP, container, plugins, dev server, offload.** Each request is answered
  once, each instance is built once in the scope that owns it, hooks run in
  order and are undone on failure, the loop never stops for good. Hard: errors
  in the middle, events that never come.

## 2. Modules

| Module | Models | State and how it corresponds |
| --- | --- | --- |
| `PersistedState` | `interfaces.ts`, operations of `base.ts`, `memory.ts`, `json.ts` | no variables: a state is `tables` and `schemas`; a handle is `status`, `working`, `savepoints`, the closure of `buildTransactionalInterface` |
| `SnapshotStore` | `memory.ts`, one step per method, and the promise every in-process driver makes | `state` is `this.state`, `tx` the handles |
| `JsonDriver` | `json.ts` | adds `disk` (the file), `queue` and `running` (the promise chain `this.mutex`), `booting` (`init`), `up`; implements `SnapshotStore` |
| `NestedTransaction` | `connection.ts` `transaction`, `runRootTransaction`, `runNestedTransaction`; savepoints of `base.ts`; `identity-map.ts` | `frame` is one call of `transaction` with its `TransactionState`; `working`, `savepoints`, `active` are the closure of the handle; `map` the identity map of each scope |
| `SecondLevelCache` | `second-level-cache.ts` | `cache` is the store, `db` the driver behind and `backend` its kind, `call` a method call under way, `tx` a `CachedTransactionDriver` |
| `EntityRepository` | `save` and `delete` of `repository.ts` with `synchronizeManyToManyRelations` | `rows` and `links` are the two tables, `call` the local variables of each call |
| `RequestPipeline` | `packages/server/src/http-kernel.ts`, `http-adapter.ts`; `applySecurityMiddlewares` of `packages/security/src/types.ts` | `position` is `idx` of `runNext`, `handling` a call of `handleRequest`, `answers` counts `res.end` |
| `TaggedCache` | `packages/performance/src/cache` | `entries` is the store, `call` a `getOrSet` past its miss |
| `PooledSqlDriver` | `writeTable` and the transaction drivers of `postgres.ts`, `mysql.ts`, `mssql.ts`, `oracle.ts`; `executeWithResilience` of `resilience.ts` | `client` is a client of the pool and what it has not committed, `job` a call of `writeTable` at one of its statements, `transaction` a transaction driver, `committed` the database |
| `SqliteDriver` | `sqlite.ts`: `writeTable`, transactions, `persist`, reopening | `rows` is the database in memory, `file` the exported one, `foreignKeys` the PRAGMA, `action` the method a party is inside of, `copy` the tables of a transaction |
| `TableSync` | `ensureTable` and `getSchema` of the five SQL drivers, `requiresRebuild` of `base.ts` | `db` is the table and what a rebuild renamed away, `process` a process's run of `ensureTable`, statement by statement, and its `schemaCache` |
| `SchemaTools` | `schema/differ.ts`, `statements.ts`, `builder.ts`; `ensureTable` and `getSchema` as they meet them | `plan` is the differ's plan with the script made of it and how far that has been run, `queue` and `position` the builder's operations and its loop, `stored` the table, `server` the kind of driver, `known` what its process knows of the table |
| `UnitOfWork` | `unit-of-work.ts`, its decorator, `transactional.ts`, `beginUnitOfWork` and `runRootTransaction` of `connection.ts` | `step` is where each caller of a unit is, `completed` the flag, `transaction` the driver's transaction, `outcome` what the owner was told |
| `Migrations` | `migrations/runner.ts`: `MigrationRunner`, `SeedRunner`, `resolveSeedExecutionOrder` | `stored` is `__migrations`, `runner` a run and the history it holds, `effect` what the migrations did (`Irreversible` are those without a `down`); `visit` is the stack of the depth-first visit, `planted` how each seeder ended |
| `Query` | `query-builder.ts`, `query/plan-executor.ts`, `query/criteria.ts`; the compiled query of `sqlite.ts` | `builder` is the shared builder, `query` a call between its awaits |
| `Relations` | `relations.ts`, `lazy-reference.ts`, the loads and saves of `repository.ts` that touch relations | `entity` is one entity in memory, `row` and `links` what the tables hold of it, `load` and `save` calls under way |
| `Application` | `application/module.ts`, `di/container.ts`, `routing/{router,routes,enhancers}.ts` | `enhancers` is the registry, `collecting` the walk over modules, `contexts` the compiled routes, `caches` instances per container, `stack` the frames of `resolve` |
| `PluginManager` | `plugin-manager.ts` | `registrations`, `instances`, `initialized` are its fields, `task` a call of `bootstrap` or `shutdown` at one of its hooks |
| `Offload` | `pipeline/offload.ts`, `worker-runner.ts` | `worker`, `timer`, `promise` of each call, `events` what the worker has emitted and the main thread not seen yet |
| `DevServer` | `dev-server/src/index.ts` | `loop` is `restarting` and the place in the pipeline, `changeQueued`, `server` the child process |
| `Scaffold` | the commands `new`, `generate` and `crud` of `cli/src/index.ts` | `disk` is the files, each with the names it offers and takes from others; `command` the command at one of its files |
| `SchemaSuite` | | `TableSync` and `SchemaTools`, each on variables of its own |
| `DriverSuite`, `FrameworkSuite`, `EntitySuite` | | suites: several components side by side, the focus says which |
| `MC*` | | values of the constants and symmetry for TLC, one per suite or module that is run |
| `*Proofs` | | theorems and lemmas, about a module or a suite |

**Suites.** Components that do not call one another at run time are checked in
one run: the initial state chooses one of them, the *focus*, and only its
variables change; the others stay as they are. So a run's state space is the sum
of its components', not their product, and an invariant of the suite is the
component's own one under `focus = ...`. Each suite's assumption is the
conjunction of those of its components. `DriverSuite` holds what stands on a SQL
database (`PooledSqlDriver`, `SqliteDriver`, `TableSync`, `SchemaTools`,
`UnitOfWork`, `Migrations`), `FrameworkSuite` the caches and the framework
around requests (`SecondLevelCache`, `TaggedCache`, `Offload`, `DevServer`,
`PluginManager`, `Application`, `Scaffold`), `EntitySuite` what works on entities
(`EntityRepository`, `Query`, `Relations`). The suites have the constants of
their components as parameters, so the theorems about them are theorems about
every instance (`SchemaSuite` is what `DriverSuite` extends, so that the proofs
about schemas have a module of their own), and `MCDrivers`, `MCFramework` and
`MCEntityRepository` add
values for TLC.

A step is the code between two `await`s. A handler that changes something,
awaits and changes more is several actions, and whatever the code keeps in
local variables meanwhile is in `running`, `booting`, `frame` or `call`.

**What is abstracted.** The rows of a table are the party that wrote them
(`PersistedState`, `SecondLevelCache`), the frame that saved the row
(`NestedTransaction`), or a key and the caller that saved it
(`EntityRepository`): enough to tell whose data is where. A cached value of
`TaggedCache` is the version of the data it was computed from; the files of
`DevServer` are a version number. In the SQL modules a row is the party that
wrote it and a step is one statement; a schema is columns with a type and
nullability, unique column sets and foreign keys. In `Query` one filter, order,
join and aggregate stand for lists of them. In `Scaffold` a file is what it
exports and imports. Time is left out: an entry with an expiry may be found expired at
any moment. A handle, a
frame, and a transaction of the cache is used once, as in the code, where each
call makes a new one. A completed handle or frame is reset to its initial
record because nothing reads it again.

**History variables** (marked as such) record what the properties speak of:
`foreign` the tables others changed since a snapshot, `acked` and `suspect` the
last acknowledged write and whether something has been interrupted since,
`entry`, `disturbed`, `stale` the copy a frame began with, what ran beside it
and which keys a failed call touched, `exposed` and `raced` which entries the
known races have reached, `serialRows`, `serialLinks`, `overlapped`, `deleted`
the serial outcome; `serial` and `blurred` the same for sqlite; `cascaded` the
tables emptied through another; `torn`, `broken`, `unfinished` what was cut
short; `kept` the migrations whose row went and whose effect stayed; `configured`,
`stuck`, and per query `asked` and `disturbed`, what the program had set on the
builder; `meant`, `excused`, `keyAlone` of a key column; `expected` and `blind` of
the schema builder; `emitted` of an offloaded call; `holds` of an instance, the
requests it reaches. No guard reads one; the code behaves as if they were not there.

**Composition.** `SnapshotStore` and `JsonDriver` share the operators of
`PersistedState`, and `JsonDriver!ImplementsSnapshotStore` instantiates
`SnapshotStore` with a handle that has called `commit` and not reached its task
taken for a handle that is still open. `SecondLevelCache` is written over three
kinds of driver (`Backends`): `snapshot` commits as `SnapshotStore` does, the whole
state; `client` (sqlite, postgres) the tables the transaction wrote; and with
`autocommit` (mysql, mssql, oracle) a write of the transaction goes to another
connection and is in the database at once, whatever becomes of the transaction.
`PooledSqlDriver` and `TableSync` contain the retries of
`resilience.ts` around each statement. `UnitOfWork` composes the unit, its hooks
and callers with a transaction of the in-process drivers as `SnapshotStore`
describes it: it closes when `commit` or `rollback` is called. `Application`
composes the module walk, the registry of enhancers and the container.

## 3. Runs

| Run | Question | Bounds | States |
| --- | --- | --- | --- |
| `memory_isolation` | Is anything uncommitted visible outside its transaction? | 1 table, 1 caller, 2 transactions, 1 savepoint | 51 k |
| `json_faults` | Are file and memory in step, does `init` bring back what was acknowledged, and what may a commit change, with every fault? | 1 table, 1 caller, 1 transaction, one failed write, one crash, one second `init` | 0.5 M |
| `json_promise` | Does the JSON driver implement `SnapshotStore`, and is every call settled? | 1 table, 1 caller, 1 transaction, 1 savepoint, one failed write | 78 k |
| `cache_coherence` | Are both caches in step with what they cache? Do routes keep their guards, instances their scopes, plugins their hooks, generated files their imports; is a change or a call forgotten? | 2 tables (one cached), 1 reader, 1 writer, 1 transaction, three kinds of driver; 2 callers, 2 keys, 2 versions; 2 offloaded calls; 2 contexts and 2 requests over 15 programs; 2 plugins, 3 calls; 2 commands, 1 kill, 1 edit; 4 saves, 1 exit | 2.4 M |
| `cache_stale_fill` | Is the table invalidated after a commit, as the tests say? It is not. | 1 table, 1 reader, 1 transaction | |
| `cached_decorator` | Does `invalidate` remove what a method under `@Cached` has stored, as the README says? It does not. | 2 callers, 2 keys, decorated calls only | |
| `nested` | Is a failed nested call undone; do entities agree with rows? | 1 key, a transaction with 3 nested ones, awaited in either scope or run at once | 0.7 M |
| `repository` | Are keys unique, are calls serial that do not overlap, do join rows have owners; does a query answer what was asked; does a key follow its relation? | 2 callers, 2 keys, 1 target, hooks may change the key; 3 queries by 2 callers, 2 options, 4 rows, both engines; 2 parents, 1 tag, 1 load and 1 save, 2 changes, 1 fault | 2.7 M |
| `drivers` | Do the SQL drivers, what brings schemas up to date, units of work, migrations and seeds keep their promises with faults at any step? | 2 tables, 1 writer, 2 transactions, 2 clients, 1 fault, 1 retry, 4 dialects; sqlite with 1 writer and 1 transaction, 1 fault; 3 versions of an entity in 2 processes, 3 starts, 5 dialects, 1 fault; 2 queued changes over 3 kinds of driver; 2 units with 2 callers each; 3 migrations, one without a `down`, 2 processes, 3 runs, 1 crash; all graphs over 3 seeders | 1.8 M |
| `sql_savepoint` | Does going back to a savepoint undo a `writeTable`, as the tests of mssql and oracle expect? It does not. | 1 transaction, 1 table, 2 clients | |
| `pipeline` | Is a request answered, and once; is its controller called only when all have allowed it? | up to 2 middlewares with 2 acts each, 1 guard, 2 security middlewares, 2 dispatches | 0.26 M |
| `security_order` | Do all security middlewares run before the controller, as USAGE.md says? Not if one does not await its `next()`. | 2 security middlewares | |

Why the bounds are enough for what is asked:

* *One table in the driver runs.* Tables meet only in `commit`, which replaces
  them all, and `foreign` records the tables others changed one by one; the
  properties speak of one table at a time. The theorems drop the bound.
* *One fault of each kind.* `MaxFaults` bounds failed writes, crashes and
  second `init`s. With one of each every pair and the triple occur in every
  order, between any two steps. `QuiescentDurable` and `InitRestores` are
  proved for any number.
* *One writer and one transaction at the cache.* A race has a party that holds
  rows and one that changes the table; reader against writer, reader and writer
  against the transaction, and a rejected call beside either are all there. A
  caller makes any number of calls one after another.
* *Three nested frames on one row.* Reuse of a savepoint name takes two nested
  calls started at the same time and a third inside one of them. Four frames do
  not end in minutes; `NestedAllOrNothing` is proved for any number. Handlers
  that run beside their nested calls are combined with the shared scope only,
  which is the default of `transaction`.
* *Two callers of the repository*, because a lost update takes two; a third
  adds nothing to what a caller can find between its read and its write.
* *Two versions of the data*, because a value is either older or not.
* *Two clients, two transactions, two tables* under the pooled drivers. A
  transaction of three of the drivers needs a second client to write, so that
  two of them exhaust the pool; a cascade takes two tables. One fault and one
  retry: the fault may be any statement's, COMMIT and ROLLBACK included.
* *Three versions of an entity* between them add, drop and change a column, a
  nullability, a unique constraint and the action of a foreign key, with and
  without a process of another version at work.
* *Two queued changes* of a schema builder are what it takes for the second to
  work on what the first has left, or to fail after it.
* *Three migrations, three runs* are what it takes to add one of a lesser id
  between two runs and go back; *three seeders* are the shortest circle that is
  not a pair, and every graph over them is tried.
* *Programs of `Application`*: three modules that import one another, a
  controller in two of them, a handler with two routes, a dependency loop, and
  every combination of the scopes of a controller and what it depends on.
* *Two commands of `Scaffold`*: one on top of what the other left; the names
  are a plain one, one with a word of a single letter, one with a word that begins
  with a digit, and one with two dashes in a row. The modules take any names:
  `Joins` and `Joined` are the words that lose a dash after or before them, and
  `Blank` the empty one.

* *One request in the pipeline*, because requests share nothing there but the
  containers and stores of their middlewares. Its shape -- the kind of route, the
  numbers of middlewares, guards and security middlewares -- is chosen in the
  initial state, so one run covers them all. A middleware may do two of:
  answer, pass on, fail; so it can call `next` twice, answer after it passed on,
  or fail beside the handler. Two security middlewares are what it takes for one
  to run while another has returned.

**Deadlock** is checked in the runs of the in-process drivers. It is off where
the system really ends: `nested`, with the outermost transaction; `pipeline`,
with the request; `repository`, `drivers`, `cache_coherence` and
`sql_savepoint`, some of whose components stop when their bounded calls are
done, and `drivers` also because the pool may come to a stop, which
`PoolReturns` is about.

**What the properties say.**

* `SnapshotStore!NoDirtyData`, `JsonDriver!NoDirtyData`: rows of a transaction
  that has not committed are not in the driver's tables, the copy or savepoint
  of another transaction, the file, or what `init` has read.
* `JsonDriver!QuiescentDurable`: with the chain empty the file is the state,
  although `ensureTable` changes the state early and tasks queue up, unless a
  write has failed or was overlapped and none followed.
* `JsonDriver!InitRestores`: `init` serves exactly what was last acknowledged,
  unless a write was cut short, failed or overlapped. In these cases the catch
  of `init` may start from an empty database; that is what the code does.
* `JsonDriver!CommitConfined`: a commit changes what its transaction edited,
  and beside that only tables others changed since its snapshot, which it puts
  back.
* `JsonDriver!ImplementsSnapshotStore`: failed writes included, the driver
  shows no behaviour that the memory driver could not show.
* `JsonDriver!EveryCallSettles`: no promise of the chain is left open.
* `SecondLevelCache!CoherentUnlessExposed`: an idle table's entry is the
  driver's rows but for the ways out that the code leaves, all of them enumerated:
  rows stored after a change they do not show; a call or commit that rejected after
  the driver had acted; a commit of the whole state; and a transaction of mysql,
  mssql or oracle that was rolled back, whose commit rejected, or one of whose
  writes had not returned.
* `SecondLevelCache!NeverServesUncommitted`: over a driver that keeps a
  transaction's rows apart nothing of an open transaction is or will be cached. Over
  mysql, mssql and oracle that is false, and not claimed.
* `NestedTransaction!NestedAllOrNothing`: a failed nested call leaves the copy
  it found, whatever ran inside it, its own concurrent nested calls included,
  as long as nothing outside ran beside it.
* `NestedTransaction!EntitiesAgree`, the conjunction of `IdentityAgrees` and
  `ConnectionAgrees`: loaded entities equal rows that are still there, but for
  rows that a failed call which shares the scope, or a commit that rejected, had
  changed.
* `EntityRepository!PrimaryKeyUnique`: also when saves overlap and when hooks
  change keys.
* `EntityRepository!SerialUnlessOverlapped`, `LinksHaveOwners`: without overlap
  both tables are the serial outcome, and only `delete` leaves join rows
  without an owner, never a save that was cut short.
* `RequestPipeline!AnsweredOnce`: one answer, whatever guards, security
  middlewares and the controller throw, if each middleware does one thing.
* `RequestPipeline!ControllerAfterChecks`: the controller is called for a valid
  request that all guards allowed and no awaited security middleware refused,
  in the second handling of a request too.
* `RequestPipeline!EveryRequestAnswered`: nobody's refusal or error is lost, but
  for a handler rejected with a falsy reason (`http-kernel.ts:190` ignores it).
* `TaggedCache!TaggedIsFresh`: an entry with its tags is no older than their
  last invalidation unless its value had already been computed. The late store itself
  is excused: what is left is that `invalidate` removes every entry with one of the tags.
* `Relations!KeyFollows`: a relation and its key column never part, and the key
  is the one last assigned or read, but for a load that finds nothing, a key that
  changes during a load or a save, and a key emptied by itself, which loading the
  relation with its parent still held writes back (`repository.ts:388`).
* `Query!Answered` (`AnswersAsAsked`): a call returns the rows that match, joined,
  in order and paged, or the groups they make, one per parent, in one of their
  orders. What that is, `IsAnswer` says from the table and from what the program had
  `configured`, without the code's own operators for plans and groups. The
  exceptions are spelled out in the property: a builder used by others meanwhile, one
  that has lost its limit to a `getOne` that threw or overlapped, paging before a join
  or an order only memory applies, and the differences between the engines.
* `PooledSqlDriver!WholeOrNothing`: nobody sees a table between its DELETE and
  its INSERT, whatever fails and is retried; in postgres nobody sees rows of a
  transaction without its COMMIT.
* `PooledSqlDriver!ClientsReturn`, `NeverStuck` (`PoolReturns`): a client is free,
  in use, or lost because a ROLLBACK rejected; and the pool stops only for lost
  clients, or in mysql with as many open transactions as clients, each waiting
  for a second one.
* `SqliteDriver!SqliteSerial`: database and file hold what the last call left,
  and do after a restart, unless calls overlapped, failed or were cut short.
* `TableSync!SyncReached`, `RowsKept`, `ReadsBack` (`TableKept`): an `ensureTable`
  that returned brought the table to its entity, however often it started over;
  rows survive unless a rebuild stopped half way; another process reads the same
  columns back.
* `SchemaTools!ScriptReaches`, `QueuedOnce` (`ToolsReach`): a plan made from the
  whole schema leads to the entity's; each queued operation is in effect once, but
  where the constraints of the altered table were not known, or where mysql, mssql or
  oracle were to do more than add columns, which their `ensureTable` does not.
* `UnitOfWork!OutcomeTold`: a caller that is told of success has its work
  committed and one that is told of failure has not, but for a hook that throws
  after the commit and a second caller that decided first; hooks run once, over
  what they are named after.
* `Migrations!HistoryTells`: the history is what has been run, but for the one
  migration a run was cut short at, for overlapping runners, and for a migration
  without a `down` that a run down has taken out: its effect stays
  (`runner.ts:45`).
* `Migrations!SeedsInOrder`: seeders run once, after what they depend on, and
  exactly the circular dependencies are refused, before anything has run. What a
  seeder that fails leaves behind is not part of it: with mysql, mssql and oracle it
  is whatever was written.
* `Application!EnhancersTakenOnce`: of all routes ever made of a handler exactly
  one has its guards. `ScopesHold`: one instance per scope, and no chain of
  dependencies leads from an instance to what another request made, but by a
  singleton that was first made in that request (`container.ts:62`).
* `PluginManager!PluginsLive`: without overlap each instance runs its hooks once
  and in order, and `initialized` means all are ready. Once a hook has failed most of
  it is excused: a second `bootstrap` does run hooks again.
* `Scaffold!ImportsResolve`: files that were generated find what they import. What is
  taken from a file that was cut short may be missing, since the command skips it when
  it is run again, and crud's repository misses its entity when the name loses a dash
  (`index.ts:513-529`).
* `DevServer!ChangesAreServed`, `Offload!OffloadSettles` (`NothingIsForgotten`):
  an idle dev server runs the files as they are; what a worker has emitted settles its
  call and clears its timer, unless the timer fired first, so that a call stays open
  only then or when its worker says nothing.

**Fairness.** In `json_promise` (`JsonDriver!FairSpec`) the event
loop starts a chained task when its predecessor has settled, and `writeFile` and
`readFile` settle, either way. Each is one weak fairness condition, and weak is
enough: nothing but its own step, or a crash, disables a task once it is ready.
Callers, failures and crashes are not assumed to happen. In `pipeline`
(`RequestPipeline!FairSpec`) the body ends or fails, a middleware that was called
does something with the request, and each guard, security middleware and
controller settles, either way: promises of the application's own code, which
the framework can only wait for.

## 4. What the runs found

* **`cache_stale_fill`** (`second-level-cache.ts:86`). A `readTable` that missed
  stores its rows when the driver returns them. If a transaction commits and
  invalidates the table in between, the old rows are stored after that and
  served until the next write or expiry. The tests
  (`tests/orm.cache.test.js:34` and `:84`) say the cache is invalidated after a
  transactional mutation; they await each step in turn. `cache_coherence` shows
  that this race is one of several ways an entry can lag behind, and enumerates them.
* **`cached_decorator`** (`cache-manager.ts:17`, `decorators.ts:23-31`). The
  resolver that `@Cached` gives to `getOrSet` sets the entry with the ttl and
  the tags, and `getOrSet` sets it again with its own options, which are empty.
  An entry of a decorated method has neither tags nor expiry and `invalidate`
  never removes it. `README.md` and `USAGE.md` promise tag invalidation.

* **`security_order`** (`security/src/types.ts:52`). A security middleware that
  calls `next()` without awaiting it returns before those after it have decided;
  the controller is called meanwhile. `USAGE.md:146` says all of them run before
  the controller.
* **`sql_savepoint`** (`mssql.ts:389`, `oracle.ts:351`, `mysql.ts:339`). The
  transaction's `writeTable` is the base driver's: it takes another client and
  commits there, so that neither `rollbackToSavepoint` nor `rollback` undoes it.
  `tests/orm.mssql.test.js:143` and `tests/orm.oracle.test.js:140` expect that it
  does (they need a database and are skipped without one). Behind the second-level
  cache the same writes are seen, and may be cached, before their commit, and a
  rollback leaves the entry of the table as it was (`second-level-cache.ts:220`).

The exceptions written into the passing properties are as much a result. The
ones a maintainer may want to know of:

* *Transactions.* When the commit of an in-process driver fails, `rollback` is
  called on a transaction that has completed and its error hides the first one.
  A client whose ROLLBACK rejects never returns to its pool.
* *Schemas.* A sqlite rebuild that stops half way leaves the rows in a table
  whose name nobody looks for. An older process drops the columns a newer one has
  added (postgres). A postgres foreign key that changes only its action is
  never altered, and `ensureTable` of mysql, mssql and oracle does nothing to a table
  that exists but add columns (`mysql.ts:79`), so that there `dropColumn`,
  `alterColumn`, `addUnique` and `dropForeign` of a migration are without effect.
  oracle cannot create a table with a foreign key that says `restrict` or `no action`
  (`oracle.ts:260`, a bare `ON DELETE`). A sqlite process whose rebuild has stopped
  half way cannot ensure the table again before it is restarted. Columns of `json` in
  mssql and `boolean` in oracle are read back
  as another type; oracle never finds a table again whose name has lower-case letters. Altering a
  table through a fresh process of a server database forgets its constraints, and a builder that
  failed half way runs its first operations again.
* *Queries.* A driver that is given limit and offset applies them before joins
  and orders by a relation are applied in memory. OFFSET without LIMIT is a
  syntax error in SQLite. COUNT over no rows has no row in memory and one in SQL.
  Two `getOne` that overlap leave their limit of 1 to the builder for good.
* *Migrations.* A migration without a `down` is taken from the history by a run down
  and runs once more at the next run up.
* *Relations.* Loading a relation whose row is missing clears the key column,
  and the next save stores that. A load that was rejected is rejected forever. A key
  that was emptied comes back when the relation is loaded with its parent still held,
  and a lazy reference with an empty key waits for itself.
* *Application.* A second route of a handler, a second context, or one made
  after a failed creation has none of the handler's guards. A singleton that is
  first asked for in a request keeps that request's instances, and hands them to all
  later ones.
* *HTTP.* A route with a path parameter cannot be registered: `toPathRegex`
  (`http-kernel.ts:46`) escapes the colon and then replaces what follows it, which
  makes an expression with an unbalanced parenthesis. `README.md:69` and the
  controllers that `crud` writes have such routes.
* *Tools.* A build or lint that fails ends the dev server (an unhandled
  rejection), and stopping a program that has already ended waits forever. A name
  with a word of one letter, one that begins with a digit, or two dashes in a row
  makes `crud` write an import of a file that does not exist; a file that was cut
  short is skipped when the command is run again. An
  offloaded method that throws resolves, with an `error` field.

## 5. Proofs

Each theorem holds for every value of the constants that satisfies the named
assumptions of the component's module, and a theorem about a suite for every
instance of its components. The assumptions say that model values are distinct
from one another, that parameters have their types, and further:

* `NestedTransactionAssumption`: there are finitely many frames, so that savepoint
  names are numbers up to their count.
* `PooledSqlAssumption`: which tables refer to which is a transitive relation (a
  cascade reaches all of them at once), and clients and transactions are finite
  in number, as a pool and the calls of a process are.
* `DevServerAssumption`: there is room for a first version of the files, which is
  what the server is started on.
* `MigrationsAssumption`: the migrations are finitely many, with integers for ids,
  whose order is that of the ids' timestamps.
* `AppAssumption`: a program's imports are modules of it, and its imports, providers
  and handlers are lists; nothing of how tokens or modules depend on one another.
* `ScaffoldAssumption`: the commands have their fields and are of the kinds the
  command line knows, names and packs are lists, and `new` names no artifact.
* `SqliteAssumption`, `RelationsAssumption`: names and markers are distinct.
* `QueryAssumption`: the rows of a table have ids of their own (which
  `PrimaryKeyUnique` shows of the repository's tables) and positive numbers or Nulls
  in their columns, filters have an operator and a value of its kind, and what
  an option may be set to is not the marker for one that is not set.
* `SyncAssumption`: the versions of an entity are schemas with finitely many names
  between them, each with the primary key `id`, and their columns are of the five
  kinds of `ColumnType`.
* `ToolsAssumption`: schemas and what a migration configures are of the types the
  builder takes, finitely many names occur in them, and the entity's constraints
  are about columns it has.

Only the refinement of `JsonDriver` assumes more.

* `SnapshotStoreProofs`, after lemmas on what the operators of `PersistedState`
  return (which `JsonDriverProofs` also has): `SnapshotStoreTypeOK`, and
  `SnapshotStoreNoDirtyData`.
  `NoDirtyData` with `TypeOK` is inductive: `Contained(h)` names its part for one
  transaction, a handle that has committed stays so (`CommittedStays`), and
  `ContainedStep` shows that every other step keeps `h` contained, because the
  only state that reaches others is the working copy of a transaction that
  commits, and that copy holds rows of committed transactions and its own.
* `JsonDriverProofs`: `JsonDriverTypeOK`, `JsonDriverQuiescentDurable`,
  `JsonDriverInitRestores`. `QuiescentDurable` says nothing while a task runs,
  so it is strengthened: `FileInv` says that the image being written is the
  state, or that a schema task is still queued (`ensureTable` has put rows into
  the state ahead of the file, and its own task will write them), and what
  `acked` and `booting` hold in each phase; `DownInv` says the same of a
  process before its first `init` has ended. `InitRestores` follows from the
  same two.
  `JsonDriverNoDirtyData` carries the argument of `SnapshotStore` through the
  file: `Contained(h)` also speaks of the file, the image being written, the
  tasks queued and what `init` has read, since each of them may become the state
  later. `JsonDriverCommitConfined` is an action property; `Confined(h)` explains
  every table in a working copy or a savepoint that differs from the state: the
  transaction has edited it, or others have changed it since its snapshot.
  `JsonDriverImplementsSnapshotStore` is the refinement. The mapping takes a
  handle that waits for its commit task for an open one (`AbstractTx`); before
  the first `init` has ended nothing is visible (`EmptyUntilUp`), and a handle
  waits for at most one commit (`OneCommitEach`), so that the task that publishes
  is the abstract `commit` and every other task is a stutter. It assumes
  `OnlyFailedWrites`: `MaxFaults` allows no crash and no second `init`, because
  the memory driver has neither; `json_promise` runs under the same assumption.
* `NestedTransactionProofs`: `NestedTransactionTypeOK` and
  `NestedTransactionAllOrNothing`. The invariant is `Nesting /\ Kept`. `Placed`
  says that a call's savepoint number is above those of every open call around
  it and at most its own counter; so what is started inside a call, at any
  depth and at the same time, never uses the call's name. `Kept` says that the
  savepoint of an undisturbed call is still the copy it began from. The type
  invariant needs `Nesting`: a call that fails goes back to a name in range.
  `NestedTransactionEntitiesAgree` is about the identity maps. Its invariant says
  of calls that are not disturbed how they lie (`Order`: the open calls are nested
  in one another, each inside its caller and all its caller lies in, and an
  isolated one has its own map, a shared one the nearest map around it) and what
  the maps show (`Views`): that of the innermost call shows the copy as it is, and
  every other one the copy that the next isolated call began with. So when a call
  fails and the copy goes back to its savepoint, the map that is then innermost
  shows exactly that; and when it succeeds, `commitInto` makes the outer map show
  the copy. `stale` names the rows that a failed call sharing the map had changed.
* `RequestPipelineProofs`: `RequestPipelineTypeOK`,
  `RequestPipelineControllerAfterChecks`, `RequestPipelineAnsweredOnce`.
  `Sound(h)` says of each call of `handleRequest` that outside the security step
  its first security middleware will not settle any more (`FirstIsDone`: it has
  returned, or waits for one that threw, `Dead`), so that the controller is
  called once; and that where they await one another, one has passed only if
  all after it have, or one has refused (`Chained`). `Tally` says where the
  request is (`OnePlace`): with the last middleware called, which has not acted,
  or with one dispatch of the route, and that nobody has answered before that
  one does.

* `FrameworkSuiteProofs`, component after component, then the suite:
  * `SecondLevelCacheTypeOK`, `SecondLevelCacheNeverServesUncommitted`,
    `SecondLevelCacheCoherent`, for any choice of the kinds of driver. `AllPrivate`
    says that where a driver keeps them apart, rows of an open transaction are in
    nobody else's hands: not in the tables, the cache, a call's result or
    another working copy. `CoherentUnlessExposed` speaks of idle tables only, so
    `AllInStep` says of every table that is not exposed what holds meanwhile: a
    caller that holds rows holds the driver's, and an entry that differs has a
    `Fixer`, a call, a commit or a write of a transaction that is about to invalidate or
    replace it.
  * `TaggedCacheTypeOK`, `TaggedValuesAreFresh`. `AllFresh` requires of the values
    that calls hold what the property requires of the entries, unless the key has
    been raced.
  * `NothingIsEverForgotten`, for offloaded calls and the dev server. `OffloadIInv`
    is the life of a call's worker and timer, and where what the worker emitted is: on
    its way, in the promise, or dropped by a timer that fired; `DevIInv` says where a change is that
    the running program does not show yet: with the watcher, queued, or in the
    stage of the pipeline that will read it.
  * `PluginsRunTheirHooks`. `PlugStages` gives the stage of every instance from the
    one call that runs and the place it has reached in the map; an instance the map
    no longer holds has been replaced before its `onReady` or has lived its whole
    life. It holds while calls have not overlapped and no hook has thrown;
    `PlugAlone` is what remains once a hook has.
  * `HandlersKeepTheirGuards`: what the registry still has of a handler and what its
    routes took add up to what was declared, once. `RequestsDoNotShare`: the frames
    of `resolve` are in one container, for distinct providers whose instance is not
    there yet (`Resolves`), so that a second one is never made; and what a frame
    holds of a request is of its container's, or came by a singleton made in that
    request and is marked as such.
  * `GeneratedFilesResolve`: what each template takes is offered by the other files
    of the same command (`CommandTakes`), and every file on the disk belongs to a
    command all of whose files are there or are still to come, from the command
    that runs or from one that was broken off (`Explained`), unless files of two
    commands met. A name that `KeepsDashes` is the same whichever way it is turned
    into kebab case (`SameKebab`).
  * `FrameworkTypesOK`, from the invariants of the parts.
* `EntitySuiteProofs`:
  * `EntityRepositoryTypeOK`, `EntityRepositoryPrimaryKeyUnique`,
    `EntityRepositorySerial`, `EntityRepositoryLinksHaveOwners`. `UniqueEverywhere`
    adds to the table what each call has read, since that is what it writes back.
    `SerialUnlessOverlapped` is inductive as it stands. `OwnersFirst` says that
    whoever is about to write join rows has written their owner's row, and nobody
    but a `delete` has removed it.
  * `KeyColumnFollowsTheRelation`: `RelationsIInv` adds to the property what the
    loads and saves under way may hold, the load that finds its key empty and writes
    back what the parent says included; a load of tags holds tags, so that it never
    assigns a parent.
  * `EntityTypesOK` needs of `Query` that a limit a `getOne` remembers is one the
    builder had, since it is put back.
  * `QueriesAnswerAsAsked`, for any tables, filters and number of callers. The state
    part is `CallKept`: a call that nobody disturbed is alone, the builder is what it
    was called with, which unless it was `stuck` is what the program had configured, and
    its plan and rows are those of that builder. What is left
    compares two ways to compute from a table, sqlite's statement and then memory
    against memory alone. Every list on the way has its rows in one strict order
    (`RowOrder`: the order asked for, then that of the table), since selecting and
    paging keep an order and a stable sort makes it (`SelectInOrder`,
    `SliceInOrder`, `SortedInOrder`), and there is one list of a set of rows in a
    strict order (`OneList`). So filtering or sorting again what sqlite has filtered
    and sorted changes nothing, and a join may come before or after the sort
    (`EntitiesAgree`). The groups of either engine are those `IsAnswer` wants, each
    from a row it has, in an order that respects the one asked for.
* `SchemaSuiteProofs`, which `DriverSuiteProofs` builds on: a finite set made into a
  list has the elements of the set, in whatever order (`ListMembers`), and then
  * `ToolsLife`. A schema is taken for the facts it `Says`: that there is a table,
    what a column is, that columns are unique, that one refers elsewhere. Each
    operation of a builder decides some facts, whatever was there (`Touches`,
    `Gives`, `AfterSays`). `QueueKept` is the invariant of the queue: what the
    operations executed so far touch is as the last of them has it (`Settled`), and
    what none of the queue touches is as expected (`Spared`). It survives a failure
    and another `execute` from the start, since the table then has the facts of
    operations that will run again. It leaves out queues that no `execute` gets past,
    because they alter a table that will not be there (`Barred`), and says nothing
    of constraints that were not known or of what a driver that only adds columns was
    to change (`blind`), except that there is a table exactly if there should be one. `PlanKept` is that of a script:
    every fact in which the table differs from the entity has a statement left that
    mends it, and no statement of a script unmends one.
  * `SyncLife`. For the four servers a run's plan is what the table lacks:
    `CoveredBy` says that in whatever the driver looks at (`Minded`), the table
    agrees with the version or a statement to come settles it, which every
    statement of a run of that version preserves (`Nearer`), of this process or of
    another. Runs that may be believed are all of one version (`Paired`). For
    sqlite, where a process is alone, `Stage` says by the statements left of a
    rebuild where the rows are: in the table, in the renamed one, in both; and
    `Safe` and `CopyLeft` what is there between runs, with and without a rebuild
    that stopped half way. A process knows its table from its start (`KnownAtStart`),
    or from the `ensureTable` that returned.
* `DriverSuiteProofs`:
  * `TableReachesTheEntity` and `SchemaToolsReach`, from these, and `SuiteIsTyped`,
    from the invariants of all parts.
  * `ScopesTellTheirOutcome`: of each unit of work, at each step of its caller,
    which of commit and rollback has been asked for and what its transaction did.
    `completed` is set only after the awaits (`unit-of-work.ts:36`), so that both of
    two callers that race reach the driver, where the second finds the transaction closed.
  * `HistoryTellsWhatRan`: a run alone holds the stored history and has to do what
    is due by it, and what a migration has done follows from whether it is stored,
    but for the one that has been run and is still to be recorded; one that was
    `kept` has an effect more than its rows from then on.
  * `SeedersRunInOrder`: while the visit lasts each seeder on its stack depends on
    the next and those ordered come after their dependencies. A circle is found
    exactly if there is one: when the visit ends the order itself shows that a set
    of seeders each depending on another of the set has no first member.
  * `TablesAreWholeOrUntouched`, `ClientsGoBackToThePool`. `PoolIInv` says who owns
    a client by what its job and its transaction are at, that a client's work is
    its owner's rows, and that every table without rows in it is there because of a
    row written to a table it refers to (`Justified`), or will be when the INSERT
    that follows has run (`NearlyJustified`); work that was aborted is never
    published. A pool that has stopped has only clients of transactions that
    leaked or wait for a second client, by counting owners.
  * `SqliteKeepsWhatWasWritten`. A table where nothing overlapped or failed has at
    most one party inside a method (`Sharp`), and `Placed` says by the phase of that
    method whether the table, the file and the image about to be written have its
    rows already or which rows they wait for.

Induction over numbers and sets can be had where the statement is first-order: a
set of integers, or a finite set of anything, has a least element because the
strict-subset ordering of finite sets is well-founded (`FS_StrictSubsetOrdering-
WellFounded` and `WFMin` of the library); `Foremost` of `Migrations`, `Min` and
`Max` of `Application` and the circles of seeders are treated so, and so are
the lists of `Query`, whose i-th element is the one with i - 1 elements before it.
What a fold computes cannot be stated without an operator parameter: that `SumOf`
adds up its numbers is not proved, only that both engines add up the same ones.

Model-checked only: liveness (`EveryCallSettles`, `EveryRequestAnswered`), which is
out of the prover's reach. Every invariant and every other action property of the
runs has a theorem.

The ASSUME of a suite's module is evaluated by TLC in the runs of `MCDrivers`,
`MCFramework` and `MCEntityRepository`, which extend it.

## 6. What is not modelled

* Within the modelled parts: the content of rows; a file shared by two drivers;
  partially applied `writeFile`s other than as an unreadable file; handlers
  that go on after their nested call, or their whole transaction, has ended;
  entities of the identity map that change keys, and dirty tracking; reads,
  which change nothing (a read of the cache that hits, `readTable` of a driver);
  drivers with foreign keys under `EntityRepository`.
* `packages/orm/src/{metadata,decorators,driver-registry}.ts`, validation,
  configuration: tables that are filled while modules load and read afterwards,
  and pure functions. `Connection.initialize` and the join tables it ensures.
* SQL drivers: the text of statements, `dropTable`, reads, batching, the pools
  a failed start of oracle leaves behind. The databases, their DDL and their
  locks are external and modelled from what the drivers rely on.
* Queries: conditions on relations (`whereRelation`), `having`, projections,
  `In` over sub-plans, and the instrumentation, which only records.
* Auth, feature flags, governance, integrations, observability: lookups and
  counters in one step each, with nothing shared across an `await`.
* CLI: what the commands print, the wording of the files they write, and the
  migration, seed and schema commands, which call the tools that are modelled.
  Tooling, testing, contract testing and examples: reports and helpers.
* The adaptive rate limiter: it reads and counts in one step per request, and
  its window is time, which is left out.
* Of offloading, what a worker does; the stages of the pipeline, a loop; the
  transport.
* In the request pipeline: an `onError` of the application that does not answer,
  error middlewares of its own, a middleware that catches what its `next()`
  throws, a security middleware that calls `next` twice or swallows what it
  awaits; the matching of paths, which can only be of patterns without parameters.
* The text of SQL statements, node's http2, ws and worker threads themselves.

## 7. Plan

What is left, in this order:

1. `whereRelation` and `having` in `Query`; join tables and schema
   synchronisation at start.
2. The rate limiter with a clock.
