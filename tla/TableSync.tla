------------------------------ MODULE TableSync ------------------------------
(***************************************************************************)
(* ensureTable of the five SQL drivers: bringing a table that has rows to  *)
(* the schema of an entity, statement by statement, while processes of     *)
(* other versions of the program do the same, a connection is lost on a    *)
(* statement (executeWithResilience then starts over, except in sqlite) or *)
(* a statement is refused.                                                 *)
(*                                                                         *)
(* There is one table.  The DDL of the database systems is external: a     *)
(* statement takes effect at once, by itself, and CREATE TABLE without IF  *)
(* NOT EXISTS is refused for a table that is there.                        *)
(***************************************************************************)
EXTENDS Naturals, Sequences, SequencesExt

CONSTANTS
    SyncDialects,    \* a subset of the five drivers
    Processes,       \* processes of the program on one database
    EntityVersions,  \* the schemas the entity has in versions of the program
    MaxSyncFaults,   \* bound: lost connections and refused statements
    MaxSyncRetries,  \* resilience.maxRetries
    MaxDeploys,      \* bound: starts of a process
    Absent           \* no table, no schema

ColumnNames == UNION {DOMAIN v.columns : v \in EntityVersions}
ColumnKinds == {"number", "boolean", "date", "json", "string"}
DatabaseTypes ==
    {"double precision", "boolean", "timestamp with time zone", "jsonb", "text", "double", "tinyint",
     "datetime", "json", "float", "bit", "datetime2", "nvarchar", "number", "timestamp", "clob",
     "varchar2", "numeric", "integer"}

\* What a table has, and whether it has all the rows there ever were.
Tables ==
    [columns : UNION {[names -> [type : DatabaseTypes, nullable : BOOLEAN]] : names \in SUBSET ColumnNames},
     unique : SUBSET SUBSET ColumnNames,
     foreign : SUBSET [column : ColumnNames, action : {"cascade", "restrict", "no action"}],
     full : BOOLEAN]

SyncAssumption ==
    /\ SyncDialects \subseteq {"postgres", "mysql", "mssql", "oracle", "sqlite"}
    /\ {MaxSyncFaults, MaxSyncRetries, MaxDeploys} \subseteq Nat
    /\ IsFiniteSet(ColumnNames)
    /\ \A v \in EntityVersions :
          /\ v.columns \in [DOMAIN v.columns -> [type : ColumnKinds, nullable : BOOLEAN]]
          /\ "id" \in DOMAIN v.columns
          /\ v.unique \subseteq SUBSET ColumnNames
          /\ v.foreign \subseteq [column : ColumnNames, action : {"cascade", "restrict", "none"}]
    /\ Absent \notin EntityVersions /\ Absent \notin Tables

VARIABLES
    dialect,
    lower,    \* whether the entity's names have lower-case letters
    db,       \* [table, temp]: the table, and what a rebuild renamed away
    process,  \* per process: its run of ensureTable and its schemaCache
    syncFaults, deploys,
    broken    \* history: a rebuild stopped half way

syncVars == <<dialect, lower, db, process, syncFaults, deploys, broken>>

-----------------------------------------------------------------------------
(* Types                                                                   *)

PostgresType == [number |-> "double precision", boolean |-> "boolean",
                 date |-> "timestamp with time zone", json |-> "jsonb", string |-> "text"]
FromPostgresType ==
    [t \in {"double precision", "boolean", "timestamp with time zone", "jsonb", "text"} |->
        CASE t = "double precision" -> "number" [] t = "boolean" -> "boolean" [] t = "jsonb" -> "json"
          [] t = "timestamp with time zone" -> "date" [] t = "text" -> "string"]

MySqlType == [number |-> "double", boolean |-> "tinyint", date |-> "datetime",
              json |-> "json", string |-> "text"]
FromMySqlType == [double |-> "number", tinyint |-> "boolean", datetime |-> "date",
                  json |-> "json", text |-> "string"]

MssqlType == [number |-> "float", boolean |-> "bit", date |-> "datetime2",
              json |-> "nvarchar", string |-> "nvarchar"]
FromMssqlType == [float |-> "number", bit |-> "boolean", datetime2 |-> "date",
                  nvarchar |-> "string"]

OracleType == [number |-> "number", boolean |-> "number", date |-> "timestamp",
               json |-> "clob", string |-> "varchar2"]
FromOracleType == [number |-> "number", timestamp |-> "date", clob |-> "json",
                   varchar2 |-> "string"]

SqliteType == [number |-> "numeric", boolean |-> "integer", date |-> "text",
               json |-> "text", string |-> "text"]

\* What the statement of a foreign key says of its onDelete; a restrict that is
\* not said is NO ACTION.
PostgresAction == [cascade |-> "cascade", restrict |-> "restrict", none |-> "no action"]
MssqlAction    == [cascade |-> "cascade", restrict |-> "no action", none |-> "no action"]
OracleAction   == [cascade |-> "cascade", restrict |-> "no action", none |-> "no action"]

\* formatAction has no word for a restrict, so Oracle is sent a bare ON DELETE.
Unstatable(s) == dialect = "oracle" /\ \E fk \in s.foreign : fk.action = "restrict"

\* The names of the foreign keys, which are made of their columns.
Keys(s) == {fk.column : fk \in s.foreign}

\* The columns and the constraints a driver creates for a schema.
Columns(s, types) ==
    [n \in DOMAIN s.columns |-> [type |-> types[s.columns[n].type], nullable |-> s.columns[n].nullable]]
Constrained(s, actions, columns) ==
    [columns |-> columns, unique |-> s.unique,
     foreign |-> {[column |-> fk.column, action |-> actions[fk.action]] : fk \in s.foreign}]

PostgresColumns(s) == Columns(s, PostgresType)
PostgresTable(s)   == Constrained(s, PostgresAction, PostgresColumns(s))
MySqlColumns(s)    == Columns(s, MySqlType)
MySqlTable(s)      == Constrained(s, PostgresAction, MySqlColumns(s))
MssqlColumns(s)    == Columns(s, MssqlType)
MssqlTable(s)      == Constrained(s, MssqlAction, MssqlColumns(s))
OracleColumns(s)   == Columns(s, OracleType)
OracleTable(s)     == Constrained(s, OracleAction, OracleColumns(s))
SqliteColumns(s)   == Columns(s, SqliteType)
SqliteTable(s)     == Constrained(s, PostgresAction, SqliteColumns(s))

TableOf(d, s) ==
    CASE d = "postgres" -> PostgresTable(s)
      [] d = "mysql"    -> MySqlTable(s)
      [] d = "mssql"    -> MssqlTable(s)
      [] d = "oracle"   -> OracleTable(s)
      [] d = "sqlite"   -> SqliteTable(s)

CreatedTable(d, s, full) ==
    LET table == TableOf(d, s)
    IN [columns |-> table.columns, unique |-> table.unique, foreign |-> table.foreign, full |-> full]

\* getSchema of a process with an empty schemaCache: the columns, and of no
\* driver but sqlite the constraints.  Oracle looks for names in upper case.
ReadColumns(table, types) ==
    [n \in DOMAIN table.columns |->
        [type |-> types[table.columns[n].type], nullable |-> table.columns[n].nullable]]

PostgresSchema(table) == ReadColumns(table, FromPostgresType)
MySqlSchema(table)    == ReadColumns(table, FromMySqlType)
MssqlSchema(table)    == ReadColumns(table, FromMssqlType)
OracleSchema(table)   == IF lower THEN <<>> ELSE ReadColumns(table, FromOracleType)
SqliteSchema(table)   == table.columns

GetSchema(table) ==
    CASE dialect = "postgres" -> PostgresSchema(table)
      [] dialect = "mysql"    -> MySqlSchema(table)
      [] dialect = "mssql"    -> MssqlSchema(table)
      [] dialect = "oracle"   -> OracleSchema(table)
      [] dialect = "sqlite"   -> SqliteSchema(table)

-----------------------------------------------------------------------------
(* The statements of ensureTable                                           *)

Each(do, names) == LET order == SetToSeq(names) IN
    [i \in DOMAIN order |-> [do |-> do, column |-> order[i]]]

One(do) == <<[do |-> do, column |-> "*"]>>

Missing(table, s) == DOMAIN s.columns \ DOMAIN table.columns

Obsolete(table, s) == DOMAIN table.columns \ DOMAIN s.columns

\* alterColumnIfNeeded for the columns on both sides.
AlterColumns(table, s) ==
    LET common == DOMAIN s.columns \cap DOMAIN table.columns IN
    Each("type", {n \in common : FromPostgresType[table.columns[n].type] # s.columns[n].type})
    \o Each("null", {n \in common : table.columns[n].nullable # s.columns[n].nullable})

\* dropStaleConstraints and addConstraint look at the constraints, by name, when
\* they come to them.
SyncConstraints == One("drop constraints") \o One("add constraints")

\* Mutant: columns are altered, and new ones are not added.
PostgresPlanForgets(table, s) ==
    IF table = Absent THEN One("create if not exists")
    ELSE Each("drop", Obsolete(table, s)) \o AlterColumns(table, s) \o SyncConstraints

PostgresPlan(table, s) ==
    IF table = Absent THEN One("create if not exists")
    ELSE Each("add", Missing(table, s)) \o Each("drop", Obsolete(table, s))
         \o AlterColumns(table, s) \o SyncConstraints

MySqlAdditions(table, s) == Each("add", Missing(table, s))
MySqlPlan(table, s) ==
    IF table = Absent THEN One("create if not exists") ELSE MySqlAdditions(table, s)

MssqlAdditions(table, s) == Each("add", Missing(table, s))
MssqlPlan(table, s) ==
    IF table = Absent THEN One("create") ELSE MssqlAdditions(table, s)

\* Names are looked up in upper case and created as they are.
OracleAdditions(table, s) == Each("add", Missing(table, s))
OraclePlan(table, s) ==
    IF table = Absent \/ lower THEN One("create") ELSE OracleAdditions(table, s)

\* describeTable: declared types, and the unique indexes with that of the primary key.
Described(table) ==
    IF table = Absent THEN Absent
    ELSE [table EXCEPT !.unique = @ \cup {{"id"}}]

\* requiresRebuild, of what the cache or describeTable says.
RequiresRebuild(current, s) ==
    \/ DOMAIN current.columns # DOMAIN s.columns
    \/ \E n \in DOMAIN s.columns : current.columns[n] # s.columns[n]
    \/ ~(Keys(s) \subseteq Keys(current))
    \/ current.unique # s.unique

\* Mutant: the renamed table goes before its rows were copied.
RebuildDropsFirst ==
    One("rename") \o One("create if not exists") \o One("drop temp") \o One("copy")

Rebuild == One("rename") \o One("create if not exists") \o One("copy") \o One("drop temp")

SqlitePlan(current, s) ==
    IF current = Absent THEN One("create if not exists")
    ELSE IF RequiresRebuild(current, s) THEN Rebuild ELSE <<>>

\* sqlite's getSchema answers from the cache, which after a rebuild that stopped
\* half way still has the table that was renamed.
Plan(p, s) ==
    CASE dialect = "postgres" -> PostgresPlan(db.table, s)
      [] dialect = "mysql"    -> MySqlPlan(db.table, s)
      [] dialect = "mssql"    -> MssqlPlan(db.table, s)
      [] dialect = "oracle"   -> OraclePlan(db.table, s)
      [] dialect = "sqlite"   -> SqlitePlan(IF process[p].cache # Absent THEN process[p].cache
                                            ELSE Described(db.table), s)

\* The statements of a process that wants s which the database refuses: what is
\* there already, or is not, or what cannot be read.
Refused(st, s) ==
    \/ st.do = "create" /\ (db.table # Absent \/ Unstatable(s))
    \/ st.do = "add" /\ st.column \in DOMAIN db.table.columns
    \/ st.do \in {"drop", "type", "null"} /\ st.column \notin DOMAIN db.table.columns
    \/ st.do = "rename" /\ db.table = Absent
    \/ st.do = "copy" /\ db.temp = Absent

With(f, name, x) == [n \in DOMAIN f \cup {name} |-> IF n = name THEN x ELSE f[n]]
Without(f, name) == [n \in DOMAIN f \ {name} |-> f[n]]

\* What a statement of a process that wants s does.  The first table has all
\* the rows there ever were; the one that replaces a renamed table has none.
Executed(st, s) ==
    CASE st.do \in {"create", "create if not exists"} ->
            [db EXCEPT !.table = IF @ = Absent THEN CreatedTable(dialect, s, db.temp = Absent) ELSE @]
      [] st.do = "add" ->
            [db EXCEPT !.table.columns = With(@, st.column, TableOf(dialect, s).columns[st.column])]
      [] st.do = "drop" -> [db EXCEPT !.table.columns = Without(@, st.column)]
      [] st.do = "type" ->
            [db EXCEPT !.table.columns[st.column].type = PostgresColumns(s)[st.column].type]
      [] st.do = "null" ->
            [db EXCEPT !.table.columns[st.column].nullable = s.columns[st.column].nullable]
      [] st.do = "drop constraints" ->
            [db EXCEPT !.table.unique = @ \cap s.unique,
                       !.table.foreign = {fk \in @ : fk.column \in Keys(s)}]
      [] st.do = "add constraints" ->
            [db EXCEPT !.table.unique = @ \cup s.unique,
                       !.table.foreign = @ \cup
                           {fk \in PostgresTable(s).foreign : fk.column \notin Keys(db.table)}]
      [] st.do = "rename" -> [table |-> Absent, temp |-> db.table]
      [] st.do = "copy" -> [db EXCEPT !.table.full = db.temp.full]
      [] st.do = "drop temp" -> [db EXCEPT !.temp = Absent]

-----------------------------------------------------------------------------
NoRun == [version |-> Absent, at |-> "down", plan |-> <<>>, cache |-> Absent,
          retries |-> 0, alone |-> FALSE, done |-> FALSE]

SyncInit ==
    /\ dialect \in SyncDialects
    /\ lower \in (IF dialect = "oracle" THEN BOOLEAN ELSE {FALSE})
    /\ db \in {[table |-> Absent, temp |-> Absent]} \cup
              {[table |-> CreatedTable(dialect, v, TRUE), temp |-> Absent] :
                  v \in {w \in EntityVersions : ~Unstatable(w)}}
    /\ process = [p \in Processes |-> NoRun]
    /\ syncFaults = 0 /\ deploys = 0
    /\ broken = FALSE

Running(p) == process[p].at \in {"running", "again"}

\* What is in the schemaCache when a process has started: the init of sqlite
\* describes the tables that are there, the others find nothing out.
KnownAtStart == IF dialect = "sqlite" THEN Described(db.table) ELSE Absent

\* A process starts with a version of the entity.  A sqlite database is one
\* process's.
Deploy(p, v) ==
    /\ deploys < MaxDeploys /\ ~Running(p)
    /\ dialect = "sqlite" => \A q \in Processes \ {p} : process[q].at = "down"
    /\ deploys' = deploys + 1
    /\ process' = [process EXCEPT ![p] = [NoRun EXCEPT !.version = v, !.at = "up",
                                                             !.cache = KnownAtStart]]
    /\ UNCHANGED <<dialect, lower, db, syncFaults, broken>>

\* ensureTable up to its first statement.  What others have found no longer
\* counts when a process of another version changes the table.
EnsureTable(p) ==
    LET v == process[p].version
        others == {q \in Processes \ {p} : process[q].version \notin {v, Absent}} IN
    /\ process[p].at = "up"
    /\ process' = [q \in Processes |->
           IF q = p
           THEN [process[p] EXCEPT
                    !.at = "running", !.plan = Plan(p, v), !.done = FALSE, !.retries = 0,
                    !.cache = IF dialect = "postgres" THEN v ELSE @,
                    !.alone = \A o \in others : ~Running(o)]
           ELSE IF q \in others THEN [process[q] EXCEPT !.done = FALSE, !.alone = FALSE]
           ELSE process[q]]
    /\ UNCHANGED <<dialect, lower, db, syncFaults, deploys, broken>>

Statement(p) ==
    /\ process[p].plan # <<>> /\ ~Refused(Head(process[p].plan), process[p].version)
    /\ db' = Executed(Head(process[p].plan), process[p].version)
    /\ process' = [process EXCEPT ![p].plan = Tail(@)]
    /\ UNCHANGED <<dialect, lower, syncFaults, deploys, broken>>

\* All statements are through: the others' cache is set now.
Returned(p) ==
    /\ process[p].at = "running" /\ process[p].plan = <<>>
    /\ process' = [process EXCEPT ![p].at = "up", ![p].done = process[p].alone,
                                  ![p].cache = process[p].version]
    /\ UNCHANGED <<dialect, lower, db, syncFaults, deploys, broken>>

StartOver(p) ==
    /\ process[p].at = "again"
    /\ process' = [process EXCEPT ![p].at = "running", ![p].plan = Plan(p, process[p].version)]
    /\ UNCHANGED <<dialect, lower, db, syncFaults, deploys, broken>>

GiveUp(p) ==
    /\ process' = [q \in Processes |->
           IF q = p THEN [process[p] EXCEPT !.at = "up", !.plan = <<>>, !.alone = FALSE]
           ELSE [process[q] EXCEPT !.done = FALSE]]
    /\ broken' = (broken \/ db'.temp # Absent)

\* A statement the database refuses is not tried again.
StatementRefused(p) ==
    /\ process[p].plan # <<>>
    /\ \/ Refused(Head(process[p].plan), process[p].version) /\ UNCHANGED syncFaults
       \/ syncFaults < MaxSyncFaults /\ syncFaults' = syncFaults + 1
    /\ db' = db
    /\ GiveUp(p)
    /\ UNCHANGED <<dialect, lower, deploys>>

\* The connection is lost on a statement that did or did not take effect, and
\* ensureTable starts over or gives up.
ConnectionLost(p) ==
    /\ process[p].plan # <<>> /\ ~Refused(Head(process[p].plan), process[p].version)
    /\ dialect # "sqlite"
    /\ syncFaults < MaxSyncFaults /\ syncFaults' = syncFaults + 1
    /\ db' \in {db, Executed(Head(process[p].plan), process[p].version)}
    /\ IF process[p].retries < MaxSyncRetries
       THEN /\ process' = [process EXCEPT ![p].retries = @ + 1,
                                          ![p].at = "again", ![p].plan = <<>>]
            /\ UNCHANGED broken
       ELSE GiveUp(p)
    /\ UNCHANGED <<dialect, lower, deploys>>

SyncNext ==
    \E p \in Processes :
        \/ \E v \in EntityVersions : Deploy(p, v)
        \/ EnsureTable(p) \/ Statement(p) \/ Returned(p)
        \/ StatementRefused(p) \/ ConnectionLost(p) \/ StartOver(p)

SyncSpec == SyncInit /\ [][SyncNext]_syncVars

-----------------------------------------------------------------------------
(* Properties                                                              *)

TypeOK ==
    /\ dialect \in SyncDialects /\ lower \in BOOLEAN /\ broken \in BOOLEAN
    /\ \A table \in {db.table, db.temp} \ {Absent} :
        /\ DOMAIN table.columns \subseteq ColumnNames
        /\ table.unique \subseteq SUBSET ColumnNames /\ Keys(table) \subseteq ColumnNames
        /\ table.full \in BOOLEAN
    /\ \A p \in Processes :
        /\ process[p].at \in {"down", "up", "running", "again"}
        /\ process[p].version \in EntityVersions \cup {Absent}
        /\ process[p].cache # Absent => DOMAIN process[p].cache.columns \subseteq ColumnNames
        /\ process[p].retries \in 0..MaxSyncRetries
        /\ {process[p].alone, process[p].done} \subseteq BOOLEAN
    /\ syncFaults \in 0..MaxSyncFaults /\ deploys \in 0..MaxDeploys

Quiet == \A p \in Processes : ~Running(p)

\* After an ensureTable that returned, whatever was there before and however
\* often it started over, the table has every column of the entity; in postgres
\* and sqlite it has their types and no others, and exactly the unique
\* constraints and foreign keys of the entity.  Runs of other versions at the
\* same time, or later, and runs that failed, may have undone it.
SyncReached ==
    Quiet => \A p \in Processes : process[p].done =>
        /\ db.table # Absent /\ Missing(db.table, process[p].version) = {}
        /\ dialect \in {"postgres", "sqlite"} =>
            LET wanted == CreatedTable(dialect, process[p].version, TRUE) IN
            /\ db.table.columns = wanted.columns /\ db.table.unique = wanted.unique
            /\ dialect = "postgres" => Keys(db.table) = Keys(wanted)

\* What getSchema does not tell apart: the type two kinds of a column share.
SameType ==
    [postgres |-> {}, mysql |-> {}, mssql |-> {"json"}, oracle |-> {"boolean"}, sqlite |-> {}][dialect]

\* Another process reads a column that ensureTable has made as the entity
\* declares it, but where two kinds share a type, and in oracle where names have
\* lower-case letters: it then finds no table at all (getSchema).
ReadsBack ==
    Quiet => \A p \in Processes : process[p].done /\ dialect # "sqlite" /\ ~lower =>
        LET v == process[p].version IN
        \A n \in DOMAIN v.columns :
            db.table.columns[n] = TableOf(dialect, v).columns[n] =>
                GetSchema(db.table)[n] = v.columns[n] \/ v.columns[n].type \in SameType

\* Between runs a table has its rows, unless a rebuild stopped half way: its
\* rows are then in a table under another name, and no later run looks there.
RowsKept == Quiet /\ ~broken /\ db.table # Absent => db.table.full

=============================================================================
