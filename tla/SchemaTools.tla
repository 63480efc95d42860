----------------------------- MODULE SchemaTools -----------------------------
(***************************************************************************)
(* packages/orm/src/schema: the differ that compares a table's schema with *)
(* an entity's, the statements it is turned into, and the builder that     *)
(* migrations queue changes of a table on.  The plan, the script and the   *)
(* queue are made at one time and carried out at another, one await after  *)
(* the other, and the queue may stop half way and be executed again.       *)
(*                                                                         *)
(* One table with its columns; a column is a type and whether it is        *)
(* nullable.  A constraint is named after its columns.  The driver is one  *)
(* of three kinds.  The local ones (memory, json and sqlite) know the whole *)
(* schema and ensureTable leaves it as it is given.  postgres and the other *)
(* servers return what was last ensured, from the schemaCache, and in a    *)
(* fresh process the columns alone; and what ensureTable does to a table   *)
(* that exists is all that is asked in postgres, but only to add columns   *)
(* in mysql, mssql and oracle.                                             *)
(***************************************************************************)
EXTENDS Naturals, Sequences, FiniteSets, SequencesExt

CONSTANTS
    Entity,          \* the schema of the entity
    Starts,          \* the schemas a table may have, NoSchema for no table
    Changes,         \* what a migration may configure
    MaxQueue,        \* bound: operations on one builder
    MaxToolFaults,   \* bound: driver calls that reject
    NoSchema

Given == (Starts \ {NoSchema}) \cup {Entity}

Names == UNION {DOMAIN s.columns \cup s.foreign \cup UNION s.unique : s \in Given}
         \cup {c.name : c \in Changes}

ColumnTypes == [type : {"string", "number", "boolean", "date", "json"}, nullable : BOOLEAN]

Schemas == [columns : UNION {[D -> ColumnTypes] : D \in SUBSET Names},
            unique : SUBSET SUBSET Names, foreign : SUBSET Names]

\* What an operation of TableBlueprint is given.
Configurable ==
    [do : {"addColumn", "alterColumn"}, name : Names, column : ColumnTypes]
    \cup [do : {"dropColumn", "addUnique", "dropUnique", "addForeign", "dropForeign"}, name : Names]

\* A database takes no constraint of a column that the table has not.
ToolsAssumption ==
    /\ NoSchema \in Starts /\ NoSchema \notin Schemas
    /\ Given \subseteq Schemas /\ Changes \subseteq Configurable
    /\ Entity.foreign \cup UNION Entity.unique \subseteq DOMAIN Entity.columns
    /\ IsFiniteSet(Names)
    /\ {MaxQueue, MaxToolFaults} \subseteq Nat

VARIABLES
    stored,     \* the table's schema in the database
    server,     \* "local", "postgres", or "mysql" for mssql and oracle as well
    known,      \* the schema in the driver's schemaCache, NoSchema for none
    plan,       \* the differ's plan and the statements made of it
    queue,      \* the builder's operations
    position,   \* execute: the operation it is at, 0 outside of it
    expected,   \* history: the table if every operation runs once
    blind,      \* history: an operation worked on a schema other than the table's,
                \* or did less than it was asked
    toolFaults

toolVars == <<stored, server, known, plan, queue, position, expected, blind, toolFaults>>

-----------------------------------------------------------------------------
(* differ.ts                                                               *)

NoDetails == [add |-> {}, drop |-> {}, alter |-> {}, addUnique |-> {}, dropUnique |-> {},
              addForeign |-> {}, dropForeign |-> {}]

\* Mutant: of a column that is there, no change is seen.
DiffSchemasByName(current, desired) ==
    [add         |-> DOMAIN desired.columns \ DOMAIN current.columns,
     drop        |-> DOMAIN current.columns \ DOMAIN desired.columns,
     alter       |-> {},
     addUnique   |-> desired.unique \ current.unique,
     dropUnique  |-> current.unique \ desired.unique,
     addForeign  |-> desired.foreign \ current.foreign,
     dropForeign |-> current.foreign \ desired.foreign]

DiffSchemas(current, desired) ==
    LET had == DOMAIN current.columns
        wants == DOMAIN desired.columns IN
    [add         |-> wants \ had,
     drop        |-> had \ wants,
     alter       |-> {n \in wants \cap had : current.columns[n] # desired.columns[n]},
     addUnique   |-> desired.unique \ current.unique,
     dropUnique  |-> current.unique \ desired.unique,
     addForeign  |-> desired.foreign \ current.foreign,
     dropForeign |-> current.foreign \ desired.foreign]

HasUpdates(details) == details # NoDetails

Diff(current) ==
    IF current = NoSchema THEN [type |-> "create-table", details |-> NoDetails]
    ELSE IF HasUpdates(DiffSchemas(current, Entity))
         THEN [type |-> "update-table", details |-> DiffSchemas(current, Entity)]
         ELSE [type |-> "none", details |-> NoDetails]

(* statements.ts                                                           *)

Statements(do, set) == LET order == SetToSeq(set) IN
    [i \in DOMAIN order |-> [do |-> do, of |-> order[i]]]

\* buildUpdateStatements for postgres and mysql, in its order.
UpdateStatements(details) ==
    Statements("add", details.add) \o Statements("drop", details.drop)
    \o Statements("alter", details.alter)
    \o Statements("add unique", details.addUnique) \o Statements("drop unique", details.dropUnique)
    \o Statements("add foreign", details.addForeign)
    \o Statements("drop foreign", details.dropForeign)

GenerateStatements(p) ==
    CASE p.type = "create-table" -> Statements("create", {"table"})
      [] p.type = "update-table" -> UpdateStatements(p.details)
      [] OTHER -> <<>>

\* The database: a column that goes takes its constraints along, and a constraint
\* that is not there cannot be dropped.
DropColumn(schema, name) ==
    [columns |-> [n \in DOMAIN schema.columns \ {name} |-> schema.columns[n]],
     unique  |-> {u \in schema.unique : name \notin u},
     foreign |-> schema.foreign \ {name}]

Run(schema, st) ==
    IF schema = NoSchema THEN IF st.do = "create" THEN Entity ELSE NoSchema
    ELSE CASE st.do = "create" -> schema
           [] st.do \in {"add", "alter"} ->
                 [schema EXCEPT !.columns = [n \in DOMAIN @ \cup {st.of} |->
                                                 IF n = st.of THEN Entity.columns[n] ELSE @[n]]]
           [] st.do = "drop" -> DropColumn(schema, st.of)
           [] st.do = "add unique" -> [schema EXCEPT !.unique = @ \cup {st.of}]
           [] st.do = "drop unique" -> [schema EXCEPT !.unique = @ \ {st.of}]
           [] st.do = "add foreign" -> [schema EXCEPT !.foreign = @ \cup {st.of}]
           [] st.do = "drop foreign" -> [schema EXCEPT !.foreign = @ \ {st.of}]

Accepted(schema, st) ==
    /\ st.do = "drop unique" => st.of \in schema.unique
    /\ st.do = "drop foreign" => st.of \in schema.foreign

-----------------------------------------------------------------------------
(* builder.ts                                                              *)

Column(schema, c) == [schema EXCEPT !.columns = [n \in DOMAIN @ \cup {c.name} |->
                                                    IF n = c.name THEN c.column ELSE @[n]]]

\* Whether a method of TableBlueprint throws.
Throws(schema, c) ==
    \/ c.do = "addColumn" /\ c.name \in DOMAIN schema.columns
    \/ c.do = "alterColumn" /\ c.name \notin DOMAIN schema.columns

Configured(schema, c) ==
    CASE c.do \in {"addColumn", "alterColumn"} -> Column(schema, c)
      [] c.do = "dropColumn"  -> DropColumn(schema, c.name)
      [] c.do = "addUnique"   -> [schema EXCEPT !.unique = @ \cup {{c.name}}]
      [] c.do = "dropUnique"  -> [schema EXCEPT !.unique = @ \ {{c.name}}]
      [] c.do = "addForeign"  -> [schema EXCEPT !.foreign = @ \cup {c.name}]
      [] c.do = "dropForeign" -> [schema EXCEPT !.foreign = @ \ {c.name}]

\* getSchema, which puts what it finds in the cache.
GetSchema ==
    IF known # NoSchema THEN known
    ELSE IF stored = NoSchema \/ server = "local" THEN stored
         ELSE [stored EXCEPT !.unique = {}, !.foreign = {}]

\* addMissingColumns.
WithColumnsOf(schema) ==
    [stored EXCEPT !.columns = [n \in DOMAIN @ \cup DOMAIN schema.columns |->
                                   IF n \in DOMAIN @ THEN @[n] ELSE schema.columns[n]]]

\* ensureTable, after which the schema it was given is in the cache.
Ensured(schema) ==
    IF server = "mysql" /\ stored # NoSchema THEN WithColumnsOf(schema) ELSE schema

Ensure(schema) == stored' = Ensured(schema) /\ known' = schema /\ UNCHANGED server

-----------------------------------------------------------------------------
NoPlan == [of |-> NoSchema, type |-> "none", script |-> <<>>, fresh |-> FALSE, at |-> "none"]

ToolsInit ==
    /\ stored \in Starts
    /\ server \in {"local", "postgres", "mysql"}
    /\ known \in IF server = "local" THEN {stored} ELSE {stored, NoSchema}
    /\ plan = NoPlan
    /\ queue = <<>> /\ position = 0
    /\ expected = stored /\ blind = FALSE
    /\ toolFaults = 0

\* SchemaDiffer.diff, and generateSchemaStatements of its plan.
MakePlan ==
    /\ position = 0 /\ plan = NoPlan /\ queue = <<>>
    /\ plan' = [of |-> stored, type |-> Diff(GetSchema).type,
                script |-> GenerateStatements(Diff(GetSchema)), fresh |-> GetSchema = stored,
                at |-> "made"]
    /\ known' = GetSchema
    /\ UNCHANGED <<stored, server, queue, position, expected, blind, toolFaults>>

\* SchemaDiffer.apply: ensureTable of the entity, whatever the details.
ApplyPlan ==
    /\ plan # NoPlan /\ position = 0
    /\ IF plan.type = "none" THEN UNCHANGED <<stored, server, known>> ELSE Ensure(Entity)
    /\ expected' = stored' /\ blind' = FALSE
    /\ plan' = NoPlan
    /\ UNCHANGED <<queue, position, toolFaults>>

\* The script is run against the database, statement by statement, and stops at
\* one that is refused.
RunScript ==
    /\ plan.at = "made"
    /\ plan' = [plan EXCEPT !.at = "running", !.fresh = @ /\ plan.of = stored]
    /\ UNCHANGED <<stored, server, known, queue, position, expected, blind, toolFaults>>

RunStatement ==
    /\ plan.at = "running" /\ plan.script # <<>>
    /\ IF Accepted(stored, Head(plan.script))
       THEN /\ stored' = Run(stored, Head(plan.script))
            /\ plan' = [plan EXCEPT !.script = Tail(@)]
       ELSE /\ plan' = [plan EXCEPT !.at = "stopped"]
            /\ UNCHANGED stored
    /\ expected' = stored' /\ blind' = FALSE
    /\ UNCHANGED <<server, known, queue, position, toolFaults>>

\* What an operation does to a schema.
After(op, schema) ==
    CASE op.type = "ensure" -> Entity
      [] op.type = "drop"   -> NoSchema
      [] op.type = "alter"  -> IF schema = NoSchema THEN NoSchema ELSE Configured(schema, op.change)

\* createTable builds its schema when it is called, alterTable keeps the function.
Queue(op) ==
    /\ position = 0 /\ Len(queue) < MaxQueue
    /\ plan = NoPlan
    /\ queue' = Append(queue, op)
    /\ expected' = After(op, expected)
    /\ UNCHANGED <<stored, server, known, plan, position, blind, toolFaults>>

Execute ==
    /\ position = 0 /\ queue # <<>> /\ plan = NoPlan
    /\ position' = 1
    /\ UNCHANGED <<stored, server, known, plan, queue, expected, blind, toolFaults>>

\* Mutant: the last operation is left out.
DoneEarly == IF position + 1 >= Len(queue)
             THEN position' = 0 /\ queue' = <<>>
             ELSE position' = position + 1 /\ UNCHANGED queue

Done == IF position = Len(queue)
        THEN position' = 0 /\ queue' = <<>>
        ELSE position' = position + 1 /\ UNCHANGED queue

CannotAlter(op) ==
    op.type = "alter" /\ (IF GetSchema = NoSchema THEN TRUE ELSE Throws(GetSchema, op.change))

ExecuteOne ==
    LET op == queue[position] IN
    /\ position > 0
    /\ ~CannotAlter(op)
    /\ IF op.type = "drop"
       THEN stored' = NoSchema /\ known' = NoSchema /\ UNCHANGED server
       ELSE Ensure(After(op, GetSchema))
    /\ blind' = (\/ op.type = "alter" /\ (blind \/ GetSchema # stored)
                 \/ stored' # After(op, GetSchema))
    /\ Done
    /\ UNCHANGED <<plan, expected, toolFaults>>

\* A throw, or a driver call that rejects, leaves the queue as it is, with what
\* was executed; getSchema may have been called.
ExecuteFails ==
    LET op == queue[position] IN
    /\ position > 0
    /\ \/ CannotAlter(op) /\ UNCHANGED toolFaults
       \/ toolFaults < MaxToolFaults /\ toolFaults' = toolFaults + 1
    /\ position' = 0
    /\ known' \in {known} \cup (IF op.type = "alter" THEN {GetSchema} ELSE {})
    /\ UNCHANGED <<stored, server, plan, queue, expected, blind>>

\* Another process of the program: nothing is in its cache, but sqlite reads all
\* schemas when it starts.
Restart ==
    /\ position = 0
    /\ known' = IF server = "local" THEN stored ELSE NoSchema
    /\ queue' = <<>> /\ plan' = NoPlan
    /\ expected' = stored /\ blind' = FALSE
    /\ UNCHANGED <<stored, server, position, toolFaults>>

ToolsNext ==
    \/ MakePlan \/ ApplyPlan \/ RunScript \/ RunStatement
    \/ Queue([type |-> "ensure"]) \/ Queue([type |-> "drop"])
    \/ \E c \in Changes : Queue([type |-> "alter", change |-> c])
    \/ Execute \/ ExecuteOne \/ ExecuteFails \/ Restart

ToolsSpec == ToolsInit /\ [][ToolsNext]_toolVars

-----------------------------------------------------------------------------
(* Properties                                                              *)

TypeOK ==
    /\ \A schema \in {stored, known, expected} \ {NoSchema} :
        /\ DOMAIN schema = {"columns", "unique", "foreign"}
        /\ \A n \in DOMAIN schema.columns : DOMAIN schema.columns[n] = {"type", "nullable"}
    /\ server \in {"local", "postgres", "mysql"}
    /\ {blind, plan.fresh} \subseteq BOOLEAN
    /\ plan.type \in {"none", "create-table", "update-table"}
    /\ plan.at \in {"none", "made", "running", "stopped"}
    /\ Len(queue) <= MaxQueue /\ position \in 0..Len(queue)
    /\ toolFaults \in 0..MaxToolFaults

\* A script made of the table's schema as it was, in full, and run to its end on
\* that table leaves the table the entity asks for (diffSchemas, which compares
\* with what getSchema returns, and buildUpdateStatements).
ScriptReaches ==
    plan.at = "running" /\ plan.script = <<>> /\ plan.fresh => stored = Entity

\* When execute has returned, each queued operation is in effect once, however
\* often execute was called because it had failed half way.  It may not be where
\* getSchema did not return the table that was altered as it is: constraints that
\* a fresh process of postgres does not know are then gone; and where mysql,
\* mssql or oracle were to do more to a table than to add columns: they do not.
\* But there is a table exactly if there should be one.
QueuedOnce ==
    queue = <<>> => /\ ~blind => stored = expected
                    /\ stored = NoSchema <=> expected = NoSchema

=============================================================================
