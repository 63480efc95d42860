----------------------------- MODULE SchemaSuite -----------------------------
(***************************************************************************)
(* What brings a database to the schema of an entity, on one state each:   *)
(* ensureTable of the SQL drivers, which does it by itself, and the schema *)
(* tools, the differ and the builder, with which it is done by hand.       *)
(***************************************************************************)
EXTENDS Integers

CONSTANTS
    SyncDialects, Processes, MaxSyncFaults, MaxSyncRetries, MaxDeploys, Absent, Versions,
    Wanted, Found, Configurations, MaxQueue, MaxToolFaults, NoSchema

VARIABLES
    dialect, lower, db, process, syncFaults, deploys, broken,
    stored, server, known, plan, queue, position, expected, blind, toolFaults

Sync  == INSTANCE TableSync WITH EntityVersions <- Versions
Tools == INSTANCE SchemaTools WITH Entity <- Wanted, Starts <- Found, Changes <- Configurations

tableVars == <<dialect, lower, db, process, syncFaults, deploys, broken>>
toolVars  == <<stored, server, known, plan, queue, position, expected, blind, toolFaults>>

=============================================================================
