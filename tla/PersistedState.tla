--------------------------- MODULE PersistedState ---------------------------
(***************************************************************************)
(* The value an in-process driver of packages/orm keeps, PersistedState    *)
(* (drivers/interfaces.ts), what its operations do to that value, and the  *)
(* transaction handle that buildTransactionalInterface (drivers/base.ts)   *)
(* builds over a private copy of it.  Everything here is a pure operator;  *)
(* SnapshotStore and JsonDriver say when each is applied.                  *)
(*                                                                         *)
(* The content of a table is abstracted to the party whose writeTable      *)
(* produced it: an element of Writers, or Empty for the [] of ensureTable. *)
(***************************************************************************)

CONSTANTS
    Tables,       \* table names
    Clients,      \* callers that use the driver without a transaction
    Handles,      \* transactions: one TransactionDriver each
    Savepoints,   \* savepoint names
    Empty,        \* the rows [] of a table just created
    NoTable,      \* tables[name] is undefined
    NoSavepoint   \* the savepoint map has no entry under the name

Writers == Clients \cup Handles

ASSUME WritersAssumption ==
    /\ Clients \cap Handles = {}
    /\ Empty \notin Writers
    /\ NoTable \notin Writers \cup {Empty}

Rows == Writers \cup {Empty}

States == [tables : [Tables -> Rows \cup {NoTable}], schemas : SUBSET Tables]

ASSUME SavepointAssumption == NoSavepoint \notin States

EmptyState == [tables |-> [n \in Tables |-> NoTable], schemas |-> {}]

-----------------------------------------------------------------------------
(* What each DatabaseDriver operation does to a state.                     *)

WriteRows(s, n, rows) == [s EXCEPT !.tables[n] = rows]

CreateRows(s, n) ==
    IF s.tables[n] = NoTable THEN [s EXCEPT !.tables[n] = Empty] ELSE s

PutSchema(s, n) == [s EXCEPT !.schemas = @ \cup {n}]

Drop(s, n) == [s EXCEPT !.tables[n] = NoTable, !.schemas = @ \ {n}]

-----------------------------------------------------------------------------
(* The transaction handle.  "active" and "committing" tell apart the two   *)
(* halves of commit(): active is cleared before commitFn is awaited.       *)

HandleStatus == {"unused", "active", "committing", "committed", "rolledBack"}

HandleRecords ==
    [status : HandleStatus,
     working : States,
     savepoints : [Savepoints -> States \cup {NoSavepoint}]]

NoSavepoints == [p \in Savepoints |-> NoSavepoint]

UnusedHandle ==
    [status |-> "unused", working |-> EmptyState, savepoints |-> NoSavepoints]

OpenHandle(snapshot) ==
    [status |-> "active", working |-> snapshot, savepoints |-> NoSavepoints]

\* A completed handle is never read again: its private copies are let go.
CloseHandle(status) == [UnusedHandle EXCEPT !.status = status]

\* The operations of a handle that edit its private copy, as the set of
\* copies one call may leave.
Edits(h, s) ==
    {WriteRows(s, n, h) : n \in Tables}
        \cup {PutSchema(CreateRows(s, n), n) : n \in Tables}
        \cup {PutSchema(s, n) : n \in Tables}
        \cup {Drop(s, n) : n \in Tables}

SetSavepoint(r, p) == [r EXCEPT !.savepoints[p] = r.working]

ReleaseSavepoint(r, p) == [r EXCEPT !.savepoints[p] = NoSavepoint]

RestoreSavepoint(r, p) == [r EXCEPT !.working = r.savepoints[p]]

=============================================================================
