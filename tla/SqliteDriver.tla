---------------------------- MODULE SqliteDriver ----------------------------
(***************************************************************************)
(* packages/orm/src/drivers/sqlite.ts: a database in memory that is        *)
(* exported to a file after every method.  Its methods await each          *)
(* statement, so others run between them.  A transaction works on a copy   *)
(* of all tables (the interface of base.ts) and its commit is applyState:  *)
(* ensureTable and writeTable for one table after the other.               *)
(*                                                                         *)
(* The rows of a table are the set of the parties whose rows are in it.    *)
(* The tables are two, and the child has a foreign key to the parent with  *)
(* ON DELETE CASCADE.  sql.js is external: a statement takes effect at     *)
(* once, and export() reopens the database, which sets PRAGMA foreign_keys *)
(* back to OFF.                                                            *)
(***************************************************************************)
EXTENDS Naturals, Sequences, Functions

CONSTANTS
    SqliteWriters,     \* callers of writeTable
    SqliteTxs,         \* transactions
    MaxSqliteFaults,   \* bound: statements and file writes that fail, crashes
    MaxSqliteCalls,    \* bound: calls of writeTable by one party
    Torn               \* a file that was cut short

Owners == SqliteWriters \cup SqliteTxs \cup {"seed"}

Both == {"parent", "child"}

SqliteAssumption ==
    /\ "seed" \notin SqliteWriters \cup SqliteTxs /\ SqliteWriters \cap SqliteTxs = {}
    /\ Torn \notin [Both -> SUBSET Owners]
    /\ {MaxSqliteFaults, MaxSqliteCalls} \subseteq Nat

VARIABLES
    setting,      \* whether there is a file, and the order of the tables
    rows,         \* the tables of the database in memory
    foreignKeys,  \* PRAGMA foreign_keys
    file,         \* what the file holds
    action,       \* per party: the method it is inside of
    copy,         \* per transaction: the tables of its copy
    sqliteFaults, calls, up,
    serial,       \* history: the tables after the calls one by one
    blurred       \* history: tables that calls overlapped on, that a failure or
                  \* crash left behind, or that a cascade emptied

vars == <<setting, rows, foreignKeys, file, action, copy, sqliteFaults, calls, up, serial, blurred>>

Contents == [Both -> SUBSET Owners]

NoAction == [at |-> "idle", todo |-> <<>>, image |-> Torn]

TypeOK ==
    /\ setting \in [file : BOOLEAN, order : {<<"parent", "child">>, <<"child", "parent">>}]
    /\ rows \in Contents /\ foreignKeys \in BOOLEAN
    /\ file \in Contents \cup {Torn}
    /\ \A p \in Owners \ {"seed"} :
        /\ action[p].at \in {"idle", "dump", "open", "ensure", "ensuring", "delete", "insert",
                             "persisting", "closed"}
        /\ Len(action[p].todo) <= 2
        /\ action[p].image \in Contents \cup {Torn}
    /\ copy \in [SqliteTxs -> Contents]
    /\ sqliteFaults \in 0..MaxSqliteFaults
    /\ calls \in [Owners \ {"seed"} -> 0..MaxSqliteCalls]
    /\ up \in BOOLEAN
    /\ serial \in Contents /\ blurred \subseteq Both

Init ==
    /\ setting \in [file : BOOLEAN, order : {<<"parent", "child">>, <<"child", "parent">>}]
    /\ rows = [t \in Both |-> {"seed"}]
    /\ foreignKeys \in {TRUE, ~setting.file}
    /\ file = rows
    /\ action = [p \in Owners \ {"seed"} |-> NoAction]
    /\ copy = [x \in SqliteTxs |-> [t \in Both |-> {}]]
    /\ sqliteFaults = 0
    /\ calls = [p \in Owners \ {"seed"} |-> 0]
    /\ up = TRUE
    /\ serial = rows
    /\ blurred = {}

-----------------------------------------------------------------------------
\* Inside of a method that writes.
Inside(p) == action[p].at \notin {"idle", "dump", "open", "closed"}

\* The tables a method called by p meets others in: all, as all share the file.
Meets(p) == IF \E q \in Owners \ {"seed", p} : Inside(q) THEN Both ELSE {}

\* DELETE FROM t, with what the foreign key does to the child.
Deleted(t) ==
    IF t = "parent" /\ foreignKeys THEN [s \in Both |-> {}] ELSE [rows EXCEPT ![t] = {}]

\* Mutant: the inserted rows are exported before they are there.
PersistEarly(p, now, next) ==
    /\ IF setting.file
       THEN /\ action' = [action EXCEPT ![p].at = next, ![p].image = rows]
            /\ foreignKeys' = FALSE
       ELSE action' = [action EXCEPT ![p].at = next] /\ UNCHANGED foreignKeys
    /\ UNCHANGED file

\* persist: export the database and hand it to writeFile.
Persist(p, now, next) ==
    /\ IF setting.file
       THEN /\ action' = [action EXCEPT ![p].at = next, ![p].image = now]
            /\ foreignKeys' = FALSE
       ELSE action' = [action EXCEPT ![p].at = next] /\ UNCHANGED foreignKeys
    /\ UNCHANGED file

WriteTable(p, t) ==
    /\ up /\ p \in SqliteWriters /\ action[p].at = "idle" /\ calls[p] < MaxSqliteCalls
    /\ calls' = [calls EXCEPT ![p] = @ + 1]
    /\ action' = [action EXCEPT ![p] = [@ EXCEPT !.at = "delete", !.todo = <<t>>]]
    /\ serial' = [serial EXCEPT ![t] = {p}]
    /\ blurred' = (blurred \ {t}) \cup Meets(p)
    /\ UNCHANGED <<setting, rows, foreignKeys, file, copy, sqliteFaults, up>>

Delete(p) ==
    LET t == action[p].todo[1] IN
    /\ action[p].at = "delete"
    /\ rows' = Deleted(t)
    /\ blurred' = blurred \cup {s \in Both \ Range(action[p].todo) : rows'[s] # rows[s]}
    /\ action' = [action EXCEPT ![p].at = "insert"]
    /\ UNCHANGED <<setting, foreignKeys, file, copy, sqliteFaults, calls, up, serial>>

\* The rows p inserts into t: its own, or what its copy holds.
Inserted(p, t) == rows[t] \cup (IF p \in SqliteTxs THEN copy[p][t] ELSE {p})

\* All rows at once, and the export after them.
Insert(p) ==
    LET t == action[p].todo[1] IN
    /\ action[p].at = "insert"
    /\ rows' = [rows EXCEPT ![t] = Inserted(p, t)]
    /\ Persist(p, rows', "persisting")
    /\ UNCHANGED <<setting, copy, sqliteFaults, calls, up, serial, blurred>>

\* A row is refused: the rows before it stay, and nothing is exported.
InsertFails(p) ==
    LET t == action[p].todo[1] IN
    /\ action[p].at = "insert" /\ sqliteFaults < MaxSqliteFaults
    /\ sqliteFaults' = sqliteFaults + 1
    /\ rows' \in {rows, [rows EXCEPT ![t] = Inserted(p, t)]}
    /\ action' = [action EXCEPT ![p] =
                      [NoAction EXCEPT !.at = IF p \in SqliteTxs THEN "closed" ELSE "idle"]]
    /\ blurred' = Both
    /\ UNCHANGED <<setting, foreignKeys, file, copy, calls, up, serial>>

\* writeFile settles.  A transaction goes on with its next table.
Persisted(p, ok) ==
    LET rest == Tail(action[p].todo) IN
    /\ action[p].at \in {"ensuring", "persisting"}
    /\ sqliteFaults' = IF ok THEN sqliteFaults ELSE sqliteFaults + 1
    /\ ok \/ (setting.file /\ sqliteFaults < MaxSqliteFaults)
    /\ file' = IF ~setting.file THEN file ELSE IF ok THEN action[p].image ELSE Torn
    /\ action' = [action EXCEPT ![p] =
           CASE ~ok -> [NoAction EXCEPT !.at = IF p \in SqliteTxs THEN "closed" ELSE "idle"]
             [] ok /\ @.at = "ensuring" -> [@ EXCEPT !.at = "delete"]
             [] OTHER ->
                [NoAction EXCEPT !.todo = rest,
                    !.at = IF rest # <<>> THEN "ensure"
                           ELSE IF p \in SqliteTxs THEN "closed" ELSE "idle"]]
    /\ blurred' = IF ok THEN blurred ELSE Both
    /\ UNCHANGED <<setting, rows, foreignKeys, copy, calls, up, serial>>

-----------------------------------------------------------------------------
(* Transactions                                                            *)

BeginTransaction(x) ==
    /\ up /\ action[x].at = "idle"
    /\ action' = [action EXCEPT ![x] = [NoAction EXCEPT !.at = "dump", !.todo = setting.order]]
    /\ UNCHANGED <<setting, rows, foreignKeys, file, copy, sqliteFaults, calls, up, serial, blurred>>

\* dumpState reads one table after the other.
Dump(x) ==
    LET t == action[x].todo[1]
        rest == Tail(action[x].todo) IN
    /\ action[x].at = "dump"
    /\ copy' = [copy EXCEPT ![x][t] = rows[t]]
    /\ action' = [action EXCEPT ![x].todo = rest, ![x].at = IF rest = <<>> THEN "open" ELSE "dump"]
    /\ UNCHANGED <<setting, rows, foreignKeys, file, sqliteFaults, calls, up, serial, blurred>>

TxWriteTable(x, t) ==
    /\ action[x].at = "open" /\ calls[x] < MaxSqliteCalls
    /\ calls' = [calls EXCEPT ![x] = @ + 1]
    /\ copy' = [copy EXCEPT ![x][t] = {x}]
    /\ UNCHANGED <<setting, rows, foreignKeys, file, action, sqliteFaults, up, serial, blurred>>

Rollback(x) ==
    /\ action[x].at = "open"
    /\ action' = [action EXCEPT ![x] = [NoAction EXCEPT !.at = "closed"]]
    /\ UNCHANGED <<setting, rows, foreignKeys, file, copy, sqliteFaults, calls, up, serial, blurred>>

\* applyState starts.  No table has been dropped here.
Commit(x) ==
    /\ action[x].at = "open"
    /\ action' = [action EXCEPT ![x] = [NoAction EXCEPT !.at = "ensure", !.todo = setting.order]]
    /\ serial' = copy[x]
    /\ blurred' = Meets(x)
    /\ UNCHANGED <<setting, rows, foreignKeys, file, copy, sqliteFaults, calls, up>>

\* ensureTable of a table that is as it should be: it only persists.
EnsureTable(x) ==
    /\ action[x].at = "ensure"
    /\ Persist(x, rows, "ensuring")
    /\ UNCHANGED <<setting, rows, copy, sqliteFaults, calls, up, serial, blurred>>

-----------------------------------------------------------------------------
\* The process dies; a file that is being written may be cut short.
Crash ==
    /\ up /\ setting.file /\ sqliteFaults < MaxSqliteFaults
    /\ sqliteFaults' = sqliteFaults + 1
    /\ up' = FALSE
    /\ file' \in {file} \cup (IF \E p \in DOMAIN action : action[p].at \in {"ensuring", "persisting"}
                              THEN {Torn} ELSE {})
    /\ action' = [p \in DOMAIN action |-> IF action[p].at = "idle" THEN NoAction
                      ELSE [NoAction EXCEPT !.at = IF p \in SqliteTxs THEN "closed" ELSE "idle"]]
    /\ blurred' = IF \E p \in DOMAIN action : Inside(p) THEN Both ELSE blurred
    /\ UNCHANGED <<setting, rows, foreignKeys, copy, calls, serial>>

\* init of a new process: createDatabase throws for a file it cannot read.
InitAgain ==
    /\ ~up /\ file # Torn
    /\ up' = TRUE
    /\ rows' = file
    /\ foreignKeys' = TRUE
    /\ UNCHANGED <<setting, file, action, copy, sqliteFaults, calls, serial, blurred>>

Next ==
    \/ \E p \in SqliteWriters, t \in Both : WriteTable(p, t)
    \/ \E p \in Owners \ {"seed"} :
        Delete(p) \/ Insert(p) \/ InsertFails(p) \/ \E ok \in BOOLEAN : Persisted(p, ok)
    \/ \E x \in SqliteTxs :
        \/ BeginTransaction(x) \/ Dump(x) \/ Rollback(x) \/ Commit(x) \/ EnsureTable(x)
        \/ \E t \in Both : TxWriteTable(x, t)
    \/ Crash \/ InitAgain

Spec == Init /\ [][Next]_vars

-----------------------------------------------------------------------------
(* Properties                                                              *)

\* Between calls a table holds what the last call left there, in the file too,
\* and it still does when the process comes back, unless calls overlapped, one
\* failed or was cut short, or the parent's DELETE took the child's rows: then
\* those of a commit that wrote the child first.
SqliteSerial ==
    up /\ (\A p \in Owners \ {"seed"} : ~Inside(p)) =>
        \A t \in Both \ blurred :
            /\ rows[t] = serial[t]
            /\ setting.file => file # Torn /\ file[t] = serial[t]

=============================================================================
