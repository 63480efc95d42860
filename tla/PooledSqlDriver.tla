-------------------------- MODULE PooledSqlDriver --------------------------
(***************************************************************************)
(* The SQL drivers with a pool of clients, packages/orm/src/drivers/       *)
(* {postgres,mysql,mssql,oracle}.ts, under the retries of resilience.ts:   *)
(* writeTable, which deletes the rows of a table and inserts the new ones, *)
(* and the transaction drivers.                                            *)
(*                                                                         *)
(* A step is one statement of a client.  The rows of a table are the party *)
(* that wrote them.  In a transaction postgres writes on the client that   *)
(* began it; the other three hand writeTable to the base driver, which     *)
(* takes a second client from the pool and commits there.                  *)
(*                                                                         *)
(* The databases are external: a client's writes are its own until COMMIT, *)
(* a table one client has written is locked for the others, a failed       *)
(* statement aborts a postgres transaction, and a lost connection or one   *)
(* that is given back discards what was not committed.                     *)
(***************************************************************************)
EXTENDS Naturals, FiniteSets

CONSTANTS
    Writers,      \* callers of writeTable outside a transaction
    Txs,          \* transactions, each used once
    Tables,
    Refers,       \* for each table those with a foreign key to it, at any depth
    Clients,      \* the pool
    Dialects,     \* which of the drivers is considered
    MaxRetries,   \* maxRetries of the resilience options
    MaxFaults,    \* bound: statements that fail
    MaxWrites,    \* bound: calls of writeTable by one party
    Seed,         \* the rows a table has at first
    Empty,        \* no rows
    Untouched,    \* what a client holds of a table it has not written
    Nobody

Parties == Writers \cup Txs

Rows == Parties \cup {Seed, Empty}

PooledSqlAssumption ==
    /\ Refers \in [Tables -> SUBSET Tables]
    /\ \A t \in Tables : \A s \in Refers[t] : Refers[s] \subseteq Refers[t]
    /\ IsFiniteSet(Clients) /\ Clients # {} /\ IsFiniteSet(Txs)
    /\ Dialects \subseteq {"postgres", "mysql", "mssql", "oracle"}
    /\ {MaxRetries, MaxFaults, MaxWrites} \subseteq Nat
    /\ Writers \cap Txs = {}
    /\ Seed # Empty /\ {Seed, Empty} \cap Parties = {} /\ Seed \notin Tables
    /\ Untouched \notin Rows /\ Nobody \notin Parties \cup Clients

VARIABLES
    database,     \* its dialect and the ON DELETE of its foreign keys
    cached,       \* tables in schemaCache
    committed,    \* the rows everyone sees
    client,       \* per client: its owner and its database transaction
    job,          \* per party: the driver's method it is inside of
    transaction,  \* per transaction: the transaction driver
    faults, writes,
    cascaded      \* history: tables emptied because a table they refer to was

vars == <<database, cached, committed, client, job, transaction, faults, writes, cascaded>>

Dialect == database.dialect

Clean == [t \in Tables |-> Untouched]

Works == [Tables -> Rows \cup {Untouched}]

Unowned == [owner |-> Nobody, work |-> Clean, saved |-> {}, aborted |-> FALSE]

Idle == [method |-> "none", at |-> "idle", table |-> Seed, on |-> Nobody, attempt |-> 0]

\* acted and mark are histories: COMMIT took effect; a savepoint was made before
\* the first write and rolled back to after the last.
NoTx == [status |-> "unused", on |-> Nobody, acted |-> FALSE, mark |-> "none"]

TypeOK ==
    /\ database \in [dialect : Dialects, onDelete : {"cascade", "restrict"}]
    /\ cached \subseteq Tables
    /\ committed \in [Tables -> Rows]
    /\ \A c \in Clients :
        /\ client[c].owner \in Parties \cup {Nobody}
        /\ client[c].work \in Works
        /\ client[c].saved \subseteq Works
        /\ client[c].aborted \in BOOLEAN
    /\ job \in [Parties ->
           [method : {"none", "writeTable", "beginTransaction"},
            at : {"idle", "waiting", "begin", "delete", "schema", "insert", "commit"},
            table : Tables \cup {Seed},
            on : Clients \cup {Nobody},
            attempt : 0..(MaxRetries + 1)]]
    /\ transaction \in [Txs ->
           [status : {"unused", "open", "unsure", "committed", "rolledback", "leaked"},
            on : Clients \cup {Nobody},
            acted : BOOLEAN,
            mark : {"none", "made", "undone"}]]
    /\ faults \in 0..MaxFaults
    /\ writes \in [Parties -> 0..MaxWrites]
    /\ cascaded \subseteq Tables

-----------------------------------------------------------------------------
(* What the four drivers do differently.  writeTable: whether it begins a  *)
(* database transaction with a statement, asks getSchema for the columns   *)
(* after the rows are deleted, is run again when it fails, and empties the *)
(* tables that refer to its own.                                           *)

PostgresWriteTable == [begins |-> TRUE, asks |-> FALSE, retried |-> TRUE, truncates |-> TRUE]

MySqlWriteTable == [begins |-> TRUE, asks |-> FALSE, retried |-> TRUE, truncates |-> FALSE]

MssqlWriteTable == [begins |-> TRUE, asks |-> TRUE, retried |-> FALSE, truncates |-> FALSE]

OracleWriteTable == [begins |-> FALSE, asks |-> TRUE, retried |-> TRUE, truncates |-> FALSE]

Writing ==
    [postgres |-> PostgresWriteTable, mysql |-> MySqlWriteTable,
     mssql |-> MssqlWriteTable, oracle |-> OracleWriteTable][Dialect]

\* The transaction drivers: whether they write on the client of the transaction,
\* begin it with a statement, give the client back although COMMIT or ROLLBACK
\* rejects (the mssql library does so), and have a statement that releases a
\* savepoint.

\* Mutant: postgres hands the write to the base driver as the others do.
PostgresTransactionByBase ==
    [own |-> FALSE, begins |-> TRUE, returns |-> FALSE, releases |-> TRUE]

PostgresTransaction == [own |-> TRUE, begins |-> TRUE, returns |-> FALSE, releases |-> TRUE]

MySqlTransaction == [own |-> FALSE, begins |-> TRUE, returns |-> FALSE, releases |-> TRUE]

MssqlTransaction == [own |-> FALSE, begins |-> TRUE, returns |-> TRUE, releases |-> FALSE]

OracleTransaction == [own |-> FALSE, begins |-> FALSE, returns |-> FALSE, releases |-> FALSE]

Transacting ==
    [postgres |-> PostgresTransaction, mysql |-> MySqlTransaction,
     mssql |-> MssqlTransaction, oracle |-> OracleTransaction][Dialect]

\* The cache of schemas is filled by ensureTable, or empty in a new process; it
\* and the foreign keys' actions are told apart only where the driver asks.
Init ==
    /\ database \in [dialect : Dialects, onDelete : {"cascade", "restrict"}]
    /\ Writing.truncates => database.onDelete = "cascade"
    /\ cached \in IF Writing.asks THEN {{}, Tables} ELSE {Tables}
    /\ committed = [t \in Tables |-> Seed]
    /\ client = [c \in Clients |-> Unowned]
    /\ job = [p \in Parties |-> Idle]
    /\ transaction = [x \in Txs |-> NoTx]
    /\ faults = 0
    /\ writes = [p \in Parties |-> 0]
    /\ cascaded = {}

-----------------------------------------------------------------------------
(* The pool and the database                                               *)

Free(c) == client[c].owner = Nobody

\* Tables that lose their rows when those of t are deleted: TRUNCATE ... CASCADE
\* does not ask what the foreign keys say.
Emptied(t) ==
    IF Writing.truncates \/ database.onDelete = "cascade"
    THEN {t} \cup Refers[t] ELSE {t}

\* Rows as client c sees them.
Sees(c, t) == IF client[c].work[t] = Untouched THEN committed[t] ELSE client[c].work[t]

Locked(c, ts) == \E d \in Clients \ {c}, t \in ts : client[d].work[t] # Untouched

Refused(c, t) ==
    /\ ~Writing.truncates
    /\ database.onDelete = "restrict"
    /\ \E r \in Refers[t] \ {t} : Sees(c, r) # Empty

Published(w) == [t \in Tables |-> IF w[t] = Untouched THEN committed[t] ELSE w[t]]

\* Tables that are published without rows though nobody wrote them so.
SideEffect(w) == {t \in Tables : w[t] = Empty /\ \E s \in Tables : w[s] \in Parties /\ t \in Refers[s]}

-----------------------------------------------------------------------------
(* Methods of the base driver                                              *)

\* A transaction driver writes on its own client, or like anyone else.
OwnClient(p) == p \in Txs /\ Transacting.own

WriteTable(p, t) ==
    /\ job[p].at = "idle"
    /\ writes[p] < MaxWrites
    /\ p \in Txs => transaction[p].status = "open"
    /\ writes' = [writes EXCEPT ![p] = @ + 1]
    /\ job' = [job EXCEPT ![p] =
           [method |-> "writeTable", table |-> t, attempt |-> 1,
            at |-> IF OwnClient(p) THEN "delete" ELSE "waiting",
            on |-> IF OwnClient(p) THEN transaction[p].on ELSE Nobody]]
    /\ IF p \in Txs /\ transaction[p].mark = "undone"
       THEN transaction' = [transaction EXCEPT ![p].mark = "none"]
       ELSE UNCHANGED transaction
    /\ UNCHANGED <<database, cached, committed, client, faults, cascaded>>

BeginTransaction(x) ==
    /\ transaction[x].status = "unused" /\ job[x].at = "idle"
    /\ job' = [job EXCEPT ![x] = [Idle EXCEPT !.method = "beginTransaction",
                                              !.at = "waiting", !.attempt = 1]]
    /\ UNCHANGED <<database, cached, committed, client, transaction, faults, writes, cascaded>>

Opened(x, c) ==
    /\ transaction' = [transaction EXCEPT ![x] = [@ EXCEPT !.status = "open", !.on = c]]
    /\ job' = [job EXCEPT ![x] = Idle]

\* The pool gives out a client.  Oracle has no BEGIN.
Connect(p, c) ==
    /\ job[p].at = "waiting" /\ Free(c)
    /\ client' = [client EXCEPT ![c].owner = p]
    /\ IF job[p].method = "beginTransaction" /\ ~Transacting.begins
       THEN Opened(p, c)
       ELSE /\ job' = [job EXCEPT ![p].on = c,
                               ![p].at = IF job[p].method = "writeTable" /\ ~Writing.begins
                                        THEN "delete" ELSE "begin"]
            /\ UNCHANGED transaction
    /\ UNCHANGED <<database, cached, committed, faults, writes, cascaded>>

\* The libraries of mssql and oracle reject a call that waits too long for a
\* client; with those of postgres and mysql it waits for ever.
HasTimeout == Dialect \in {"mssql", "oracle"}

Begin(p) ==
    /\ job[p].at = "begin"
    /\ IF job[p].method = "beginTransaction"
       THEN Opened(p, job[p].on)
       ELSE job' = [job EXCEPT ![p].at = "delete"] /\ UNCHANGED transaction
    /\ UNCHANGED <<database, cached, committed, client, faults, writes, cascaded>>

\* Mutant: oracle commits with every statement, as if autoCommit were set.
DeleteCommits(p) ==
    LET t == job[p].table IN
    /\ job[p].at = "delete" /\ ~Refused(job[p].on, t)
    /\ committed' = [s \in Tables |-> IF s \in Emptied(t) THEN Empty ELSE committed[s]]
    /\ job' = [job EXCEPT ![p].at = "insert"]
    /\ UNCHANGED <<database, cached, client, transaction, faults, writes, cascaded>>

Delete(p) ==
    LET c == job[p].on
        t == job[p].table IN
    /\ job[p].at = "delete"
    /\ ~client[c].aborted /\ ~Locked(c, Emptied(t)) /\ ~Refused(c, t)
    /\ client' = [client EXCEPT ![c].work =
                      [s \in Tables |-> IF s \in Emptied(t) THEN Empty ELSE @[s]]]
    /\ job' = [job EXCEPT ![p].at = IF Writing.asks THEN "schema" ELSE "insert"]
    /\ UNCHANGED <<database, cached, committed, transaction, faults, writes, cascaded>>

\* getSchema: from the cache, or with a client of its own while p keeps another.
GetSchema(p) ==
    /\ job[p].at = "schema"
    /\ job[p].table \in cached \/ \E c \in Clients : Free(c)
    /\ cached' = cached \cup {job[p].table}
    /\ job' = [job EXCEPT ![p].at = "insert"]
    /\ UNCHANGED <<database, committed, client, transaction, faults, writes, cascaded>>

\* A foreign key is satisfied: the tables p's rows refer to have rows.
Insert(p) ==
    LET c == job[p].on
        t == job[p].table IN
    /\ job[p].at = "insert"
    /\ ~client[c].aborted
    /\ \A s \in Tables \ {t} : t \in Refers[s] => Sees(c, s) # Empty
    /\ client' = [client EXCEPT ![c].work[t] = p]
    /\ job' = [job EXCEPT ![p] = IF OwnClient(p) THEN Idle ELSE [@ EXCEPT !.at = "commit"]]
    /\ UNCHANGED <<database, cached, committed, transaction, faults, writes, cascaded>>

Commit(p) ==
    LET c == job[p].on IN
    /\ job[p].at = "commit"
    /\ committed' = Published(client[c].work)
    /\ cascaded' = cascaded \cup SideEffect(client[c].work)
    /\ client' = [client EXCEPT ![c] = Unowned]
    /\ job' = [job EXCEPT ![p] = Idle]
    /\ UNCHANGED <<database, cached, transaction, faults, writes>>

\* executeWithResilience: run the task again or reject.
Caught(j, retryable) ==
    IF /\ retryable
       /\ j.attempt <= MaxRetries
       /\ j.method = "writeTable" => Writing.retried
    THEN [j EXCEPT !.at = "waiting", !.on = Nobody, !.attempt = @ + 1]
    ELSE Idle

\* Mutant: beginTransaction does not give its client back when BEGIN fails.
GivenBackUnlessBegin(p) ==
    IF job[p].on = Nobody \/ job[p].at = "begin" THEN client
    ELSE [client EXCEPT ![job[p].on] = Unowned]

\* The finally and catch blocks of a method: ROLLBACK, whether it succeeds or
\* not, and release.
GivenBack(p) ==
    IF job[p].on = Nobody THEN client ELSE [client EXCEPT ![job[p].on] = Unowned]

\* A statement fails: it times out, meets a constraint, waits too long for a lock
\* or the connection is lost.  In a postgres transaction the error goes to the
\* handler and the database transaction is aborted.
Fail(p, retryable) ==
    /\ job[p].at \notin {"idle", "waiting"}
    /\ faults < MaxFaults
    /\ faults' = faults + 1
    /\ IF OwnClient(p) /\ job[p].method = "writeTable"
       THEN /\ client' = [client EXCEPT ![job[p].on].aborted = TRUE]
            /\ job' = [job EXCEPT ![p] = Idle]
       ELSE /\ client' = GivenBack(p)
            /\ job' = [job EXCEPT ![p] = Caught(@, retryable)]
    /\ UNCHANGED <<database, cached, committed, transaction, writes, cascaded>>

\* A statement that cannot succeed: a constraint refuses it, or the transaction
\* is aborted.  No constraint is among the retryable errors.
Refuse(p) ==
    LET c == job[p].on
        t == job[p].table IN
    /\ \/ job[p].at = "delete" /\ (client[c].aborted \/ Refused(c, t))
       \/ /\ job[p].at = "insert"
          /\ \/ client[c].aborted
             \/ \E s \in Tables \ {t} : t \in Refers[s] /\ Sees(c, s) = Empty
    /\ IF OwnClient(p)
       THEN /\ client' = [client EXCEPT ![c].aborted = TRUE]
            /\ job' = [job EXCEPT ![p] = Idle]
       ELSE /\ client' = GivenBack(p)
            /\ job' = [job EXCEPT ![p] = Idle]
    /\ UNCHANGED <<database, cached, committed, transaction, faults, writes, cascaded>>

\* The error is none of those that are retried.
WaitTimesOut(p) ==
    /\ HasTimeout
    /\ \/ job[p].at = "waiting"
       \/ job[p].at = "schema" /\ job[p].table \notin cached
    /\ \A c \in Clients : ~Free(c)
    /\ client' = GivenBack(p)
    /\ job' = [job EXCEPT ![p] = Idle]
    /\ UNCHANGED <<database, cached, committed, transaction, faults, writes, cascaded>>

\* COMMIT took effect and its answer was lost: the catch block fails to roll
\* back, and a lost connection is among the errors that are retried.
CommitAnswerLost(p) ==
    LET c == job[p].on IN
    /\ job[p].at = "commit"
    /\ faults < MaxFaults
    /\ faults' = faults + 1
    /\ committed' = Published(client[c].work)
    /\ cascaded' = cascaded \cup SideEffect(client[c].work)
    /\ client' = GivenBack(p)
    /\ job' = [job EXCEPT ![p] = Caught(@, TRUE)]
    /\ UNCHANGED <<database, cached, transaction, writes>>

-----------------------------------------------------------------------------
(* The transaction drivers, called by runRootTransaction of connection.ts  *)

Ready(x, status) == transaction[x].status = status /\ job[x].at = "idle"

Ended(x, status, acted) ==
    transaction' = [transaction EXCEPT ![x].status = status, ![x].acted = acted,
                                       ![x].mark = IF @ = "undone" THEN @ ELSE "none"]

\* Work of an aborted transaction is not published; COMMIT does not say so.
Effect(c) == IF client[c].aborted THEN Clean ELSE client[c].work

TxCommit(x) ==
    LET c == transaction[x].on IN
    /\ Ready(x, "open")
    /\ committed' = Published(Effect(c))
    /\ cascaded' = cascaded \cup SideEffect(Effect(c))
    /\ client' = [client EXCEPT ![c] = Unowned]
    /\ Ended(x, "committed", TRUE)
    /\ UNCHANGED <<database, cached, job, faults, writes>>

\* COMMIT rejects, with or without having taken effect; the client is not given
\* back unless the library does that itself, and rollback is called next.
TxCommitRejects(x, effective) ==
    LET c == transaction[x].on
        w == IF effective THEN Effect(c) ELSE Clean IN
    /\ Ready(x, "open")
    /\ faults < MaxFaults
    /\ faults' = faults + 1
    /\ committed' = Published(w)
    /\ cascaded' = cascaded \cup SideEffect(w)
    /\ client' = [client EXCEPT ![c] =
                      IF Transacting.returns THEN Unowned ELSE [Unowned EXCEPT !.owner = x]]
    /\ Ended(x, IF Transacting.returns THEN "rolledback" ELSE "unsure", effective)
    /\ UNCHANGED <<database, cached, job, writes>>

\* Mutant: rollback publishes what the client holds.
TxRollbackCommits(x) ==
    LET c == transaction[x].on IN
    /\ Ready(x, "open") \/ Ready(x, "unsure")
    /\ committed' = Published(client[c].work)
    /\ client' = [client EXCEPT ![c] = Unowned]
    /\ Ended(x, "rolledback", transaction[x].acted)
    /\ UNCHANGED <<database, cached, job, faults, writes, cascaded>>

TxRollback(x) ==
    LET c == transaction[x].on IN
    /\ Ready(x, "open") \/ Ready(x, "unsure")
    /\ client' = [client EXCEPT ![c] = Unowned]
    /\ Ended(x, "rolledback", transaction[x].acted)
    /\ UNCHANGED <<database, cached, committed, job, faults, writes, cascaded>>

\* ROLLBACK rejects: release is never reached.
TxRollbackRejects(x) ==
    LET c == transaction[x].on IN
    /\ Ready(x, "open") \/ Ready(x, "unsure")
    /\ faults < MaxFaults
    /\ faults' = faults + 1
    /\ client' = [client EXCEPT ![c] =
                      IF Transacting.returns THEN Unowned ELSE [Unowned EXCEPT !.owner = x]]
    /\ Ended(x, IF Transacting.returns THEN "rolledback" ELSE "leaked", transaction[x].acted)
    /\ UNCHANGED <<database, cached, committed, job, writes, cascaded>>

CreateSavepoint(x) ==
    LET c == transaction[x].on IN
    /\ Ready(x, "open") /\ ~client[c].aborted
    /\ client' = [client EXCEPT ![c].saved = {client[c].work}]
    /\ transaction' = [transaction EXCEPT ![x].mark = IF writes[x] = 0 THEN "made" ELSE "none"]
    /\ UNCHANGED <<database, cached, committed, job, faults, writes, cascaded>>

\* Where there is no statement for it the method is empty.
ReleaseSavepoint(x) ==
    LET c == transaction[x].on IN
    /\ Ready(x, "open") /\ ~client[c].aborted
    /\ Transacting.releases
    /\ client[c].saved # {}
    /\ client' = [client EXCEPT ![c].saved = {}]
    /\ UNCHANGED <<database, cached, committed, job, transaction, faults, writes, cascaded>>

RollbackToSavepoint(x) ==
    LET c == transaction[x].on IN
    /\ Ready(x, "open")
    /\ \E w \in client[c].saved :
           client' = [client EXCEPT ![c].work = w, ![c].aborted = FALSE]
    /\ transaction' = [transaction EXCEPT ![x].mark = IF @ = "made" THEN "undone" ELSE @]
    /\ UNCHANGED <<database, cached, committed, job, faults, writes, cascaded>>

Next ==
    \/ \E p \in Parties :
        \/ \E t \in Tables : WriteTable(p, t)
        \/ \E c \in Clients : Connect(p, c)
        \/ Begin(p) \/ Delete(p) \/ GetSchema(p) \/ Insert(p) \/ Commit(p)
        \/ \E retryable \in BOOLEAN : Fail(p, retryable)
        \/ Refuse(p) \/ WaitTimesOut(p)
        \/ CommitAnswerLost(p)
    \/ \E x \in Txs :
        \/ BeginTransaction(x) \/ TxCommit(x) \/ TxRollback(x) \/ TxRollbackRejects(x)
        \/ \E effective \in BOOLEAN : TxCommitRejects(x, effective)
        \/ CreateSavepoint(x) \/ ReleaseSavepoint(x) \/ RollbackToSavepoint(x)

Spec == Init /\ [][Next]_vars

-----------------------------------------------------------------------------
(* Properties                                                              *)

\* Whatever fails and is retried, nobody sees a table between its DELETE and its
\* INSERT: a table without rows is one whose parent was written.  And in
\* postgres nobody sees rows of a transaction whose COMMIT did not take effect.
WholeOrNothing ==
    /\ \A t \in Tables : committed[t] = Empty => t \in cascaded
    /\ Dialect = "postgres" =>
           \A t \in Tables : committed[t] \in Txs => transaction[committed[t]].acted

\* What tests/orm.mssql.test.js and tests/orm.oracle.test.js expect, "Savepoint
\* rollback should work": what a transaction has written since a savepoint is not
\* in the tables once it has gone back to it.
SavepointRollbackWorks ==
    \A x \in Txs : transaction[x].mark = "undone" => \A t \in Tables : committed[t] # x

\* Every client of the pool is free, in use by a method or an open transaction,
\* or lost for good because the ROLLBACK of its transaction rejected.
ClientsReturn ==
    \A c \in Clients :
        \/ Free(c)
        \/ job[client[c].owner].on = c
        \/ /\ client[c].owner \in Txs
           /\ transaction[client[c].owner].on = c
           /\ transaction[client[c].owner].status \in {"open", "unsure", "leaked"}

\* A client that no step of its owner will free: it was lost, or its owner waits
\* for another one without a timeout.
Held(c) ==
    LET p == client[c].owner IN
    /\ p # Nobody
    /\ \/ p \in Txs /\ transaction[p].status = "leaked"
       \/ job[p].at = "waiting" /\ ~HasTimeout

\* The pool never comes to a stop -- each client taken, each by someone who waits
\* for another -- but for clients lost after a failed ROLLBACK, and for mysql
\* when as many transactions are open as there are clients: each of them needs
\* a second client to write.
NeverStuck ==
    (\A c \in Clients : Held(c)) =>
        \/ \E x \in Txs : transaction[x].status = "leaked"
        \/ /\ Dialect = "mysql"
           /\ Cardinality({x \in Txs : transaction[x].status = "open"}) >= Cardinality(Clients)

=============================================================================
