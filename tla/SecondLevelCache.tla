--------------------------- MODULE SecondLevelCache ---------------------------
(***************************************************************************)
(* The second-level cache of packages/orm (second-level-cache.ts): a map   *)
(* from tables to rows that SecondLevelCachedDriver keeps in front of      *)
(* another driver, shared by every caller of the connection.  Each method  *)
(* awaits the driver behind it and touches the cache only when that call   *)
(* has returned, so that between the moment the driver acts and the moment *)
(* the cache learns of it any other call may run.                          *)
(*                                                                         *)
(* A call is three steps here: it is made, the driver acts on it, and it   *)
(* returns (or rejects, before or after the driver acted).  A read the     *)
(* cache can answer changes nothing and is not a step; executeQuery and    *)
(* the reads of a transaction never meet the cache.                        *)
(*                                                                         *)
(* What a transaction's writes do depends on the driver behind: see        *)
(* BackendKinds.                                                           *)
(***************************************************************************)
EXTENDS FiniteSets

CONSTANTS
    Tables,         \* table names
    CachedTables,   \* tables whose entity has @CacheEntity, enabled
    Readers,        \* callers of readTable
    Mutators,       \* callers of the methods that change a table
    Handles,        \* transactions
    Empty,          \* the rows [] a table has before anyone wrote it
    NoEntry,        \* the cache has no entry for the table
    Idle,           \* a caller with no call under way
    HasTtl,         \* entries carry an expiresAt
    Backends        \* the kinds of driver that may be behind

\* "snapshot": memory, json and sqlite keep the writes of a transaction in a
\* copy of every table, and their commit puts the whole copy in place.
\* "client": postgres writes on the client that holds the transaction.
\* "autocommit": mysql, mssql and oracle hand a write of the transaction to the
\* base driver, which commits it at once on another connection.
BackendKinds == {"snapshot", "client", "autocommit"}

Callers == Readers \cup Mutators

Rows == Mutators \cup Handles \cup {Empty}

MutatingKinds == {"write", "drop", "ensure"}

\* "acted": the driver has done its part; rows: what the call will store.
Calls ==
    [kind : {"read"}, table : Tables, acted : BOOLEAN, rows : Rows]
        \cup [kind : MutatingKinds, table : Tables, acted : BOOLEAN, rows : Rows]
        \cup [kind : {"init"}, acted : BOOLEAN]

ASSUME SecondLevelCacheAssumption ==
    /\ CachedTables \subseteq Tables
    /\ Callers \cap Handles = {}
    /\ Readers \cap Mutators = {}
    /\ Empty \notin Mutators \cup Handles
    /\ NoEntry \notin Rows
    /\ Idle \notin Calls
    /\ HasTtl \in BOOLEAN
    /\ Backends \subseteq BackendKinds

VARIABLES
    backend,      \* which kind of driver is behind
    db,           \* the tables of the driver behind
    cache,        \* SecondLevelCacheStore.tables
    call,         \* per caller: its method call under way
    tx,           \* per handle: the CachedTransactionDriver
    exposed       \* history: tables whose cache entry may lag behind, see below

vars == <<backend, db, cache, call, tx, exposed>>

TxRecords ==
    [status : {"unused", "active", "acted", "committed", "rejected", "undone"},
     working : [Tables -> Rows],   \* its copy, not used by "autocommit"
     pending : SUBSET Tables,      \* written by the driver, not yet returned
     mutated : SUBSET Tables]      \* mutatedTables

TypeOK ==
    /\ backend \in Backends
    /\ db \in [Tables -> Rows]
    /\ cache \in [Tables -> Rows \cup {NoEntry}]
    /\ call \in [Callers -> Calls \cup {Idle}]
    /\ tx \in [Handles -> TxRecords]
    /\ exposed \subseteq Tables

Init ==
    /\ backend \in Backends
    /\ db = [n \in Tables |-> Empty]
    /\ cache = [n \in Tables |-> NoEntry]
    /\ call = [c \in Callers |-> Idle]
    /\ tx = [h \in Handles |->
                [status |-> "unused", working |-> [n \in Tables |-> Empty],
                 pending |-> {}, mutated |-> {}]]
    /\ exposed = {}

-----------------------------------------------------------------------------
\* A call that will store the rows it holds when it returns.
Holds(c, n) ==
    /\ call[c] # Idle
    /\ call[c].kind \in {"read", "write"}
    /\ call[c].table = n
    /\ call[c].acted

\* The driver has changed the table for the transaction, and the cache may be
\* told when the commit returns.
Unsettled(h, n) ==
    /\ n \in tx[h].mutated \cup tx[h].pending
    /\ tx[h].status = "acted" \/ (tx[h].status = "active" /\ backend = "autocommit")

\* Someone's call on the table is under way.
Busy(n) ==
    \/ \E c \in Callers : call[c] # Idle /\ (call[c].kind = "init" \/ call[c].table = n)
    \/ \E h \in Handles : Unsettled(h, n)

\* The tables that the driver has just changed for caller a while another
\* caller holds rows of them: a fill or a store is racing the change.
Racing(a) == {n \in Tables : db'[n] # db[n] /\ \E c \in Callers \ {a} : Holds(c, n)}

\* A table stays exposed until its entry goes while nobody is busy with it.
Track(causes) ==
    exposed' = {n \in exposed \cup causes : cache'[n] # NoEntry \/ Busy(n)'}

Store(n, rows) == [cache EXCEPT ![n] = IF n \in CachedTables THEN rows ELSE NoEntry]

Invalidate(ns) == [n \in Tables |-> IF n \in ns THEN NoEntry ELSE cache[n]]

-----------------------------------------------------------------------------
(* SecondLevelCachedDriver.                                                *)

Make(c, request) ==
    /\ call[c] = Idle
    /\ call' = [call EXCEPT ![c] = request]
    /\ UNCHANGED <<db, cache, tx>>
    /\ Track({})

ReadMiss(c, n) ==
    /\ cache[n] = NoEntry
    /\ Make(c, [kind |-> "read", table |-> n, acted |-> FALSE, rows |-> Empty])

\* Mutant: a table that was dropped has no rows, not even [].
MutateToUndefined(c, kind, n) ==
    Make(c, [kind |-> kind, table |-> n, acted |-> FALSE,
             rows |-> IF kind = "write" THEN c ELSE NoEntry])

Mutate(c, kind, n) ==
    Make(c, [kind |-> kind, table |-> n, acted |-> FALSE,
             rows |-> IF kind = "write" THEN c ELSE Empty])

CallInit(c) == Make(c, [kind |-> "init", acted |-> FALSE])

\* The driver reads the table for a call of readTable.
ActRead(c) ==
    /\ call[c] # Idle
    /\ call[c].kind = "read"
    /\ ~call[c].acted
    /\ call' = [call EXCEPT ![c].acted = TRUE, ![c].rows = db[call[c].table]]
    /\ UNCHANGED <<db, cache, tx>>
    /\ Track({})

\* The driver does what a call of another method asks.
ActMutation(c) ==
    /\ call[c] # Idle
    /\ call[c].kind # "read"
    /\ ~call[c].acted
    /\ call' = [call EXCEPT ![c].acted = TRUE]
    /\ db' = IF call[c].kind \in {"write", "drop"}
             THEN [db EXCEPT ![call[c].table] = call[c].rows]
             ELSE db
    /\ UNCHANGED <<cache, tx>>
    /\ Track(Racing(c))

\* The driver's promise resolves and the cache is brought up to date.
Return(c) ==
    /\ call[c] # Idle
    /\ call[c].acted
    /\ call' = [call EXCEPT ![c] = Idle]
    /\ cache' = CASE call[c].kind \in {"read", "write"} -> Store(call[c].table, call[c].rows)
                  [] call[c].kind \in {"drop", "ensure"} -> Invalidate({call[c].table})
                  [] call[c].kind = "init" -> Invalidate(Tables)
    /\ UNCHANGED <<db, tx>>
    /\ Track({})

\* The driver's promise rejects: the cache is left as it is, whether or not
\* the driver had acted before it failed.
Reject(c) ==
    /\ call[c] # Idle
    /\ call' = [call EXCEPT ![c] = Idle]
    /\ UNCHANGED <<db, cache, tx>>
    /\ Track(IF call[c].acted /\ call[c].kind \in {"write", "drop"}
             THEN {call[c].table}
             ELSE {})

\* getTable drops an entry whose time is up when it is next asked for.
Expire(n) ==
    /\ HasTtl
    /\ cache[n] # NoEntry
    /\ cache' = Invalidate({n})
    /\ UNCHANGED <<db, call, tx>>
    /\ Track({})

-----------------------------------------------------------------------------
(* CachedTransactionDriver.                                                *)

BeginTransaction(h) ==
    /\ tx[h].status = "unused"
    /\ tx' = [tx EXCEPT ![h].status = "active", ![h].working = db]
    /\ UNCHANGED <<db, cache, call>>
    /\ Track({})

\* Mutant: a write in the transaction is cached at once.
TxMutateCaches(h, n) ==
    /\ backend # "autocommit"
    /\ tx[h].status = "active"
    /\ tx' = [tx EXCEPT ![h].working[n] = h, ![h].mutated = @ \cup {n}]
    /\ cache' = Store(n, h)
    /\ UNCHANGED <<db, call>>
    /\ Track({})

\* writeTable, dropTable, or ensureTable and updateSchema, which leave the
\* rows, in the transaction's own copy or on its own client.
TxMutate(h, n) ==
    /\ backend # "autocommit"
    /\ tx[h].status = "active"
    /\ \E rows \in {h, Empty, tx[h].working[n]} :
           tx' = [tx EXCEPT ![h].working[n] = rows, ![h].mutated = @ \cup {n}]
    /\ UNCHANGED <<db, cache, call>>
    /\ Track({})

\* The same call of the other drivers: the table changes for everyone.
TxMutateActs(h, n) ==
    /\ backend = "autocommit"
    /\ tx[h].status = "active"
    /\ n \notin tx[h].pending
    /\ \E rows \in {h, Empty, db[n]} : db' = [db EXCEPT ![n] = rows]
    /\ tx' = [tx EXCEPT ![h].pending = @ \cup {n}]
    /\ UNCHANGED <<cache, call>>
    /\ Track(Racing(h))

\* It returns, and mutatedTables takes note; or it rejects after the driver had
\* acted, and nothing does.
TxMutateReturns(h, n) ==
    /\ n \in tx[h].pending
    /\ tx' = [tx EXCEPT ![h].pending = @ \ {n}, ![h].mutated = @ \cup {n}]
    /\ UNCHANGED <<db, cache, call>>
    /\ Track({})

TxMutateRejects(h, n) ==
    /\ n \in tx[h].pending
    /\ tx' = [tx EXCEPT ![h].pending = @ \ {n}]
    /\ UNCHANGED <<db, cache, call>>
    /\ Track({n} \ tx[h].mutated)

CommitOf(h) ==
    [n \in Tables |-> IF \/ backend = "snapshot"
                         \/ backend = "client" /\ n \in tx[h].mutated
                      THEN tx[h].working[n]
                      ELSE db[n]]

CommitActs(h) ==
    /\ tx[h].status = "active"
    /\ db' = CommitOf(h)
    /\ tx' = [tx EXCEPT ![h].status = "acted"]
    /\ UNCHANGED <<cache, call>>
    /\ Track(Racing(h) \cup {n \in Tables \ tx[h].mutated : db'[n] # db[n]})

Close(h, status) ==
    tx' = [tx EXCEPT ![h].status = status, ![h].pending = {}, ![h].mutated = {}]

\* What the driver has changed for the transaction when it ends without telling
\* the cache.
Untold(h) ==
    IF tx[h].status = "acted" \/ backend = "autocommit"
    THEN tx[h].mutated \cup tx[h].pending
    ELSE {}

\* Mutant: mutatedTables is cleared before the cache is told of it.
CommitReturnsCleared(h) ==
    /\ tx[h].status = "acted"
    /\ Close(h, "committed")
    /\ UNCHANGED <<db, cache, call>>
    /\ Track(tx[h].pending)

CommitReturns(h) ==
    /\ tx[h].status = "acted"
    /\ cache' = Invalidate(tx[h].mutated)
    /\ Close(h, "committed")
    /\ UNCHANGED <<db, call>>
    /\ Track(tx[h].pending)

\* commit() of the driver rejects, before or after the change was made.
CommitRejects(h) ==
    /\ tx[h].status \in {"active", "acted"}
    /\ Close(h, IF tx[h].status = "acted" THEN "rejected" ELSE "undone")
    /\ UNCHANGED <<db, cache, call>>
    /\ Track(Untold(h))

\* mutatedTables is cleared, and no entry goes.
Rollback(h) ==
    /\ tx[h].status = "active"
    /\ Close(h, "undone")
    /\ UNCHANGED <<db, cache, call>>
    /\ Track(Untold(h))

-----------------------------------------------------------------------------
Step ==
    \/ \E c \in Readers, n \in Tables : ReadMiss(c, n)
    \/ \E c \in Mutators, n \in Tables, kind \in MutatingKinds : Mutate(c, kind, n)
    \/ \E c \in Mutators : CallInit(c)
    \/ \E c \in Callers : ActRead(c) \/ ActMutation(c) \/ Return(c) \/ Reject(c)
    \/ \E n \in Tables : Expire(n)
    \/ \E h \in Handles :
           \/ BeginTransaction(h)
           \/ \E n \in Tables : \/ TxMutate(h, n) \/ TxMutateActs(h, n)
                               \/ TxMutateReturns(h, n) \/ TxMutateRejects(h, n)
           \/ CommitActs(h) \/ CommitReturns(h) \/ CommitRejects(h) \/ Rollback(h)

Next == UNCHANGED backend /\ Step

Spec == Init /\ [][Next]_vars

-----------------------------------------------------------------------------
\* What the cache serves is what the driver has.  When no call on a table is
\* under way its entry, if any, equals the driver's rows -- except where the
\* code leaves a way out, and these are all of them: rows read or written
\* before a change were stored after it; a call, or the commit, rejected after
\* the driver had acted; a commit of the whole state put back a table that the
\* transaction never touched; or a transaction whose writes were committed as
\* they were made (mysql, mssql, oracle) ended with a rollback or a rejected
\* commit, or with a write that had not returned.
CoherentUnlessExposed ==
    \A n \in Tables \ exposed : ~Busy(n) => cache[n] \in {NoEntry, db[n]}

\* Over a driver that keeps a transaction's writes to itself, nothing of an open
\* or undone transaction is cached or about to be cached, whichever way its
\* calls interleave with those outside it.  Over mysql, mssql and oracle nothing
\* like it holds: a write of the transaction is in the database before the
\* commit, so a read beside it caches what may yet be rolled back.
NeverServesUncommitted ==
    backend # "autocommit" =>
        \A h \in Handles, n \in Tables :
            tx[h].status \in {"unused", "active", "undone"} =>
                /\ cache[n] # h
                /\ \A c \in Callers : Holds(c, n) => call[c].rows # h

\* "Cache should be invalidated after transactional mutation"
\* (tests/orm.cache.test.js): when a commit has returned and nothing is under
\* way any more, no entry differs from the rows of the driver.
InvalidatedAfterCommit ==
    (\E h \in Handles : tx[h].status = "committed") /\ (\A n \in Tables : ~Busy(n))
        => \A n \in Tables : cache[n] \in {NoEntry, db[n]}

=============================================================================
