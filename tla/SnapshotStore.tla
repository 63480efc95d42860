---------------------------- MODULE SnapshotStore ----------------------------
(***************************************************************************)
(* What an in-process driver promises: tables that change atomically, and  *)
(* transactions that work on a private snapshot and replace the whole      *)
(* state when they commit.  MemoryDatabaseDriver (drivers/memory.ts) is    *)
(* this specification to the letter -- none of its methods awaits          *)
(* anything, so each is one step -- and JsonDriver implements it.          *)
(***************************************************************************)
EXTENDS PersistedState

VARIABLES
    state,        \* the driver's this.state
    tx,           \* per handle: the closure of buildTransactionalInterface
    foreign       \* history, per handle: tables some other party changed
                  \* after the handle's snapshot was taken

vars == <<state, tx, foreign>>

TypeOK ==
    /\ state \in States
    /\ tx \in [Handles -> HandleRecords]
    /\ foreign \in [Handles -> SUBSET Tables]

Init ==
    /\ state = EmptyState
    /\ tx = [h \in Handles |-> UnusedHandle]
    /\ foreign = [h \in Handles |-> {}]

\* The tables on which two states differ.
Changed(s, t) ==
    {n \in Tables : s.tables[n] # t.tables[n] \/ ((n \in s.schemas) # (n \in t.schemas))}

\* Bookkeeping of a step after which the driver's state is s.
Publish(s) ==
    /\ state' = s
    /\ foreign' = [h \in Handles |->
                      IF tx[h].status \in {"active", "committing"}
                      THEN foreign[h] \cup Changed(state, s)
                      ELSE foreign[h]]

-----------------------------------------------------------------------------
WriteTable(c, n) == Publish(WriteRows(state, n, c)) /\ UNCHANGED tx

CreateTable(n) == Publish(CreateRows(state, n)) /\ UNCHANGED tx

UpdateSchema(n) == Publish(PutSchema(state, n)) /\ UNCHANGED tx

EnsureTable(n) == Publish(PutSchema(CreateRows(state, n), n)) /\ UNCHANGED tx

DropTable(n) == Publish(Drop(state, n)) /\ UNCHANGED tx

BeginTransaction(h) ==
    /\ tx[h].status = "unused"
    /\ tx' = [tx EXCEPT ![h] = OpenHandle(state)]
    /\ UNCHANGED <<state, foreign>>

\* Mutant: the snapshot is handed over without cloneState.
TxEditUncloned(h) ==
    /\ tx[h].status = "active"
    /\ \E s \in Edits(h, tx[h].working) :
           tx' = [tx EXCEPT ![h].working = s] /\ state' = s
    /\ UNCHANGED foreign

TxEdit(h) ==
    /\ tx[h].status = "active"
    /\ \E s \in Edits(h, tx[h].working) : tx' = [tx EXCEPT ![h].working = s]
    /\ UNCHANGED <<state, foreign>>

Commit(h) ==
    /\ tx[h].status = "active"
    /\ Publish(tx[h].working)
    /\ tx' = [tx EXCEPT ![h] = CloseHandle("committed")]

Rollback(h) ==
    /\ tx[h].status = "active"
    /\ tx' = [tx EXCEPT ![h] = CloseHandle("rolledBack")]
    /\ UNCHANGED <<state, foreign>>

CreateSavepoint(h, p) ==
    /\ tx[h].status = "active"
    /\ tx' = [tx EXCEPT ![h] = SetSavepoint(@, p)]
    /\ UNCHANGED <<state, foreign>>

DropSavepoint(h, p) ==
    /\ tx[h].status = "active"
    /\ tx' = [tx EXCEPT ![h] = ReleaseSavepoint(@, p)]
    /\ UNCHANGED <<state, foreign>>

\* Mutant: an unknown savepoint does not throw.
RollbackToUnknown(h, p) ==
    /\ tx[h].status = "active"
    /\ tx' = [tx EXCEPT ![h] = RestoreSavepoint(@, p)]
    /\ UNCHANGED <<state, foreign>>

RollbackToSavepoint(h, p) ==
    /\ tx[h].status = "active"
    /\ tx[h].savepoints[p] # NoSavepoint
    /\ tx' = [tx EXCEPT ![h] = RestoreSavepoint(@, p)]
    /\ UNCHANGED <<state, foreign>>

Next ==
    \/ \E c \in Clients, n \in Tables : WriteTable(c, n)
    \/ \E n \in Tables : CreateTable(n) \/ UpdateSchema(n) \/ EnsureTable(n) \/ DropTable(n)
    \/ \E h \in Handles : BeginTransaction(h) \/ TxEdit(h) \/ Commit(h) \/ Rollback(h)
    \/ \E h \in Handles, p \in Savepoints :
           CreateSavepoint(h, p) \/ DropSavepoint(h, p) \/ RollbackToSavepoint(h, p)

Spec == Init /\ [][Next]_vars

-----------------------------------------------------------------------------
\* No dirty data.  Rows a transaction wrote reach the driver's tables, or the
\* snapshot or a savepoint of another transaction, only once that transaction
\* has committed: nothing of a transaction that is still open or was rolled
\* back can be read outside it (base.ts copies the snapshot it is given and
\* hands its copy over in commit alone).
NoDirtyData ==
    \A h \in Handles, n \in Tables :
        tx[h].status # "committed" =>
            /\ state.tables[n] # h
            /\ \A g \in Handles \ {h} :
                  /\ tx[g].working.tables[n] # h
                  /\ \A p \in Savepoints :
                         tx[g].savepoints[p] # NoSavepoint
                             => tx[g].savepoints[p].tables[n] # h

=============================================================================
