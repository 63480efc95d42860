------------------------- MODULE SnapshotStoreProofs -------------------------
(***************************************************************************)
(* TypeOK and NoDirtyData of SnapshotStore, for any sets of tables,        *)
(* callers, transactions and savepoint names.                              *)
(***************************************************************************)
EXTENDS SnapshotStore, TLAPS

-----------------------------------------------------------------------------
(* The operators of PersistedState: what each of them returns, and that    *)
(* none brings rows of a party into a state but that party's own write.    *)

\* The state a driver starts from is a state.
LEMMA EmptyStateType == EmptyState \in States
  BY DEF EmptyState, States, Rows

\* Each operation on a state (the bodies of the DatabaseDriver methods of
\* memory.ts and json.ts) returns a state.
LEMMA StateOpsType ==
  ASSUME NEW s \in States, NEW n \in Tables, NEW r \in Rows
  PROVE  /\ WriteRows(s, n, r) \in States
         /\ CreateRows(s, n) \in States
         /\ PutSchema(s, n) \in States
         /\ Drop(s, n) \in States
  BY DEF States, Rows, WriteRows, CreateRows, PutSchema, Drop

\* A transaction's edit of its private copy leaves a state.
LEMMA EditsType ==
  ASSUME NEW h \in Handles, NEW s \in States, NEW t \in Edits(h, s)
  PROVE  t \in States
<1>1. h \in Rows
  BY DEF Rows, Writers
<1>2. \A n \in Tables : CreateRows(s, n) \in States
  BY <1>1, StateOpsType
<1>3. \A n \in Tables : PutSchema(CreateRows(s, n), n) \in States
  BY <1>1, <1>2, StateOpsType
<1> QED
  BY <1>1, <1>3, StateOpsType DEF Edits

\* The handle operations of buildTransactionalInterface (base.ts) return
\* handle records.
LEMMA HandleOpsType ==
  ASSUME NEW r \in HandleRecords, NEW p \in Savepoints, NEW s \in States,
         NEW status \in HandleStatus
  PROVE  /\ UnusedHandle \in HandleRecords
         /\ OpenHandle(s) \in HandleRecords
         /\ CloseHandle(status) \in HandleRecords
         /\ [r EXCEPT !.working = s] \in HandleRecords
         /\ [r EXCEPT !.status = status] \in HandleRecords
         /\ SetSavepoint(r, p) \in HandleRecords
         /\ ReleaseSavepoint(r, p) \in HandleRecords
         /\ r.savepoints[p] # NoSavepoint => RestoreSavepoint(r, p) \in HandleRecords
<1>1. UnusedHandle \in HandleRecords
  BY EmptyStateType DEF UnusedHandle, HandleRecords, HandleStatus, NoSavepoints
<1>2. OpenHandle(s) \in HandleRecords
  BY DEF OpenHandle, HandleRecords, HandleStatus, NoSavepoints
<1>3. CloseHandle(status) \in HandleRecords
  BY <1>1 DEF CloseHandle, HandleRecords
<1>4. /\ [r EXCEPT !.working = s] \in HandleRecords
      /\ [r EXCEPT !.status = status] \in HandleRecords
  BY DEF HandleRecords
<1>5. /\ SetSavepoint(r, p) \in HandleRecords
      /\ ReleaseSavepoint(r, p) \in HandleRecords
  BY DEF HandleRecords, SetSavepoint, ReleaseSavepoint
<1>6. r.savepoints[p] # NoSavepoint => RestoreSavepoint(r, p) \in HandleRecords
  BY DEF HandleRecords, RestoreSavepoint
<1> QED
  BY <1>1, <1>2, <1>3, <1>4, <1>5, <1>6

\* No table of s holds the rows of w.
Without(s, w) == \A n \in Tables : s.tables[n] # w

\* The state a driver starts from has nobody's rows.
LEMMA EmptyStateWithout ==
  ASSUME NEW w \in Writers
  PROVE  Without(EmptyState, w)
  BY WritersAssumption DEF Without, EmptyState

\* An operation on a state brings in the rows it is given and no others.
LEMMA StateOpsWithout ==
  ASSUME NEW w \in Writers, NEW s \in States, Without(s, w),
         NEW n \in Tables, NEW r \in Rows
  PROVE  /\ r # w => Without(WriteRows(s, n, r), w)
         /\ Without(CreateRows(s, n), w)
         /\ Without(PutSchema(s, n), w)
         /\ Without(Drop(s, n), w)
  BY WritersAssumption
  DEF Without, States, WriteRows, CreateRows, PutSchema, Drop

\* An edit by one transaction brings in no rows of another party.
LEMMA EditsWithout ==
  ASSUME NEW w \in Writers, NEW h \in Handles, h # w,
         NEW s \in States, Without(s, w), NEW t \in Edits(h, s)
  PROVE  Without(t, w)
<1>1. h \in Rows
  BY DEF Rows, Writers
<1>2. \A n \in Tables : CreateRows(s, n) \in States /\ Without(CreateRows(s, n), w)
  BY <1>1, StateOpsType, StateOpsWithout
<1>3. \A n \in Tables : Without(PutSchema(CreateRows(s, n), n), w)
  BY <1>1, <1>2, StateOpsWithout
<1> QED
  BY <1>1, <1>3, StateOpsWithout DEF Edits

-----------------------------------------------------------------------------
\* Publishing a state keeps the history variable well formed.
LEMMA PublishType ==
  ASSUME TypeOK, NEW s \in States, Publish(s)
  PROVE  state' \in States /\ foreign' \in [Handles -> SUBSET Tables]
<1>1. Changed(state, s) \subseteq Tables
  BY DEF Changed
<1> QED
  BY <1>1 DEF TypeOK, Publish

\* The MemoryDatabaseDriver only ever holds a state, and every transaction
\* handle a copy of one (drivers/memory.ts, drivers/base.ts).
THEOREM SnapshotStoreTypeOK == Spec => []TypeOK
<1>1. Init => TypeOK
  <2> SUFFICES ASSUME Init PROVE TypeOK
    OBVIOUS
  <2>1. UnusedHandle \in HandleRecords
    BY EmptyStateType DEF UnusedHandle, HandleRecords, HandleStatus, NoSavepoints
  <2> QED
    BY <2>1, EmptyStateType DEF Init, TypeOK
<1>2. TypeOK /\ [Next]_vars => TypeOK'
  <2> SUFFICES ASSUME TypeOK, [Next]_vars PROVE TypeOK'
    OBVIOUS
  <2> USE DEF TypeOK
  <2>1. ASSUME NEW c \in Clients, NEW n \in Tables, WriteTable(c, n)
        PROVE  TypeOK'
    <3>1. c \in Rows
      BY DEF Rows, Writers
    <3>2. WriteRows(state, n, c) \in States
      BY <3>1, StateOpsType
    <3> QED
      BY <2>1, <3>2, PublishType DEF WriteTable
  <2>2. ASSUME NEW n \in Tables,
               CreateTable(n) \/ UpdateSchema(n) \/ EnsureTable(n) \/ DropTable(n)
        PROVE  TypeOK'
    <3>1. Empty \in Rows
      BY DEF Rows
    <3>2. /\ CreateRows(state, n) \in States
          /\ PutSchema(state, n) \in States
          /\ Drop(state, n) \in States
      BY <3>1, StateOpsType
    <3>3. PutSchema(CreateRows(state, n), n) \in States
      BY <3>1, <3>2, StateOpsType
    <3> QED
      BY <2>2, <3>2, <3>3, PublishType DEF CreateTable, UpdateSchema, EnsureTable, DropTable
  <2>3. ASSUME NEW h \in Handles, BeginTransaction(h)
        PROVE  TypeOK'
    <3>1. OpenHandle(state) \in HandleRecords
      BY DEF OpenHandle, HandleRecords, HandleStatus, NoSavepoints
    <3> QED
      BY <2>3, <3>1 DEF BeginTransaction
  <2>4. ASSUME NEW h \in Handles, TxEdit(h)
        PROVE  TypeOK'
    <3>1. PICK s \in Edits(h, tx[h].working) : tx' = [tx EXCEPT ![h].working = s]
      BY <2>4 DEF TxEdit
    <3>2. tx[h].working \in States
      BY DEF HandleRecords
    <3>3. s \in States
      BY <3>2, EditsType
    <3>4. [tx[h] EXCEPT !.working = s] \in HandleRecords
      BY <3>3 DEF HandleRecords
    <3> QED
      BY <2>4, <3>1, <3>4 DEF TxEdit
  <2>5. ASSUME NEW h \in Handles, Commit(h) \/ Rollback(h)
        PROVE  TypeOK'
    <3>1. tx[h].working \in States
      BY DEF HandleRecords
    <3>2. CloseHandle("committed") \in HandleRecords /\ CloseHandle("rolledBack") \in HandleRecords
      BY EmptyStateType
      DEF CloseHandle, UnusedHandle, HandleRecords, HandleStatus, NoSavepoints
    <3> QED
      BY <2>5, <3>1, <3>2, PublishType DEF Commit, Rollback
  <2>6. ASSUME NEW h \in Handles, NEW p \in Savepoints,
               CreateSavepoint(h, p) \/ DropSavepoint(h, p) \/ RollbackToSavepoint(h, p)
        PROVE  TypeOK'
    <3>1. /\ SetSavepoint(tx[h], p) \in HandleRecords
          /\ ReleaseSavepoint(tx[h], p) \in HandleRecords
          /\ tx[h].savepoints[p] # NoSavepoint => RestoreSavepoint(tx[h], p) \in HandleRecords
      BY HandleOpsType, EmptyStateType DEF HandleStatus
    <3> QED
      BY <2>6, <3>1 DEF CreateSavepoint, DropSavepoint, RollbackToSavepoint
  <2>7. CASE UNCHANGED vars
    BY <2>7 DEF vars
  <2> QED
    BY <2>1, <2>2, <2>3, <2>4, <2>5, <2>6, <2>7 DEF Next
<1> QED
  BY <1>1, <1>2, PTL DEF Spec

-----------------------------------------------------------------------------
\* What NoDirtyData says of one transaction, in terms of Without.
Contained(h) ==
    /\ Without(state, h)
    /\ \A g \in Handles \ {h} :
          /\ Without(tx[g].working, h)
          /\ \A p \in Savepoints :
                 tx[g].savepoints[p] # NoSavepoint => Without(tx[g].savepoints[p], h)

\* NoDirtyData is Contained for every transaction that has not committed.
LEMMA NoDirtyDataIsContained ==
  NoDirtyData <=> \A h \in Handles : tx[h].status # "committed" => Contained(h)
  BY DEF NoDirtyData, Contained, Without

\* A transaction that has not committed after a step had not before it: a
\* completed handle stays completed (active is never set again in base.ts).
LEMMA CommittedStays ==
  ASSUME TypeOK, [Next]_vars, NEW h \in Handles, tx'[h].status # "committed"
  PROVE  tx[h].status # "committed"
  BY DEF TypeOK, HandleRecords, HandleStatus, Next, vars, WriteTable, CreateTable,
         UpdateSchema, EnsureTable, DropTable, BeginTransaction, TxEdit, Commit, Rollback,
         CreateSavepoint, DropSavepoint, RollbackToSavepoint, OpenHandle, CloseHandle,
         UnusedHandle, SetSavepoint, ReleaseSavepoint, RestoreSavepoint

\* The rows of a transaction that does not commit in this step stay contained.
LEMMA ContainedStep ==
  ASSUME TypeOK, [Next]_vars, NEW h \in Handles, Contained(h),
         tx[h].status # "committed", tx'[h].status # "committed"
  PROVE  Contained(h)'
<1> USE DEF TypeOK
<1>h. h \in Writers
  BY DEF Writers
<1>s. \A g \in Handles : tx[g].working \in States
  BY DEF HandleRecords
<1>1. ASSUME NEW c \in Clients, NEW n \in Tables, WriteTable(c, n)
      PROVE  Contained(h)'
  <2>1. c \in Rows /\ c # h
    BY WritersAssumption DEF Rows, Writers
  <2>2. Without(WriteRows(state, n, c), h)
    BY <1>h, <2>1, StateOpsWithout DEF Contained
  <2> QED
    BY <1>1, <2>2 DEF Contained, Without, WriteTable, Publish
<1>2. ASSUME NEW n \in Tables,
             CreateTable(n) \/ UpdateSchema(n) \/ EnsureTable(n) \/ DropTable(n)
      PROVE  Contained(h)'
  <2>1. Empty \in Rows
    BY DEF Rows
  <2>2. CreateRows(state, n) \in States /\ Without(CreateRows(state, n), h)
    BY <1>h, <2>1, StateOpsType, StateOpsWithout DEF Contained
  <2>3. /\ Without(PutSchema(state, n), h)
        /\ Without(PutSchema(CreateRows(state, n), n), h)
        /\ Without(Drop(state, n), h)
    BY <1>h, <2>1, <2>2, StateOpsWithout DEF Contained
  <2> QED
    BY <1>2, <2>2, <2>3
    DEF Contained, Without, CreateTable, UpdateSchema, EnsureTable, DropTable, Publish
<1>3. ASSUME NEW g \in Handles, BeginTransaction(g)
      PROVE  Contained(h)'
  BY <1>3 DEF Contained, Without, BeginTransaction, OpenHandle, NoSavepoints
<1>4. ASSUME NEW g \in Handles, TxEdit(g)
      PROVE  Contained(h)'
  <2>1. PICK s \in Edits(g, tx[g].working) : tx' = [tx EXCEPT ![g].working = s]
    BY <1>4 DEF TxEdit
  <2>2. g # h => Without(s, h)
    BY <1>h, <1>s, <2>1, EditsWithout DEF Contained
  <2>3. \A f \in Handles : /\ tx'[f].savepoints = tx[f].savepoints
                           /\ tx'[f].working = IF f = g THEN s ELSE tx[f].working
    BY <2>1 DEF HandleRecords
  <2>4. state' = state
    BY <1>4 DEF TxEdit
  <2> QED
    BY <2>2, <2>3, <2>4 DEF Contained, Without
<1>5. ASSUME NEW g \in Handles, Commit(g) \/ Rollback(g)
      PROVE  Contained(h)'
  <2>1. g = h => state' = state
    BY <1>5 DEF Commit, Rollback, CloseHandle, UnusedHandle
  <2>2. Without(state', h)
    BY <1>5, <2>1 DEF Commit, Rollback, Publish, Contained
  <2>3. PICK status : tx' = [tx EXCEPT ![g] = CloseHandle(status)]
    BY <1>5 DEF Commit, Rollback
  <2>4. Without(EmptyState, h)
    BY <1>h, EmptyStateWithout
  <2>5. \A f \in Handles :
           /\ tx'[f].working = IF f = g THEN EmptyState ELSE tx[f].working
           /\ tx'[f].savepoints = IF f = g THEN NoSavepoints ELSE tx[f].savepoints
    BY <2>3 DEF CloseHandle, UnusedHandle
  <2> QED
    BY <2>2, <2>4, <2>5 DEF Contained, Without, NoSavepoints
<1>6. ASSUME NEW g \in Handles, NEW q \in Savepoints,
             CreateSavepoint(g, q) \/ DropSavepoint(g, q) \/ RollbackToSavepoint(g, q)
      PROVE  Contained(h)'
  <2>1. state' = state
    BY <1>6 DEF CreateSavepoint, DropSavepoint, RollbackToSavepoint
  <2>2. PICK r : /\ tx' = [tx EXCEPT ![g] = r]
                 /\ \/ r = SetSavepoint(tx[g], q)
                    \/ r = ReleaseSavepoint(tx[g], q)
                    \/ tx[g].savepoints[q] # NoSavepoint /\ r = RestoreSavepoint(tx[g], q)
    BY <1>6 DEF CreateSavepoint, DropSavepoint, RollbackToSavepoint
  <2>3. /\ \/ r.working = tx[g].working
           \/ tx[g].savepoints[q] # NoSavepoint /\ r.working = tx[g].savepoints[q]
        /\ \A p \in Savepoints :
              r.savepoints[p] \in {tx[g].savepoints[p], tx[g].working, NoSavepoint}
    BY <2>2 DEF SetSavepoint, ReleaseSavepoint, RestoreSavepoint, HandleRecords
  <2>4. ASSUME NEW f \in Handles \ {h}
        PROVE  /\ Without(tx'[f].working, h)
               /\ \A p \in Savepoints :
                     tx'[f].savepoints[p] # NoSavepoint => Without(tx'[f].savepoints[p], h)
    <3>1. CASE f = g
      BY <2>2, <2>3, <3>1 DEF Contained
    <3>2. CASE f # g
      BY <2>2, <3>2 DEF Contained
    <3> QED
      BY <3>1, <3>2
  <2> QED
    BY <2>1, <2>4 DEF Contained, Without
<1>7. CASE UNCHANGED vars
  BY <1>7 DEF vars, Contained, Without
<1> QED
  BY <1>1, <1>2, <1>3, <1>4, <1>5, <1>6, <1>7 DEF Next

\* Nothing of an open or rolled-back transaction is ever visible outside it
\* (MemoryDatabaseDriver.beginTransaction and buildTransactionalInterface).
THEOREM SnapshotStoreNoDirtyData == Spec => []NoDirtyData
<1>1. Init => NoDirtyData
  <2> SUFFICES ASSUME Init PROVE NoDirtyData
    OBVIOUS
  <2>1. \A h \in Handles : Without(EmptyState, h)
    BY EmptyStateWithout DEF Writers
  <2> QED
    BY <2>1 DEF Init, NoDirtyData, Without, UnusedHandle, NoSavepoints
<1>2. TypeOK /\ NoDirtyData /\ [Next]_vars => NoDirtyData'
  <2> SUFFICES ASSUME TypeOK, NoDirtyData, [Next]_vars PROVE NoDirtyData'
    OBVIOUS
  <2>1. ASSUME NEW h \in Handles, tx'[h].status # "committed"
        PROVE  Contained(h)'
    BY <2>1, CommittedStays, ContainedStep, NoDirtyDataIsContained
  <2> QED
    BY <2>1 DEF NoDirtyData, Contained, Without
<1> QED
  BY <1>1, <1>2, SnapshotStoreTypeOK, PTL DEF Spec

=============================================================================
