-------------------------- MODULE JsonDriverProofs --------------------------
(***************************************************************************)
(* TypeOK, QuiescentDurable, InitRestores, NoDirtyData and CommitConfined  *)
(* of JsonDriver, for any sets of tables, callers and transactions and any *)
(* number of faults; and that it implements SnapshotStore as long as the   *)
(* process does not crash and nobody runs init on a driver in use.         *)
(***************************************************************************)
EXTENDS JsonDriver, TLAPS

-----------------------------------------------------------------------------
(* The operators of PersistedState: what each of them returns, and that    *)
(* none brings rows of a party into a state but that party's own write.    *)

\* The state a driver starts from is a state.
LEMMA EmptyStateType == EmptyState \in States
  BY DEF EmptyState, States, Rows

\* Each operation on a state (the bodies of the DatabaseDriver methods of
\* memory.ts and json.ts) returns a state.
LEMMA StateOpsType ==
  ASSUME NEW s \in States, NEW n \in Tables, NEW r \in Rows
  PROVE  /\ WriteRows(s, n, r) \in States
         /\ CreateRows(s, n) \in States
         /\ PutSchema(s, n) \in States
         /\ Drop(s, n) \in States
  BY DEF States, Rows, WriteRows, CreateRows, PutSchema, Drop

\* A transaction's edit of its private copy leaves a state.
LEMMA EditsType ==
  ASSUME NEW h \in Handles, NEW s \in States, NEW t \in Edits(h, s)
  PROVE  t \in States
<1>1. h \in Rows
  BY DEF Rows, Writers
<1>2. \A n \in Tables : CreateRows(s, n) \in States
  BY <1>1, StateOpsType
<1>3. \A n \in Tables : PutSchema(CreateRows(s, n), n) \in States
  BY <1>1, <1>2, StateOpsType
<1> QED
  BY <1>1, <1>3, StateOpsType DEF Edits

\* The handle operations of buildTransactionalInterface (base.ts) return
\* handle records.
LEMMA HandleOpsType ==
  ASSUME NEW r \in HandleRecords, NEW p \in Savepoints, NEW s \in States,
         NEW status \in HandleStatus
  PROVE  /\ UnusedHandle \in HandleRecords
         /\ OpenHandle(s) \in HandleRecords
         /\ CloseHandle(status) \in HandleRecords
         /\ [r EXCEPT !.working = s] \in HandleRecords
         /\ [r EXCEPT !.status = status] \in HandleRecords
         /\ SetSavepoint(r, p) \in HandleRecords
         /\ ReleaseSavepoint(r, p) \in HandleRecords
         /\ r.savepoints[p] # NoSavepoint => RestoreSavepoint(r, p) \in HandleRecords
<1>1. UnusedHandle \in HandleRecords
  BY EmptyStateType DEF UnusedHandle, HandleRecords, HandleStatus, NoSavepoints
<1>2. OpenHandle(s) \in HandleRecords
  BY DEF OpenHandle, HandleRecords, HandleStatus, NoSavepoints
<1>3. CloseHandle(status) \in HandleRecords
  BY <1>1 DEF CloseHandle, HandleRecords
<1>4. /\ [r EXCEPT !.working = s] \in HandleRecords
      /\ [r EXCEPT !.status = status] \in HandleRecords
  BY DEF HandleRecords
<1>5. /\ SetSavepoint(r, p) \in HandleRecords
      /\ ReleaseSavepoint(r, p) \in HandleRecords
  BY DEF HandleRecords, SetSavepoint, ReleaseSavepoint
<1>6. r.savepoints[p] # NoSavepoint => RestoreSavepoint(r, p) \in HandleRecords
  BY DEF HandleRecords, RestoreSavepoint
<1> QED
  BY <1>1, <1>2, <1>3, <1>4, <1>5, <1>6

\* No table of s holds the rows of w.
Without(s, w) == \A n \in Tables : s.tables[n] # w

\* The state a driver starts from has nobody's rows.
LEMMA EmptyStateWithout ==
  ASSUME NEW w \in Writers
  PROVE  Without(EmptyState, w)
  BY WritersAssumption DEF Without, EmptyState

\* An operation on a state brings in the rows it is given and no others.
LEMMA StateOpsWithout ==
  ASSUME NEW w \in Writers, NEW s \in States, Without(s, w),
         NEW n \in Tables, NEW r \in Rows
  PROVE  /\ r # w => Without(WriteRows(s, n, r), w)
         /\ Without(CreateRows(s, n), w)
         /\ Without(PutSchema(s, n), w)
         /\ Without(Drop(s, n), w)
  BY WritersAssumption
  DEF Without, States, WriteRows, CreateRows, PutSchema, Drop

\* An edit by one transaction brings in no rows of another party.
LEMMA EditsWithout ==
  ASSUME NEW w \in Writers, NEW h \in Handles, h # w,
         NEW s \in States, Without(s, w), NEW t \in Edits(h, s)
  PROVE  Without(t, w)
<1>1. h \in Rows
  BY DEF Rows, Writers
<1>2. \A n \in Tables : CreateRows(s, n) \in States /\ Without(CreateRows(s, n), w)
  BY <1>1, StateOpsType, StateOpsWithout
<1>3. \A n \in Tables : Without(PutSchema(CreateRows(s, n), n), w)
  BY <1>1, <1>2, StateOpsWithout
<1> QED
  BY <1>1, <1>3, StateOpsWithout DEF Edits

-----------------------------------------------------------------------------
(* Lemmas for the typing of the steps.                                     *)

\* The fields of a task of the promise chain.
LEMMA TaskFields ==
  ASSUME NEW t \in Tasks
  PROVE  /\ t.kind \in {"write", "schema", "drop", "commit"}
         /\ t.kind = "commit" => t.caller \in Handles
         /\ t.kind # "commit" => t.caller \in Clients /\ t.table \in Tables
  BY DEF Tasks

\* Whatever the file shows is a state or unreadable.
LEMMA ReadableType == ASSUME TypeOK PROVE Readable \subseteq Contents
  BY EmptyStateType DEF TypeOK, Readable, Contents, Writes

\* A task turns the state into a state (json.ts, the closures of enqueue).
LEMMA ApplyType == ASSUME TypeOK, NEW t \in Tasks PROVE Apply(t) \in States
<1>1. CASE t.kind = "write"
  <2>1. t.caller \in Rows
    BY <1>1, TaskFields DEF Rows, Writers
  <2> QED
    BY <1>1, <2>1, TaskFields, StateOpsType DEF Apply, TypeOK
<1>2. CASE t.kind \in {"schema", "drop"}
  <2>1. Empty \in Rows
    BY DEF Rows
  <2> QED
    BY <1>2, <2>1, TaskFields, StateOpsType DEF Apply, TypeOK
<1>3. CASE t.kind = "commit"
  BY <1>3, TaskFields DEF Apply, TypeOK, HandleRecords
<1> QED
  BY <1>1, <1>2, <1>3, TaskFields

\* Publishing a state keeps the history variable well formed.
LEMMA PublishType ==
  ASSUME TypeOK, NEW s \in States, Publish(s)
  PROVE  state' \in States /\ foreign' \in [Handles -> SUBSET Tables]
<1>1. Changed(state, s) \subseteq Tables
  BY DEF Changed
<1> QED
  BY <1>1 DEF TypeOK, Publish

\* Counting a fault keeps the counters within their bounds.
LEMMA FaultType ==
  ASSUME TypeOK, NEW k \in FaultKinds, Fault(k)
  PROVE  /\ faults' \in [FaultKinds -> Nat]
         /\ \A j \in FaultKinds : faults'[j] <= MaxFaults[j]
<1>1. faults \in [FaultKinds -> Nat] /\ MaxFaults \in [FaultKinds -> Nat]
  BY JsonDriverAssumption DEF TypeOK
<1>2. faults[k] < MaxFaults[k] /\ faults' = [faults EXCEPT ![k] = @ + 1]
  BY DEF Fault
<1>3. \A j \in FaultKinds : faults[j] <= MaxFaults[j]
  BY DEF TypeOK
<1> HIDE DEF FaultKinds
<1>4. faults' \in [FaultKinds -> Nat]
  BY <1>1, <1>2
<1>5. ASSUME NEW j \in FaultKinds PROVE faults'[j] <= MaxFaults[j]
  <2>1. CASE j = k
    <3>1. faults'[j] = faults[j] + 1
      BY <1>1, <1>2, <2>1
    <3> QED
      BY <1>1, <1>2, <2>1, <3>1
  <2>2. CASE j # k
    BY <1>1, <1>2, <1>3, <2>2
  <2> QED
    BY <2>1, <2>2
<1> QED
  BY <1>4, <1>5

\* The records that tell where init() is.
LEMMA BootsType == NoBoot \in Boots /\ [at |-> "recovering"] \in Boots
<1>1. NoBoot \in [at : {"idle", "recovering"}]
  BY DEF NoBoot
<1>2. [at |-> "recovering"] \in [at : {"idle", "recovering"}]
  OBVIOUS
<1> QED
  BY <1>1, <1>2 DEF Boots

\* A closed handle is a handle record.
LEMMA CloseHandleType ==
  ASSUME NEW status \in HandleStatus
  PROVE  CloseHandle(status) \in HandleRecords
  BY EmptyStateType DEF CloseHandle, UnusedHandle, HandleRecords, NoSavepoints, HandleStatus

-----------------------------------------------------------------------------
\* Every variable of the driver keeps its type; in particular the state and
\* the file only ever hold whole states, or nothing readable.
THEOREM JsonDriverTypeOK == Spec => []TypeOK
<1>1. Init => TypeOK
  <2> SUFFICES ASSUME Init PROVE TypeOK
    OBVIOUS
  <2>1. UnusedHandle \in HandleRecords
    BY EmptyStateType DEF UnusedHandle, HandleRecords, HandleStatus, NoSavepoints
  <2>2. <<>> \in Seq(Tasks)
    OBVIOUS
  <2>3. faults \in [FaultKinds -> Nat] /\ \A k \in FaultKinds : faults[k] <= MaxFaults[k]
    BY JsonDriverAssumption DEF Init
  <2> QED
    BY <2>1, <2>2, <2>3, EmptyStateType, BootsType DEF Init, TypeOK, Contents
<1>2. TypeOK /\ [Next]_vars => TypeOK'
  <2> SUFFICES ASSUME TypeOK, [Next]_vars PROVE TypeOK'
    OBVIOUS
  <2> USE DEF TypeOK
  <2>1. ASSUME NEW c \in Clients, NEW n \in Tables,
               WriteTable(c, n) \/ UpdateSchema(c, n) \/ DropTable(c, n) \/ EnsureTable(c, n)
        PROVE  TypeOK'
    <3>1. PICK kind \in {"write", "schema", "drop"} : Call(kind, c, n)
      BY <2>1 DEF WriteTable, UpdateSchema, DropTable, EnsureTable
    <3>2. [kind |-> kind, caller |-> c, table |-> n] \in Tasks
      BY <3>1 DEF Tasks
    <3>3. queue' \in Seq(Tasks)
      BY <3>1, <3>2 DEF Call, Enqueue
    <3>4. CreateRows(state, n) \in States
      BY StateOpsType DEF Rows
    <3>5. state' \in States /\ foreign' \in [Handles -> SUBSET Tables]
      BY <2>1, <3>4, PublishType DEF WriteTable, UpdateSchema, DropTable, EnsureTable
    <3> QED
      BY <3>1, <3>3, <3>5 DEF Call
  <2>2. ASSUME NEW h \in Handles, NEW r \in HandleRecords, Inside(h, r), queue' \in Seq(Tasks)
        PROVE  TypeOK'
    BY <2>2 DEF Inside, history
  <2>3. ASSUME NEW h \in Handles, BeginTransaction(h) \/ TxEdit(h) \/ Commit(h) \/ Rollback(h)
        PROVE  TypeOK'
    <3>1. CASE BeginTransaction(h)
      <4>1. OpenHandle(state) \in HandleRecords
        BY DEF OpenHandle, HandleRecords, HandleStatus, NoSavepoints
      <4> QED
        BY <3>1, <4>1, <2>2 DEF BeginTransaction
    <3>2. CASE TxEdit(h)
      <4>1. PICK s \in Edits(h, tx[h].working) : Inside(h, [tx[h] EXCEPT !.working = s])
        BY <3>2 DEF TxEdit
      <4>2. tx[h].working \in States
        BY DEF HandleRecords
      <4>3. s \in States
        BY <4>2, EditsType
      <4>4. [tx[h] EXCEPT !.working = s] \in HandleRecords
        BY <4>3 DEF HandleRecords
      <4> QED
        BY <3>2, <4>1, <4>4, <2>2 DEF TxEdit
    <3>3. CASE Commit(h)
      <4>1. [tx[h] EXCEPT !.status = "committing"] \in HandleRecords
        BY DEF HandleRecords, HandleStatus
      <4>2. [kind |-> "commit", caller |-> h] \in Tasks
        BY DEF Tasks
      <4>3. queue' \in Seq(Tasks)
        BY <3>3, <4>2 DEF Commit, Enqueue
      <4> QED
        BY <3>3, <4>1, <4>3, <2>2 DEF Commit
    <3>4. CASE Rollback(h)
      <4>1. CloseHandle("rolledBack") \in HandleRecords
        BY CloseHandleType DEF HandleStatus
      <4> QED
        BY <3>4, <4>1, <2>2 DEF Rollback
    <3> QED
      BY <2>3, <3>1, <3>2, <3>3, <3>4
  <2>4. ASSUME NEW h \in Handles, NEW p \in Savepoints,
               CreateSavepoint(h, p) \/ DropSavepoint(h, p) \/ RollbackToSavepoint(h, p)
        PROVE  TypeOK'
    <3>1. /\ SetSavepoint(tx[h], p) \in HandleRecords
          /\ ReleaseSavepoint(tx[h], p) \in HandleRecords
          /\ tx[h].savepoints[p] # NoSavepoint => RestoreSavepoint(tx[h], p) \in HandleRecords
      BY HandleOpsType, EmptyStateType DEF HandleStatus
    <3> QED
      BY <2>4, <3>1, <2>2 DEF CreateSavepoint, DropSavepoint, RollbackToSavepoint
  <2>5. ASSUME StartTask PROVE TypeOK'
    <3> DEFINE t == Head(queue)
    <3>1. t \in Tasks /\ queue' \in Seq(Tasks)
      BY <2>5 DEF StartTask
    <3>2. Apply(t) \in States
      BY <3>1, ApplyType
    <3>3. state' \in States /\ foreign' \in [Handles -> SUBSET Tables]
      BY <2>5, <3>2, PublishType DEF StartTask
    <3>4. running' \in Writes
      BY <2>5, <3>1, <3>2 DEF StartTask, Writes
    <3>5. tx' \in [Handles -> HandleRecords]
      BY <2>5, CloseHandleType DEF StartTask, HandleStatus
    <3> QED
      BY <2>5, <3>1, <3>3, <3>4, <3>5 DEF StartTask
  <2>6. ASSUME FinishTask \/ FailTask PROVE TypeOK'
    <3>1. disk' \in Contents
      BY <2>6, ReadableType DEF FinishTask, FailTask, Left, Writes, Contents
    <3>2. acked' \in Contents
      BY <2>6 DEF FinishTask, FailTask, Writes, Contents
    <3>3. /\ faults' \in [FaultKinds -> Nat]
          /\ \A j \in FaultKinds : faults'[j] <= MaxFaults[j]
      BY <2>6, FaultType DEF FinishTask, FailTask, FaultKinds
    <3> QED
      BY <2>6, <3>1, <3>2, <3>3 DEF FinishTask, FailTask
  <2>7. ASSUME InitRead PROVE TypeOK'
    <3>1. booting' \in Boots
      BY <2>7, ReadableType DEF InitRead, Boots
    <3>2. /\ faults' \in [FaultKinds -> Nat]
          /\ \A j \in FaultKinds : faults'[j] <= MaxFaults[j]
      BY <2>7, FaultType DEF InitRead, FaultKinds
    <3> QED
      BY <2>7, <3>1, <3>2 DEF InitRead
  <2>8. ASSUME InitParsed \/ InitRecover PROVE TypeOK'
    <3>1. booting.at = "read" => booting.content \in Contents
      BY DEF Boots
    <3>2. PICK s \in States : Publish(s)
      BY <2>8, <3>1, EmptyStateType DEF InitParsed, InitRecover, Contents
    <3>3. state' \in States /\ foreign' \in [Handles -> SUBSET Tables]
      BY <3>2, PublishType
    <3> QED
      <4>1. booting' \in Boots
        BY <2>8, BootsType DEF InitParsed, InitRecover
      <4>2. acked' \in Contents
        BY <2>8, <3>1 DEF InitParsed, InitRecover
      <4> QED
        BY <2>8, <3>3, <4>1, <4>2 DEF InitParsed, InitRecover
  <2>9. ASSUME InitPersisted \/ InitFailed PROVE TypeOK'
    <3>1. disk' \in Contents /\ acked' \in Contents
      BY <2>9, ReadableType, EmptyStateType DEF InitPersisted, InitFailed, Left, Contents
    <3>2. /\ faults' \in [FaultKinds -> Nat]
          /\ \A j \in FaultKinds : faults'[j] <= MaxFaults[j]
      BY <2>9, FaultType DEF InitPersisted, InitFailed, FaultKinds
    <3> QED
      BY <2>9, <3>1, <3>2, BootsType DEF InitPersisted, InitFailed
  <2>10. ASSUME Crash PROVE TypeOK'
    <3>1. disk' \in Contents
      BY <2>10, ReadableType DEF Crash
    <3>2. tx' \in [Handles -> HandleRecords]
      BY <2>10, CloseHandleType DEF Crash, HandleStatus
    <3>3. /\ faults' \in [FaultKinds -> Nat]
          /\ \A j \in FaultKinds : faults'[j] <= MaxFaults[j]
      BY <2>10, FaultType DEF Crash, FaultKinds
    <3>4. <<>> \in Seq(Tasks)
      OBVIOUS
    <3> QED
      BY <2>10, <3>1, <3>2, <3>3, <3>4, EmptyStateType, BootsType DEF Crash
  <2>11. CASE UNCHANGED vars
    BY <2>11 DEF vars, history
  <2> QED
    BY <2>1, <2>3, <2>4, <2>5, <2>6, <2>7, <2>8, <2>9, <2>10, <2>11 DEF Next
<1> QED
  BY <1>1, <1>2, PTL DEF Spec

-----------------------------------------------------------------------------
(* The inductive invariant of QuiescentDurable.                            *)

\* Some ensureTable or updateSchema call has not reached the state yet.
SchemaQueued == \E t \in Queued : t.kind = "schema"

\* Before init() is over nothing else runs, and what it read is still there.
DownInv ==
    ~up => /\ running = NoTask
           /\ queue = <<>>
           /\ ~overlap
           /\ booting.at = "read" => booting.content = disk
           /\ booting.at = "recovering" => state = EmptyState
           /\ ~suspect /\ booting.at # "recovering" => acked = disk

\* While nothing is suspect, whoever writes the file writes the state.  The
\* state may be ahead of it only by the rows that ensureTable created and
\* whose schema task is still queued.
FileInv ==
    up /\ ~suspect =>
        /\ ~overlap
        /\ running # NoTask => booting = NoBoot /\ (running.image = state \/ SchemaQueued)
        /\ running = NoTask /\ booting.at # "recovering" =>
              acked = disk
        /\ running = NoTask /\ booting = NoBoot => disk = state \/ SchemaQueued
        /\ booting.at = "read" => booting.content = disk
        /\ booting.at = "recovering" => state = EmptyState \/ SchemaQueued

-----------------------------------------------------------------------------
(* Lemmas for the steps of the invariant.                                  *)

\* A task that is appended leaves the schema tasks of the queue in place.
LEMMA SchemaQueuedAppend ==
  ASSUME TypeOK, NEW t \in Tasks, queue' = Append(queue, t)
  PROVE  /\ SchemaQueued => SchemaQueued'
         /\ t.kind = "schema" => SchemaQueued'
<1>1. /\ Len(queue') = Len(queue) + 1
      /\ Len(queue) \in Nat
      /\ \A i \in 1..Len(queue) : queue'[i] = queue[i]
      /\ queue'[Len(queue) + 1] = t
  BY DEF TypeOK
<1>2. Queued \cup {t} \subseteq Queued'
  BY <1>1 DEF Queued
<1> QED
  BY <1>2 DEF SchemaQueued

\* What SchemaQueued says depends on the queue alone.
LEMMA SchemaQueuedSame ==
  ASSUME queue' = queue PROVE SchemaQueued' <=> SchemaQueued
  BY DEF SchemaQueued, Queued

\* With no write under way the file shows its content and nothing else.
LEMMA ReadableQuiet ==
  ASSUME running = NoTask, booting.at # "recovering" PROVE Readable = {disk}
  BY DEF Readable

\* A call or a step inside a transaction keeps both invariants.
LEMMA CallerStepInv ==
  ASSUME TypeOK, DownInv, FileInv, up,
         UNCHANGED <<disk, running, booting, overlap, up, acked, suspect>>,
         NEW t \in Tasks, queue' \in {queue, Append(queue, t)},
         state' = state \/ (queue' = Append(queue, t) /\ t.kind = "schema")
  PROVE  DownInv' /\ FileInv'
<1>1. SchemaQueued => SchemaQueued'
  BY SchemaQueuedAppend, SchemaQueuedSame
<1>2. state' = state \/ SchemaQueued'
  BY SchemaQueuedAppend
<1> QED
  BY <1>1, <1>2 DEF DownInv, FileInv

\* A step of the chain or of init, or a crash, keeps both invariants.
LEMMA DriverStepInv ==
  ASSUME TypeOK, DownInv, FileInv,
         \/ StartTask \/ FinishTask \/ FailTask
         \/ InitRead \/ InitParsed \/ InitRecover \/ InitPersisted \/ InitFailed
         \/ Crash
  PROVE  DownInv' /\ FileInv'
<1> USE DEF DownInv, FileInv
<1>n. NoBoot.at = "idle" /\ [at |-> "recovering"].at = "recovering"
  BY DEF NoBoot
<1>b. booting.at \in {"idle", "read", "recovering"} /\ (booting.at = "idle" => booting = NoBoot)
  BY DEF TypeOK, Boots, NoBoot
<1>1. CASE StartTask
  <2>1. up /\ up'
    BY <1>1 DEF StartTask
  <2>2. running'.image = state'
    BY <1>1 DEF StartTask, Publish
  <2>3. ~suspect' => booting' = NoBoot
    BY <1>1 DEF StartTask
  <2>4. ~suspect' => ~overlap'
    BY <1>1, <1>n DEF StartTask
  <2>5. running' # NoTask
    <3>1. Head(queue) \in Tasks
      BY <1>1 DEF StartTask, TypeOK
    <3>2. running' \in Writes
      BY <1>1, <3>1, ApplyType DEF StartTask, Writes
    <3> QED
      BY <3>2, NoTaskAssumption
  <2> QED
    BY <2>1, <2>2, <2>3, <2>4, <2>5, <1>n
<1>2. CASE FinishTask
  <2>1. up /\ up' /\ running # NoTask /\ running' = NoTask
    BY <1>2 DEF FinishTask
  <2>2. SchemaQueued' <=> SchemaQueued
    BY <1>2, SchemaQueuedSame DEF FinishTask
  <2>3. ASSUME ~suspect'
        PROVE  disk' = running.image /\ acked' = running.image /\ ~overlap' /\ booting' = NoBoot
    BY <1>2, <2>1, <2>3 DEF FinishTask, Left
  <2> QED
    BY <1>2, <1>n, <2>1, <2>2, <2>3 DEF FinishTask
<1>3. CASE FailTask
  BY <1>3 DEF FailTask
<1>4. CASE InitRead
  <2>1. SchemaQueued' <=> SchemaQueued
    BY <1>4, SchemaQueuedSame DEF InitRead
  <2>2. running = NoTask => booting'.at = "read" /\ booting'.content = disk
    BY <1>4, <1>n, ReadableQuiet DEF InitRead
  <2>3. ~suspect' => running = NoTask
    BY <1>4 DEF InitRead
  <2> QED
    BY <1>4, <1>n, <2>1, <2>2, <2>3 DEF InitRead
<1>5. CASE InitParsed
  <2>1. SchemaQueued' <=> SchemaQueued
    BY <1>5, SchemaQueuedSame DEF InitParsed
  <2>2. state' = booting.content /\ up' /\ booting' = NoBoot
    BY <1>5 DEF InitParsed, Publish
  <2>3. ~suspect' => running = NoTask /\ booting.content = disk /\ ~overlap
    BY <1>5 DEF InitParsed
  <2> QED
    BY <1>5, <1>n, <2>1, <2>2, <2>3 DEF InitParsed
<1>6. CASE InitRecover
  <2>1. SchemaQueued' <=> SchemaQueued
    BY <1>6, SchemaQueuedSame DEF InitRecover
  <2>2. state' = EmptyState
    BY <1>6 DEF InitRecover, Publish
  <2> QED
    BY <1>6, <1>n, <2>1, <2>2 DEF InitRecover
<1>7. CASE InitPersisted
  <2>1. SchemaQueued' <=> SchemaQueued
    BY <1>7, SchemaQueuedSame DEF InitPersisted
  <2>2. ~suspect' => running = NoTask /\ ~overlap /\ (state = EmptyState \/ SchemaQueued)
    BY <1>7 DEF InitPersisted
  <2>3. ~overlap => disk' = EmptyState
    BY <1>7 DEF InitPersisted, Left
  <2> QED
    BY <1>7, <1>n, <2>1, <2>2, <2>3 DEF InitPersisted
<1>8. CASE InitFailed
  BY <1>8, <1>n DEF InitFailed
<1>9. CASE Crash
  BY <1>9, <1>n, ReadableQuiet DEF Crash
<1> QED
  BY <1>1, <1>2, <1>3, <1>4, <1>5, <1>6, <1>7, <1>8, <1>9

-----------------------------------------------------------------------------
\* The two invariants hold throughout: the promise chain serialises every
\* write of the file but init's, and a task writes the state it has left.
LEMMA FileInvariant == Spec => [](DownInv /\ FileInv)
<1>1. Init => DownInv /\ FileInv
  BY DEF Init, DownInv, FileInv, NoBoot
<1>2. TypeOK /\ (DownInv /\ FileInv) /\ [Next]_vars => (DownInv /\ FileInv)'
  <2> SUFFICES ASSUME TypeOK, DownInv, FileInv, [Next]_vars PROVE DownInv' /\ FileInv'
    OBVIOUS
  <2>1. ASSUME NEW c \in Clients, NEW n \in Tables,
               WriteTable(c, n) \/ UpdateSchema(c, n) \/ DropTable(c, n) \/ EnsureTable(c, n)
        PROVE  DownInv' /\ FileInv'
    <3>1. PICK kind \in {"write", "schema", "drop"} :
              Call(kind, c, n) /\ (state' = state \/ kind = "schema")
      BY <2>1 DEF WriteTable, UpdateSchema, DropTable, EnsureTable
    <3>2. [kind |-> kind, caller |-> c, table |-> n] \in Tasks
      BY DEF Tasks
    <3> QED
      BY <3>1, <3>2, CallerStepInv DEF Call, Enqueue
  <2>2. ASSUME NEW h \in Handles, NEW r, Inside(h, r), NEW t \in Tasks,
               queue' \in {queue, Append(queue, t)}
        PROVE  DownInv' /\ FileInv'
    BY <2>2, CallerStepInv DEF Inside, history
  <2>3. ASSUME NEW h \in Handles, BeginTransaction(h) \/ TxEdit(h) \/ Commit(h) \/ Rollback(h)
        PROVE  DownInv' /\ FileInv'
    <3>1. [kind |-> "commit", caller |-> h] \in Tasks
      BY DEF Tasks
    <3> QED
      BY <2>2, <2>3, <3>1 DEF BeginTransaction, TxEdit, Commit, Rollback, Enqueue
  <2>4. ASSUME NEW h \in Handles, NEW p \in Savepoints,
               CreateSavepoint(h, p) \/ DropSavepoint(h, p) \/ RollbackToSavepoint(h, p)
        PROVE  DownInv' /\ FileInv'
    <3>1. [kind |-> "commit", caller |-> h] \in Tasks
      BY DEF Tasks
    <3> QED
      BY <2>2, <2>4, <3>1 DEF CreateSavepoint, DropSavepoint, RollbackToSavepoint
  <2>5. ASSUME \/ StartTask \/ FinishTask \/ FailTask
               \/ InitRead \/ InitParsed \/ InitRecover \/ InitPersisted \/ InitFailed
               \/ Crash
        PROVE  DownInv' /\ FileInv'
    BY <2>5, DriverStepInv
  <2>6. CASE UNCHANGED vars
    BY <2>6, SchemaQueuedSame DEF vars, history, DownInv, FileInv
  <2> QED
    BY <2>1, <2>3, <2>4, <2>5, <2>6 DEF Next
<1> QED
  BY <1>1, <1>2, JsonDriverTypeOK, PTL DEF Spec

\* When the driver is at rest the file holds exactly what it serves, and that
\* was acknowledged, unless a write has failed or init ran beside one.
THEOREM JsonDriverQuiescentDurable == Spec => []QuiescentDurable
<1>1. DownInv /\ FileInv => QuiescentDurable
  <2>1. queue = <<>> => ~SchemaQueued
    BY DEF SchemaQueued, Queued
  <2> QED
    BY <2>1 DEF FileInv, QuiescentDurable, NoBoot
<1> QED
  BY <1>1, FileInvariant, PTL

\* init() on a driver where nothing failed, at a restart or later, serves the
\* last acknowledged state again, and an empty one only if there was none.
THEOREM JsonDriverInitRestores == Spec => InitRestores
<1>1. TypeOK /\ DownInv /\ FileInv
        => [(InitParsed \/ InitRecover) /\ ~suspect /\ running = NoTask
              => state' = IF acked = Unreadable THEN EmptyState ELSE acked]_vars
  <2> SUFFICES ASSUME TypeOK, DownInv, FileInv, ~suspect, running = NoTask,
                      InitParsed \/ InitRecover
               PROVE  state' = IF acked = Unreadable THEN EmptyState ELSE acked
    OBVIOUS
  <2>1. booting.content = disk /\ acked = disk
    BY DEF InitParsed, InitRecover, DownInv, FileInv
  <2> QED
    BY <2>1 DEF InitParsed, InitRecover, Publish
<1> QED
  BY <1>1, FileInvariant, JsonDriverTypeOK, PTL DEF InitRestores

-----------------------------------------------------------------------------
(* NoDirtyData.                                                            *)

\* A content of the file without rows of h.
CleanContent(content, h) == content # Unreadable => Without(content, h)

\* What NoDirtyData says of one transaction, with the file, the write under
\* way and what init has read named one by one.
Contained(h) ==
    /\ Without(state, h)
    /\ CleanContent(disk, h)
    /\ running # NoTask => Without(running.image, h)
    /\ booting.at = "read" => CleanContent(booting.content, h)
    /\ \A g \in Handles \ {h} :
          /\ Without(tx[g].working, h)
          /\ \A p \in Savepoints :
                 tx[g].savepoints[p] # NoSavepoint => Without(tx[g].savepoints[p], h)

\* Whatever a reader of the file may find is clean.
LEMMA ReadableClean ==
  ASSUME TypeOK, NEW h \in Handles, Contained(h), NEW content \in Readable
  PROVE  CleanContent(content, h)
<1>1. Without(EmptyState, h)
  BY EmptyStateWithout DEF Writers
<1> QED
  BY <1>1 DEF Contained, CleanContent, Readable

\* NoDirtyData follows from Contained for every transaction not committed.
LEMMA ContainedIsNoDirtyData ==
  ASSUME TypeOK, \A h \in Handles : tx[h].status # "committed" => Contained(h)
  PROVE  NoDirtyData
<1> SUFFICES ASSUME NEW h \in Handles, NEW n \in Tables, tx[h].status # "committed"
             PROVE  /\ state.tables[n] # h
                    /\ \A content \in Readable : ~Holds(content, n, h)
                    /\ booting.at = "read" => ~Holds(booting.content, n, h)
                    /\ \A g \in Handles \ {h} :
                          /\ tx[g].working.tables[n] # h
                          /\ \A p \in Savepoints : ~Holds(tx[g].savepoints[p], n, h)
  BY DEF NoDirtyData
<1>1. Contained(h)
  OBVIOUS
<1>2. \A content : CleanContent(content, h) => ~Holds(content, n, h)
  BY JsonDriverAssumption DEF CleanContent, Holds, Without
<1>3. \A content \in Readable : ~Holds(content, n, h)
  BY <1>1, <1>2, ReadableClean
<1>4. booting.at = "read" => ~Holds(booting.content, n, h)
  BY <1>1, <1>2 DEF Contained
<1>5. \A g \in Handles \ {h}, p \in Savepoints : ~Holds(tx[g].savepoints[p], n, h)
  BY <1>1, SavepointAssumption DEF Contained, Holds, Without
<1> QED
  BY <1>1, <1>3, <1>4, <1>5 DEF Contained, Without

\* A handle that has committed stays so, whatever fails (base.ts, json.ts).
LEMMA CommittedStays ==
  ASSUME TypeOK, [Next]_vars, NEW h \in Handles, tx'[h].status # "committed"
  PROVE  tx[h].status # "committed"
<1> USE DEF TypeOK
<1>1. CASE \E g \in Handles : BeginTransaction(g) \/ TxEdit(g) \/ Commit(g) \/ Rollback(g)
  BY <1>1 DEF BeginTransaction, TxEdit, Commit, Rollback, Inside
<1>2. CASE \E g \in Handles, p \in Savepoints :
              CreateSavepoint(g, p) \/ DropSavepoint(g, p) \/ RollbackToSavepoint(g, p)
  BY <1>2 DEF CreateSavepoint, DropSavepoint, RollbackToSavepoint, Inside
<1>3. CASE StartTask
  BY <1>3 DEF StartTask, CloseHandle, UnusedHandle
<1>4. CASE Crash
  BY <1>4 DEF Crash
<1>5. CASE tx' = tx
  BY <1>5
<1> QED
  BY <1>1, <1>2, <1>3, <1>4, <1>5
  DEF Next, vars, WriteTable, UpdateSchema, DropTable, EnsureTable, Call, FinishTask,
      FailTask, InitRead, InitParsed, InitRecover, InitPersisted, InitFailed

\* A step inside the closure of one transaction.
LEMMA InsideContained ==
  ASSUME TypeOK, NEW h \in Handles, Contained(h), NEW g \in Handles, NEW r, Inside(g, r),
         g # h => /\ Without(r.working, h)
                  /\ \A p \in Savepoints :
                         r.savepoints[p] # NoSavepoint => Without(r.savepoints[p], h)
  PROVE  Contained(h)'
<1>1. tx' = [tx EXCEPT ![g] = r] /\ UNCHANGED <<state, disk, running, booting>>
  BY DEF Inside
<1>2. \A f \in Handles : tx'[f] = IF f = g THEN r ELSE tx[f]
  BY <1>1 DEF TypeOK
<1> QED
  BY <1>1, <1>2 DEF Contained, Without, CleanContent

\* Closing a handle leaves nothing in it.
LEMMA ClosedClean ==
  ASSUME NEW h \in Handles, NEW status
  PROVE  /\ Without(CloseHandle(status).working, h)
         /\ \A p \in Savepoints : CloseHandle(status).savepoints[p] = NoSavepoint
<1>1. Without(EmptyState, h)
  BY EmptyStateWithout DEF Writers
<1> QED
  BY <1>1 DEF CloseHandle, UnusedHandle, NoSavepoints

\* The rows of a transaction that does not commit in this step stay contained.
LEMMA ContainedStep ==
  ASSUME TypeOK, [Next]_vars, NEW h \in Handles, Contained(h),
         tx'[h].status # "committed"
  PROVE  Contained(h)'
<1> USE DEF TypeOK
<1>h. h \in Writers
  BY DEF Writers
<1>e. Without(EmptyState, h) /\ Empty \in Rows
  BY <1>h, EmptyStateWithout DEF Rows
<1>s. \A g \in Handles : tx[g].working \in States
  BY DEF HandleRecords
<1>b. NoBoot.at = "idle" /\ [at |-> "recovering"].at = "recovering"
  BY DEF NoBoot
<1>1. ASSUME NEW c \in Clients, NEW n \in Tables,
             WriteTable(c, n) \/ UpdateSchema(c, n) \/ DropTable(c, n) \/ EnsureTable(c, n)
      PROVE  Contained(h)'
  <2>1. Without(CreateRows(state, n), h)
    BY <1>h, <1>e, StateOpsWithout DEF Contained
  <2>2. Without(state', h)
    BY <1>1, <2>1 DEF WriteTable, UpdateSchema, DropTable, EnsureTable, Publish, Contained, Without
  <2>3. UNCHANGED <<tx, disk, running, booting>>
    BY <1>1 DEF WriteTable, UpdateSchema, DropTable, EnsureTable, Call
  <2> QED
    BY <2>2, <2>3 DEF Contained, Without, CleanContent
<1>2. ASSUME NEW g \in Handles, BeginTransaction(g) \/ TxEdit(g) \/ Commit(g) \/ Rollback(g)
      PROVE  Contained(h)'
  <2>1. CASE BeginTransaction(g)
    <3>1. Inside(g, OpenHandle(state))
      BY <2>1 DEF BeginTransaction
    <3>2. /\ Without(OpenHandle(state).working, h)
          /\ \A p \in Savepoints : OpenHandle(state).savepoints[p] = NoSavepoint
      BY DEF OpenHandle, NoSavepoints, Contained
    <3> QED
      BY <3>1, <3>2, InsideContained
  <2>2. CASE TxEdit(g)
    <3>1. PICK s \in Edits(g, tx[g].working) : Inside(g, [tx[g] EXCEPT !.working = s])
      BY <2>2 DEF TxEdit
    <3>2. g # h => Without(s, h)
      BY <1>h, <1>s, <3>1, EditsWithout DEF Contained
    <3>3. /\ [tx[g] EXCEPT !.working = s].working = s
          /\ [tx[g] EXCEPT !.working = s].savepoints = tx[g].savepoints
      BY DEF HandleRecords
    <3> QED
      BY <3>1, <3>2, <3>3, InsideContained DEF Contained
  <2>3. CASE Commit(g)
    <3>1. Inside(g, [tx[g] EXCEPT !.status = "committing"])
      BY <2>3 DEF Commit
    <3>2. /\ [tx[g] EXCEPT !.status = "committing"].working = tx[g].working
          /\ [tx[g] EXCEPT !.status = "committing"].savepoints = tx[g].savepoints
      BY DEF HandleRecords
    <3> QED
      BY <3>1, <3>2, InsideContained DEF Contained
  <2>4. CASE Rollback(g)
    BY <2>4, ClosedClean, InsideContained DEF Rollback
  <2> QED
    BY <1>2, <2>1, <2>2, <2>3, <2>4
<1>3. ASSUME NEW g \in Handles, NEW q \in Savepoints,
             CreateSavepoint(g, q) \/ DropSavepoint(g, q) \/ RollbackToSavepoint(g, q)
      PROVE  Contained(h)'
  <2>1. PICK r : /\ Inside(g, r)
                 /\ \/ r = SetSavepoint(tx[g], q)
                    \/ r = ReleaseSavepoint(tx[g], q)
                    \/ tx[g].savepoints[q] # NoSavepoint /\ r = RestoreSavepoint(tx[g], q)
    BY <1>3 DEF CreateSavepoint, DropSavepoint, RollbackToSavepoint
  <2>2. /\ \/ r.working = tx[g].working
           \/ tx[g].savepoints[q] # NoSavepoint /\ r.working = tx[g].savepoints[q]
        /\ \A p \in Savepoints :
              r.savepoints[p] \in {tx[g].savepoints[p], tx[g].working, NoSavepoint}
    BY <2>1 DEF SetSavepoint, ReleaseSavepoint, RestoreSavepoint, HandleRecords
  <2> QED
    BY <2>1, <2>2, InsideContained DEF Contained
<1>4. CASE StartTask
  <2> DEFINE t == Head(queue)
  <2>1. t \in Tasks
    BY <1>4 DEF StartTask
  <2>2. ~(t.kind = "commit" /\ t.caller = h)
    BY <1>4 DEF StartTask, CloseHandle, UnusedHandle
  <2>3. Without(Apply(t), h)
    <3>1. CASE t.kind = "write"
      <4>1. t.caller \in Rows /\ t.caller # h /\ t.table \in Tables
        BY <2>1, <3>1, TaskFields, WritersAssumption DEF Rows, Writers
      <4> QED
        BY <1>h, <3>1, <4>1, StateOpsWithout DEF Apply, Contained
    <3>2. CASE t.kind \in {"schema", "drop"}
      <4>1. t.table \in Tables
        BY <2>1, <3>2, TaskFields
      <4> QED
        BY <1>h, <1>e, <3>2, <4>1, StateOpsWithout DEF Apply, Contained
    <3>3. CASE t.kind = "commit"
      BY <2>1, <2>2, <3>3, TaskFields DEF Apply, Contained
    <3> QED
      BY <2>1, <3>1, <3>2, <3>3, TaskFields
  <2>4. state' = Apply(t) /\ running'.image = Apply(t) /\ UNCHANGED <<disk, booting>>
    BY <1>4 DEF StartTask, Publish
  <2>5. \A g \in Handles : tx'[g] = tx[g] \/ tx'[g] = CloseHandle("committed")
    BY <1>4 DEF StartTask
  <2>6. /\ Without(state', h)
        /\ Without(running'.image, h)
    BY <2>3, <2>4 DEF Without
  <2> QED
    BY <2>4, <2>5, <2>6, ClosedClean DEF Contained, CleanContent, Without
<1>5. CASE FinishTask \/ FailTask
  <2>1. CleanContent(disk', h)
    BY <1>5, ReadableClean DEF FinishTask, FailTask, Left, Contained, CleanContent
  <2>2. running' = NoTask /\ UNCHANGED <<state, tx, booting>>
    BY <1>5 DEF FinishTask, FailTask
  <2> QED
    BY <2>1, <2>2 DEF Contained, CleanContent, Without
<1>6. CASE InitRead
  <2>1. /\ CleanContent(booting'.content, h)
        /\ UNCHANGED <<state, tx, disk, running>>
    BY <1>6, ReadableClean DEF InitRead
  <2> QED
    BY <2>1 DEF Contained, CleanContent, Without
<1>7. CASE InitParsed \/ InitRecover
  <2>1. Without(state', h)
    BY <1>7, <1>e DEF InitParsed, InitRecover, Publish, Contained, CleanContent, Without
  <2>2. booting'.at # "read" /\ UNCHANGED <<tx, disk, running>>
    BY <1>7, <1>b DEF InitParsed, InitRecover
  <2> QED
    BY <2>1, <2>2 DEF Contained, CleanContent, Without
<1>8. CASE InitPersisted \/ InitFailed
  <2>1. CleanContent(disk', h)
    BY <1>8, <1>e, ReadableClean DEF InitPersisted, InitFailed, Left, CleanContent
  <2>2. booting'.at # "read" /\ UNCHANGED <<state, tx, running>>
    BY <1>8, <1>b DEF InitPersisted, InitFailed
  <2> QED
    BY <2>1, <2>2 DEF Contained, CleanContent, Without
<1>9. CASE Crash
  <2>1. CleanContent(disk', h)
    BY <1>9, ReadableClean DEF Crash
  <2>2. state' = EmptyState /\ running' = NoTask /\ booting'.at # "read"
    BY <1>9, <1>b DEF Crash
  <2>3. \A g \in Handles : tx'[g] = tx[g] \/ tx'[g] = CloseHandle("rolledBack")
    BY <1>9 DEF Crash
  <2> QED
    BY <1>e, <2>1, <2>2, <2>3, ClosedClean DEF Contained, CleanContent, Without
<1>10. CASE UNCHANGED vars
  BY <1>10 DEF vars, Contained, CleanContent, Without
<1> QED
  BY <1>1, <1>2, <1>3, <1>4, <1>5, <1>6, <1>7, <1>8, <1>9, <1>10 DEF Next

\* Rows of a transaction whose commit task has not run are in no state that
\* is served, no content of the file, no image under way, and no other
\* transaction, through every crash, failed write and init (json.ts, base.ts).
THEOREM JsonDriverNoDirtyData == Spec => []NoDirtyData
<1> DEFINE Inv == \A h \in Handles : tx[h].status # "committed" => Contained(h)
<1>1. Init => Inv
  <2> SUFFICES ASSUME Init, NEW h \in Handles PROVE Contained(h)
    OBVIOUS
  <2>1. Without(EmptyState, h)
    BY EmptyStateWithout DEF Writers
  <2> QED
    BY <2>1 DEF Init, Contained, CleanContent, UnusedHandle, NoSavepoints, NoBoot
<1>2. TypeOK /\ Inv /\ [Next]_vars => Inv'
  <2> SUFFICES ASSUME TypeOK, Inv, [Next]_vars, NEW h \in Handles,
                      tx'[h].status # "committed"
               PROVE  Contained(h)'
    OBVIOUS
  <2> QED
    BY CommittedStays, ContainedStep
<1>3. TypeOK /\ Inv => NoDirtyData
  BY ContainedIsNoDirtyData
<1> QED
  <2> HIDE DEF Inv
  <2> QED
    BY <1>1, <1>2, <1>3, JsonDriverTypeOK, PTL DEF Spec

-----------------------------------------------------------------------------
(* CommitConfined.                                                         *)

InProgress(h) == tx[h].status \in {"active", "committing"}

\* A table of a copy of h is as the state has it, or an edit of h, or another
\* party has changed the state since the copy was taken.
Explained(h, copy, n) ==
    copy.tables[n] \in {h, Empty, NoTable, state.tables[n]} \/ n \in foreign[h]

\* All that a transaction in progress keeps is explained, its savepoints too:
\* it may go back to any of them before it commits.
Confined(h) ==
    InProgress(h) =>
        \A n \in Tables :
            /\ Explained(h, tx[h].working, n)
            /\ \A p \in Savepoints :
                   tx[h].savepoints[p] # NoSavepoint => Explained(h, tx[h].savepoints[p], n)

\* A state that another party publishes is accounted for in foreign.
LEMMA PublishConfined ==
  ASSUME TypeOK, NEW h \in Handles, Confined(h), NEW s, Publish(s), tx'[h] = tx[h]
  PROVE  Confined(h)'
<1>1. ASSUME InProgress(h), NEW n \in Tables, NEW copy, Explained(h, copy, n)
      PROVE  copy.tables[n] \in {h, Empty, NoTable, state'.tables[n]} \/ n \in foreign'[h]
  <2>1. state' = s /\ foreign'[h] = foreign[h] \cup Changed(state, s)
    BY <1>1 DEF Publish, InProgress
  <2>2. s.tables[n] = state.tables[n] \/ n \in Changed(state, s)
    BY DEF Changed
  <2> QED
    BY <1>1, <2>1, <2>2 DEF Explained
<1> QED
  BY <1>1 DEF Confined, Explained, InProgress

\* A step inside the closure of a transaction that leaves its copies explained.
LEMMA InsideConfined ==
  ASSUME TypeOK, NEW h \in Handles, Confined(h), NEW g \in Handles, NEW r, Inside(g, r),
         g = h => \A n \in Tables :
                     /\ Explained(h, r.working, n)
                     /\ \A p \in Savepoints :
                            r.savepoints[p] # NoSavepoint => Explained(h, r.savepoints[p], n)
  PROVE  Confined(h)'
<1>1. \A f \in Handles : tx'[f] = IF f = g THEN r ELSE tx[f]
  BY DEF TypeOK, Inside
<1>2. UNCHANGED <<state, foreign>>
  BY DEF Inside, history
<1> QED
  BY <1>1, <1>2 DEF Confined, Explained, InProgress

\* An edit puts rows of the transaction, an empty table or none into its copy.
LEMMA EditsExplained ==
  ASSUME NEW h \in Handles, NEW s \in States, NEW t \in Edits(h, s), NEW n \in Tables
  PROVE  t.tables[n] \in {h, Empty, NoTable, s.tables[n]}
<1>1. PICK m \in Tables : t \in {WriteRows(s, m, h), PutSchema(CreateRows(s, m), m),
                                PutSchema(s, m), Drop(s, m)}
  BY DEF Edits
<1>2. WriteRows(s, m, h).tables[n] \in {h, s.tables[n]}
  BY DEF WriteRows, States
<1>3. PutSchema(s, m).tables = s.tables /\ Drop(s, m).tables[n] \in {NoTable, s.tables[n]}
  BY DEF PutSchema, Drop, States
<1>4. PutSchema(CreateRows(s, m), m).tables[n] \in {Empty, s.tables[n]}
  <2>1. CreateRows(s, m) \in States
    BY StateOpsType DEF Rows
  <2>2. PutSchema(CreateRows(s, m), m).tables = CreateRows(s, m).tables
    BY <2>1 DEF PutSchema, States
  <2>3. CreateRows(s, m).tables[n] \in {Empty, s.tables[n]}
    BY DEF CreateRows, States
  <2> QED
    BY <2>2, <2>3
<1> QED
  BY <1>1, <1>2, <1>3, <1>4

\* Every step leaves what a transaction in progress keeps explained.
LEMMA ConfinedStep ==
  ASSUME TypeOK, [Next]_vars, NEW h \in Handles, Confined(h)
  PROVE  Confined(h)'
<1> USE DEF TypeOK
<1>1. ASSUME NEW c \in Clients, NEW n \in Tables,
             WriteTable(c, n) \/ UpdateSchema(c, n) \/ DropTable(c, n) \/ EnsureTable(c, n)
      PROVE  Confined(h)'
  <2>1. tx' = tx
    BY <1>1 DEF WriteTable, UpdateSchema, DropTable, EnsureTable, Call
  <2>2. CASE UNCHANGED <<state, foreign>>
    BY <2>1, <2>2 DEF Confined, Explained, InProgress
  <2>3. CASE EnsureTable(c, n)
    BY <2>1, <2>3, PublishConfined DEF EnsureTable
  <2> QED
    BY <1>1, <2>2, <2>3 DEF WriteTable, UpdateSchema, DropTable
<1>2. ASSUME NEW g \in Handles, BeginTransaction(g) \/ TxEdit(g) \/ Commit(g) \/ Rollback(g)
      PROVE  Confined(h)'
  <2>1. CASE BeginTransaction(g)
    <3>1. /\ OpenHandle(state).working = state
          /\ \A p \in Savepoints : OpenHandle(state).savepoints[p] = NoSavepoint
      BY DEF OpenHandle, NoSavepoints
    <3> QED
      BY <2>1, <3>1, InsideConfined DEF BeginTransaction, Explained
  <2>2. CASE TxEdit(g)
    <3>1. PICK s \in Edits(g, tx[g].working) : Inside(g, [tx[g] EXCEPT !.working = s])
      BY <2>2 DEF TxEdit
    <3>2. tx[g].working \in States /\ tx[g].status = "active"
      BY <2>2 DEF HandleRecords, TxEdit
    <3>3. /\ [tx[g] EXCEPT !.working = s].working = s
          /\ [tx[g] EXCEPT !.working = s].savepoints = tx[g].savepoints
      BY DEF HandleRecords
    <3>4. ASSUME g = h, NEW n \in Tables PROVE Explained(h, s, n)
      <4>1. s.tables[n] \in {h, Empty, NoTable, tx[h].working.tables[n]}
        BY <3>1, <3>2, <3>4, EditsExplained
      <4> QED
        BY <3>2, <3>4, <4>1 DEF Confined, Explained, InProgress
    <3> QED
      BY <3>1, <3>2, <3>3, <3>4, InsideConfined DEF Confined, InProgress
  <2>3. CASE Commit(g)
    <3>1. /\ [tx[g] EXCEPT !.status = "committing"].working = tx[g].working
          /\ [tx[g] EXCEPT !.status = "committing"].savepoints = tx[g].savepoints
      BY DEF HandleRecords
    <3> QED
      BY <2>3, <3>1, InsideConfined DEF Commit, Confined, InProgress
  <2>4. CASE Rollback(g)
    <3>1. Inside(g, CloseHandle("rolledBack"))
      BY <2>4 DEF Rollback
    <3>2. \A f \in Handles : tx'[f] = IF f = g THEN CloseHandle("rolledBack") ELSE tx[f]
      BY <3>1 DEF Inside
    <3> QED
      BY <3>1, <3>2
      DEF Inside, history, Confined, Explained, InProgress, CloseHandle, UnusedHandle
  <2> QED
    BY <1>2, <2>1, <2>2, <2>3, <2>4
<1>3. ASSUME NEW g \in Handles, NEW q \in Savepoints,
             CreateSavepoint(g, q) \/ DropSavepoint(g, q) \/ RollbackToSavepoint(g, q)
      PROVE  Confined(h)'
  <2>1. PICK r : /\ Inside(g, r)
                 /\ \/ r = SetSavepoint(tx[g], q)
                    \/ r = ReleaseSavepoint(tx[g], q)
                    \/ tx[g].savepoints[q] # NoSavepoint /\ r = RestoreSavepoint(tx[g], q)
    BY <1>3 DEF CreateSavepoint, DropSavepoint, RollbackToSavepoint
  <2>2. /\ \/ r.working = tx[g].working
           \/ tx[g].savepoints[q] # NoSavepoint /\ r.working = tx[g].savepoints[q]
        /\ \A p \in Savepoints :
              r.savepoints[p] \in {tx[g].savepoints[p], tx[g].working, NoSavepoint}
    BY <2>1 DEF SetSavepoint, ReleaseSavepoint, RestoreSavepoint, HandleRecords
  <2>3. InProgress(g)
    BY <1>3 DEF CreateSavepoint, DropSavepoint, RollbackToSavepoint, InProgress
  <2> QED
    BY <2>1, <2>2, <2>3, InsideConfined DEF Confined
<1>4. CASE StartTask
  <2>1. PICK s : Publish(s)
    BY <1>4 DEF StartTask
  <2>2. tx'[h] = tx[h] \/ tx'[h].status = "committed"
    BY <1>4 DEF StartTask, CloseHandle, UnusedHandle
  <2> QED
    BY <2>1, <2>2, PublishConfined DEF Confined, InProgress
<1>5. CASE InitParsed \/ InitRecover
  <2>1. PICK s : Publish(s)
    BY <1>5 DEF InitParsed, InitRecover
  <2>2. tx' = tx
    BY <1>5 DEF InitParsed, InitRecover
  <2> QED
    BY <2>1, <2>2, PublishConfined
<1>6. CASE Crash
  <2>1. tx'[h].status \notin {"active", "committing"}
    BY <1>6 DEF Crash, CloseHandle, UnusedHandle
  <2> QED
    BY <2>1 DEF Confined, InProgress
<1>7. CASE FinishTask \/ FailTask \/ InitRead \/ InitPersisted \/ InitFailed
  BY <1>7
  DEF FinishTask, FailTask, InitRead, InitPersisted, InitFailed, Confined, Explained, InProgress
<1>8. CASE UNCHANGED vars
  BY <1>8 DEF vars, history, Confined, Explained, InProgress
<1> QED
  BY <1>1, <1>2, <1>3, <1>4, <1>5, <1>6, <1>7, <1>8 DEF Next

\* A transaction becomes committed only when its commit task starts, and the
\* state is its working copy then.
LEMMA CommitStep ==
  ASSUME TypeOK, [Next]_vars, NEW h \in Handles,
         tx[h].status = "committing", tx'[h].status = "committed"
  PROVE  state' = tx[h].working
<1> USE DEF TypeOK
<1>1. tx'[h] # tx[h]
  OBVIOUS
<1>2. CASE StartTask
  <2>1. Head(queue).kind = "commit" /\ Head(queue).caller = h
    BY <1>1, <1>2 DEF StartTask
  <2> QED
    BY <1>2, <2>1 DEF StartTask, Publish, Apply
<1>3. CASE Crash
  BY <1>3 DEF Crash, CloseHandle, UnusedHandle
<1>4. CASE \E g \in Handles : BeginTransaction(g) \/ TxEdit(g) \/ Commit(g) \/ Rollback(g)
  BY <1>1, <1>4 DEF BeginTransaction, TxEdit, Commit, Rollback, Inside
<1>5. CASE \E g \in Handles, p \in Savepoints :
              CreateSavepoint(g, p) \/ DropSavepoint(g, p) \/ RollbackToSavepoint(g, p)
  BY <1>1, <1>5 DEF CreateSavepoint, DropSavepoint, RollbackToSavepoint, Inside
<1> QED
  BY <1>1, <1>2, <1>3, <1>4, <1>5
  DEF Next, vars, WriteTable, UpdateSchema, DropTable, EnsureTable, Call, FinishTask,
      FailTask, InitRead, InitParsed, InitRecover, InitPersisted, InitFailed

\* A commit replaces the whole state (commitFn of json.ts), and yet changes no
\* table but those its transaction edited and those another party changed
\* after the snapshot.
THEOREM JsonDriverCommitConfined == Spec => CommitConfined
<1> DEFINE Inv == \A h \in Handles : Confined(h)
<1>1. Init => Inv
  BY DEF Init, Confined, InProgress, UnusedHandle
<1>2. TypeOK /\ Inv /\ [Next]_vars => Inv'
  BY ConfinedStep
<1>3. TypeOK /\ Inv /\ [Next]_vars
        => [\A h \in Handles, n \in Tables :
               tx[h].status = "committing" /\ tx'[h].status = "committed"
                   /\ state'.tables[n] # state.tables[n]
                   => state'.tables[n] \in {h, Empty, NoTable} \/ n \in foreign[h]]_vars
  <2> SUFFICES ASSUME TypeOK, Inv, [Next]_vars, NEW h \in Handles, NEW n \in Tables,
                      tx[h].status = "committing", tx'[h].status = "committed",
                      state'.tables[n] # state.tables[n]
               PROVE  state'.tables[n] \in {h, Empty, NoTable} \/ n \in foreign[h]
    OBVIOUS
  <2>1. state' = tx[h].working
    BY CommitStep
  <2>2. Explained(h, tx[h].working, n)
    BY DEF Confined, InProgress
  <2> QED
    BY <2>1, <2>2 DEF Explained
<1> QED
  <2> HIDE DEF Inv
  <2> QED
    BY <1>1, <1>2, <1>3, JsonDriverTypeOK, PTL DEF Spec, CommitConfined

-----------------------------------------------------------------------------
(* What the refinement assumes.                                            *)

\* Of the faults, only writes of the file that reject.
OnlyFailedWrites == MaxFaults["crash"] = 0 /\ MaxFaults["reinit"] = 0

-----------------------------------------------------------------------------
(* The refinement mapping.                                                 *)

\* What SnapshotStore sees of the transactions (the tx of Promise).
AbstractTx ==
    [h \in Handles |->
        IF tx[h].status = "committing" THEN [tx[h] EXCEPT !.status = "active"] ELSE tx[h]]

\* The mapping renames a status and hides no field.
LEMMA AbstractFields ==
  ASSUME TypeOK, NEW h \in Handles
  PROVE  /\ AbstractTx[h].working = tx[h].working
         /\ AbstractTx[h].savepoints = tx[h].savepoints
         /\ AbstractTx[h].status = IF tx[h].status = "committing" THEN "active"
                                                                  ELSE tx[h].status
         /\ tx[h].status # "committing" => AbstractTx[h] = tx[h]
  BY DEF AbstractTx, TypeOK, HandleRecords

\* SnapshotStore applies the operators of PersistedState to the same constants.
LEMMA SameOperators ==
  /\ Promise!UnusedHandle = UnusedHandle
  /\ Promise!EmptyState = EmptyState
  /\ \A s : Promise!OpenHandle(s) = OpenHandle(s)
  /\ \A status : Promise!CloseHandle(status) = CloseHandle(status)
  /\ \A s, n, rows : Promise!WriteRows(s, n, rows) = WriteRows(s, n, rows)
  /\ \A s, n : /\ Promise!CreateRows(s, n) = CreateRows(s, n)
               /\ Promise!PutSchema(s, n) = PutSchema(s, n)
               /\ Promise!Drop(s, n) = Drop(s, n)
  /\ \A r, p : /\ Promise!SetSavepoint(r, p) = SetSavepoint(r, p)
               /\ Promise!ReleaseSavepoint(r, p) = ReleaseSavepoint(r, p)
               /\ Promise!RestoreSavepoint(r, p) = RestoreSavepoint(r, p)
  /\ \A h, s : Promise!Edits(h, s) = Edits(h, s)
  BY DEF Promise!UnusedHandle, UnusedHandle, Promise!EmptyState, EmptyState,
         Promise!NoSavepoints, NoSavepoints, Promise!OpenHandle, OpenHandle,
         Promise!CloseHandle, CloseHandle, Promise!WriteRows, WriteRows,
         Promise!CreateRows, CreateRows, Promise!PutSchema, PutSchema, Promise!Drop, Drop,
         Promise!SetSavepoint, SetSavepoint, Promise!ReleaseSavepoint, ReleaseSavepoint,
         Promise!RestoreSavepoint, RestoreSavepoint, Promise!Edits, Edits

\* What is published is published to the same transactions.
LEMMA PublishAbstract ==
  ASSUME TypeOK, NEW s, Publish(s)
  PROVE  Promise!Publish(s)
<1>1. \A h \in Handles : AbstractTx[h].status \in {"active", "committing"}
                            <=> tx[h].status \in {"active", "committing"}
  BY AbstractFields
<1> QED
  BY <1>1 DEF Publish, Changed, Promise!Publish, Promise!Changed, AbstractTx

\* A step that replaces one handle replaces its image.
LEMMA AbstractUpdate ==
  ASSUME TypeOK, NEW g \in Handles, NEW r, tx' = [tx EXCEPT ![g] = r], r.status # "committing"
  PROVE  AbstractTx' = [AbstractTx EXCEPT ![g] = r]
  BY DEF TypeOK, AbstractTx

\* The steps SnapshotStore does not see.
LEMMA AbstractStutter ==
  ASSUME UNCHANGED <<state, tx, foreign>>
  PROVE  UNCHANGED Promise!vars
  BY DEF Promise!vars

-----------------------------------------------------------------------------
(* The invariants of the refinement.                                       *)

\* Until init has ended for the first time there is nothing but an empty state.
EmptyUntilUp ==
    /\ up => booting = NoBoot
    /\ ~up => state = EmptyState /\ disk \in {Unreadable, EmptyState}

\* A commit task belongs to a transaction that waits for it, and to one that
\* no other commit task belongs to: commit() clears active before it enqueues.
OneCommitEach ==
    /\ \A i \in 1..Len(queue) :
          queue[i].kind = "commit" => tx[queue[i].caller].status = "committing"
    /\ \A i, j \in 1..Len(queue) :
          i # j /\ queue[i].kind = "commit" /\ queue[j].kind = "commit"
             => queue[i].caller # queue[j].caller

\* A fault of a kind that is bounded by 0 does not happen.
LEMMA NoFault ==
  ASSUME TypeOK, NEW k \in FaultKinds, MaxFaults[k] = 0
  PROVE  ~Fault(k)
<1>1. faults[k] \in Nat
  BY DEF TypeOK
<1> QED
  BY <1>1 DEF Fault

\* The first init, however often it has to start again, leaves an empty state.
LEMMA EmptyUntilUpStep ==
  ASSUME OnlyFailedWrites, TypeOK, DownInv, EmptyUntilUp, [Next]_vars
  PROVE  EmptyUntilUp'
<1> USE DEF EmptyUntilUp
<1>n. NoBoot.at = "idle"
  BY DEF NoBoot
<1>f. ~Fault("crash") /\ ~Fault("reinit")
  BY NoFault DEF OnlyFailedWrites, FaultKinds
<1>1. CASE up
  <2>1. up' = up /\ booting' = booting
    BY <1>1, <1>n, <1>f
    DEF Next, vars, WriteTable, UpdateSchema, DropTable, EnsureTable, Call, BeginTransaction,
        TxEdit, Commit, Rollback, CreateSavepoint, DropSavepoint, RollbackToSavepoint, Inside,
        StartTask, FinishTask, FailTask, InitRead, InitParsed, InitRecover, InitPersisted,
        InitFailed, Crash
  <2> QED
    BY <1>1, <2>1
<1>2. CASE ~up
  <2>1. running = NoTask /\ queue = <<>>
    BY <1>2 DEF DownInv
  <2>2. Readable \subseteq {Unreadable, EmptyState}
    BY <1>2, <2>1 DEF Readable
  <2>3. CASE InitRead
    BY <1>2, <2>3 DEF InitRead
  <2>4. CASE InitParsed \/ InitRecover
    BY <1>2, <2>4 DEF InitParsed, InitRecover, Publish, DownInv
  <2>5. CASE InitPersisted \/ InitFailed
    BY <1>2, <2>2, <2>5 DEF InitPersisted, InitFailed
  <2>6. CASE UNCHANGED vars
    BY <1>2, <2>6 DEF vars
  <2> QED
    BY <1>2, <1>f, <2>1, <2>3, <2>4, <2>5, <2>6
    DEF Next, WriteTable, UpdateSchema, DropTable, EnsureTable, Call, BeginTransaction,
        TxEdit, Commit, Rollback, CreateSavepoint, DropSavepoint, RollbackToSavepoint, Inside,
        StartTask, FinishTask, FailTask, Crash
<1> QED
  BY <1>1, <1>2

\* A step that appends no commit task and leaves who waits for one waiting.
LEMMA QueueGrows ==
  ASSUME TypeOK, OneCommitEach, NEW t \in Tasks, queue' \in {queue, Append(queue, t)},
         \A h \in Handles : tx[h].status = "committing" => tx'[h].status = "committing",
         queue' # queue /\ t.kind = "commit" =>
             tx[t.caller].status # "committing" /\ tx'[t.caller].status = "committing"
  PROVE  OneCommitEach'
<1>1. Len(queue) \in Nat /\ \A i \in 1..Len(queue) : queue[i] \in Tasks
  BY DEF TypeOK
<1>2. \A i \in 1..Len(queue) : queue[i].kind = "commit" => queue[i].caller \in Handles
  BY <1>1, TaskFields
<1>3. CASE queue' = queue
  BY <1>2, <1>3 DEF OneCommitEach
<1>4. CASE queue' = Append(queue, t) /\ queue' # queue
  <2>1. /\ Len(queue') = Len(queue) + 1
        /\ \A i \in 1..Len(queue) : queue'[i] = queue[i]
        /\ queue'[Len(queue) + 1] = t
    BY <1>4 DEF TypeOK
  <2>2. ASSUME NEW i \in 1..Len(queue'), queue'[i].kind = "commit"
        PROVE  tx'[queue'[i].caller].status = "committing"
    BY <1>1, <1>2, <1>4, <2>1, <2>2 DEF OneCommitEach
  <2>3. ASSUME NEW i \in 1..Len(queue'), NEW j \in 1..Len(queue'), i # j,
               queue'[i].kind = "commit", queue'[j].kind = "commit"
        PROVE  queue'[i].caller # queue'[j].caller
    BY <1>1, <1>4, <2>1, <2>3 DEF OneCommitEach
  <2> QED
    BY <2>2, <2>3 DEF OneCommitEach
<1> QED
  BY <1>3, <1>4

\* The task that starts leaves the queue, and its transaction with it.
LEMMA QueueShrinks ==
  ASSUME TypeOK, OneCommitEach, StartTask
  PROVE  OneCommitEach'
<1>1. queue \in Seq(Tasks) /\ queue # <<>> /\ queue' = Tail(queue)
  BY DEF TypeOK, StartTask
<1>2. /\ Len(queue) \in Nat \ {0}
      /\ Len(queue') = Len(queue) - 1
      /\ \A i \in 1..Len(queue') : queue'[i] = queue[i + 1]
      /\ Head(queue) = queue[1]
      /\ \A i \in 1..Len(queue) : queue[i] \in Tasks
  BY <1>1
<1>3. \A i \in 1..Len(queue') : i + 1 \in 2..Len(queue)
  BY <1>2
<1>4. ASSUME NEW i \in 1..Len(queue'), queue'[i].kind = "commit"
      PROVE  tx'[queue'[i].caller].status = "committing"
  <2>1. /\ queue[i + 1].kind = "commit"
        /\ queue[i + 1].caller \in Handles
        /\ tx[queue[i + 1].caller].status = "committing"
    BY <1>2, <1>3, <1>4, TaskFields DEF OneCommitEach
  <2>2. queue[1].kind = "commit" => queue[1].caller # queue[i + 1].caller
    BY <1>2, <1>3, <2>1 DEF OneCommitEach
  <2> QED
    BY <1>2, <2>1, <2>2 DEF StartTask, TypeOK
<1>5. ASSUME NEW i \in 1..Len(queue'), NEW j \in 1..Len(queue'), i # j,
             queue'[i].kind = "commit", queue'[j].kind = "commit"
      PROVE  queue'[i].caller # queue'[j].caller
  BY <1>2, <1>3, <1>5 DEF OneCommitEach
<1> QED
  BY <1>4, <1>5 DEF OneCommitEach

\* Every step keeps the commit tasks and the waiting transactions together.
LEMMA OneCommitEachStep ==
  ASSUME OnlyFailedWrites, TypeOK, OneCommitEach, [Next]_vars
  PROVE  OneCommitEach'
<1>t. \A h \in Handles : [kind |-> "commit", caller |-> h] \in Tasks
  BY DEF Tasks
<1>1. ASSUME NEW c \in Clients, NEW n \in Tables,
             WriteTable(c, n) \/ UpdateSchema(c, n) \/ DropTable(c, n) \/ EnsureTable(c, n)
      PROVE  OneCommitEach'
  <2>1. PICK kind \in {"write", "schema", "drop"} : Call(kind, c, n)
    BY <1>1 DEF WriteTable, UpdateSchema, DropTable, EnsureTable
  <2>2. [kind |-> kind, caller |-> c, table |-> n] \in Tasks
    BY DEF Tasks
  <2>3. tx' = tx /\ queue' = Append(queue, [kind |-> kind, caller |-> c, table |-> n])
    BY <2>1 DEF Call, Enqueue
  <2> QED
    BY <2>2, <2>3, QueueGrows
<1>2. ASSUME NEW h \in Handles, NEW r, Inside(h, r), tx[h].status = "unused" \/ tx[h].status = "active",
             queue' = queue
      PROVE  OneCommitEach'
  <2>1. \A g \in Handles : tx[g].status = "committing" => tx'[g].status = "committing"
    BY <1>2 DEF Inside, TypeOK
  <2> QED
    BY <1>2, <1>t, <2>1, QueueGrows
<1>3. ASSUME NEW h \in Handles, Commit(h)
      PROVE  OneCommitEach'
  <2>1. /\ \A g \in Handles : tx[g].status = "committing" => tx'[g].status = "committing"
        /\ tx[h].status = "active" /\ tx'[h].status = "committing"
    BY <1>3 DEF Commit, Inside, TypeOK, HandleRecords
  <2>2. queue' = Append(queue, [kind |-> "commit", caller |-> h])
    BY <1>3 DEF Commit, Enqueue
  <2> QED
    BY <1>t, <2>1, <2>2, QueueGrows
<1>4. ASSUME UNCHANGED <<tx, queue>>
      PROVE  OneCommitEach'
  BY <1>4 DEF OneCommitEach
<1>5. ~Crash
  BY NoFault DEF OnlyFailedWrites, FaultKinds, Crash
<1>6. ASSUME NEW h \in Handles, BeginTransaction(h) \/ TxEdit(h) \/ Rollback(h)
      PROVE  OneCommitEach'
  BY <1>2, <1>6 DEF BeginTransaction, TxEdit, Rollback
<1>7. ASSUME NEW h \in Handles, NEW p \in Savepoints,
             CreateSavepoint(h, p) \/ DropSavepoint(h, p) \/ RollbackToSavepoint(h, p)
      PROVE  OneCommitEach'
  BY <1>2, <1>7 DEF CreateSavepoint, DropSavepoint, RollbackToSavepoint
<1>8. CASE \/ FinishTask \/ FailTask \/ InitRead \/ InitParsed \/ InitRecover
           \/ InitPersisted \/ InitFailed \/ UNCHANGED vars
  <2>1. UNCHANGED <<tx, queue>>
    BY <1>8
    DEF vars, FinishTask, FailTask, InitRead, InitParsed, InitRecover, InitPersisted, InitFailed
  <2> QED
    BY <1>4, <2>1
<1> QED
  BY <1>1, <1>3, <1>5, <1>6, <1>7, <1>8, QueueShrinks DEF Next

-----------------------------------------------------------------------------
(* Every step is a step of SnapshotStore or one it does not see.           *)

\* A task of the promise chain takes effect when it starts (enqueue, json.ts).
LEMMA StartTaskImplements ==
  ASSUME TypeOK, OneCommitEach, StartTask
  PROVE  Promise!Next
<1> DEFINE t == Head(queue)
<1>1. t \in Tasks /\ Publish(Apply(t))
  BY DEF StartTask, TypeOK
<1>2. Promise!Publish(Apply(t))
  BY <1>1, PublishAbstract
<1>3. CASE t.kind # "commit"
  <2>1. AbstractTx' = AbstractTx
    BY <1>3 DEF StartTask, AbstractTx
  <2>2. t.caller \in Clients /\ t.table \in Tables
    BY <1>1, <1>3, TaskFields
  <2>3. CASE t.kind = "write"
    <3>1. Promise!WriteTable(t.caller, t.table)
      BY <1>2, <2>1, <2>3, SameOperators DEF Apply, Promise!WriteTable, AbstractTx
    <3> QED
      BY <2>2, <3>1 DEF Promise!Next
  <2>4. CASE t.kind = "schema"
    <3>1. Promise!UpdateSchema(t.table)
      BY <1>2, <2>1, <2>4, SameOperators DEF Apply, Promise!UpdateSchema, AbstractTx
    <3> QED
      BY <2>2, <3>1 DEF Promise!Next
  <2>5. CASE t.kind = "drop"
    <3>1. Promise!DropTable(t.table)
      BY <1>2, <2>1, <2>5, SameOperators DEF Apply, Promise!DropTable, AbstractTx
    <3> QED
      BY <2>2, <3>1 DEF Promise!Next
  <2> QED
    BY <1>1, <1>3, <2>3, <2>4, <2>5, TaskFields
<1>4. CASE t.kind = "commit"
  <2>1. PICK g \in Handles : t.caller = g
    BY <1>1, <1>4, TaskFields
  <2>2. tx[g].status = "committing"
    <3>1. Len(queue) \in Nat /\ Len(queue) # 0 /\ t = queue[1]
      BY DEF StartTask, TypeOK
    <3> QED
      BY <1>4, <2>1, <3>1 DEF OneCommitEach
  <2>3. AbstractTx[g].status = "active" /\ AbstractTx[g].working = Apply(t)
    BY <1>4, <2>1, <2>2, AbstractFields DEF Apply
  <2>4. AbstractTx' = [AbstractTx EXCEPT ![g] = CloseHandle("committed")]
    <3>1. tx' = [tx EXCEPT ![g] = CloseHandle("committed")]
      BY <1>4, <2>1 DEF StartTask
    <3>2. CloseHandle("committed").status # "committing"
      BY DEF CloseHandle, UnusedHandle
    <3> QED
      BY <3>1, <3>2, AbstractUpdate
  <2>5. Promise!Commit(g)
    BY <1>2, <2>3, <2>4, SameOperators DEF Promise!Commit, AbstractTx
  <2> QED
    BY <2>5 DEF Promise!Next
<1> QED
  BY <1>3, <1>4

\* What a transaction does inside its closure, commit() apart.
LEMMA InsideImplements ==
  ASSUME TypeOK, NEW h \in Handles,
         \/ BeginTransaction(h) \/ TxEdit(h) \/ Rollback(h)
         \/ \E p \in Savepoints :
               CreateSavepoint(h, p) \/ DropSavepoint(h, p) \/ RollbackToSavepoint(h, p)
  PROVE  Promise!Next
<1> USE DEF TypeOK
<1>u. UNCHANGED <<state, foreign>>
  BY DEF BeginTransaction, TxEdit, Rollback, CreateSavepoint, DropSavepoint,
         RollbackToSavepoint, Inside, history
<1>a. /\ AbstractTx[h] = tx[h]
      /\ tx[h].status # "committing"
      /\ \A r : Inside(h, r) /\ r.status # "committing"
                   => AbstractTx' = [AbstractTx EXCEPT ![h] = r]
  <2>1. tx[h].status # "committing"
    BY DEF BeginTransaction, TxEdit, Rollback, CreateSavepoint, DropSavepoint,
           RollbackToSavepoint
  <2> QED
    BY <2>1, AbstractFields, AbstractUpdate DEF Inside
<1>1. CASE BeginTransaction(h)
  <2>1. OpenHandle(state).status # "committing"
    BY DEF OpenHandle
  <2>2. AbstractTx' = [AbstractTx EXCEPT ![h] = OpenHandle(state)]
    BY <1>1, <1>a, <2>1 DEF BeginTransaction
  <2>3. Promise!BeginTransaction(h)
    BY <1>1, <1>u, <1>a, <2>2, SameOperators DEF BeginTransaction, Promise!BeginTransaction, AbstractTx
  <2> QED
    BY <2>3 DEF Promise!Next
<1>2. CASE TxEdit(h)
  <2>1. PICK s \in Edits(h, tx[h].working) : Inside(h, [tx[h] EXCEPT !.working = s])
    BY <1>2 DEF TxEdit
  <2>2. [tx[h] EXCEPT !.working = s].status # "committing"
    BY <1>a DEF HandleRecords
  <2>3. AbstractTx' = [AbstractTx EXCEPT ![h] = [tx[h] EXCEPT !.working = s]]
    BY <1>a, <2>1, <2>2
  <2>4. AbstractTx' = [AbstractTx EXCEPT ![h].working = s]
    BY <1>a, <2>3 DEF AbstractTx
  <2>5. Promise!TxEdit(h)
    BY <1>2, <1>u, <1>a, <2>1, <2>4, SameOperators DEF TxEdit, Promise!TxEdit, AbstractTx
  <2> QED
    BY <2>5 DEF Promise!Next
<1>3. CASE Rollback(h)
  <2>1. CloseHandle("rolledBack").status # "committing"
    BY DEF CloseHandle, UnusedHandle
  <2>2. AbstractTx' = [AbstractTx EXCEPT ![h] = CloseHandle("rolledBack")]
    BY <1>3, <1>a, <2>1 DEF Rollback
  <2>3. Promise!Rollback(h)
    BY <1>3, <1>u, <1>a, <2>2, SameOperators DEF Rollback, Promise!Rollback, AbstractTx
  <2> QED
    BY <2>3 DEF Promise!Next
<1>4. ASSUME NEW p \in Savepoints,
             CreateSavepoint(h, p) \/ DropSavepoint(h, p) \/ RollbackToSavepoint(h, p)
      PROVE  Promise!Next
  <2>s. /\ SetSavepoint(tx[h], p).status = tx[h].status
        /\ ReleaseSavepoint(tx[h], p).status = tx[h].status
        /\ RestoreSavepoint(tx[h], p).status = tx[h].status
    BY DEF SetSavepoint, ReleaseSavepoint, RestoreSavepoint, HandleRecords
  <2>1. CASE CreateSavepoint(h, p)
    <3>1. AbstractTx' = [AbstractTx EXCEPT ![h] = SetSavepoint(@, p)]
      BY <1>a, <2>s, <2>1 DEF CreateSavepoint
    <3>2. Promise!CreateSavepoint(h, p)
      BY <1>u, <1>a, <2>1, <3>1, SameOperators DEF CreateSavepoint, Promise!CreateSavepoint, AbstractTx
    <3> QED
      BY <3>2 DEF Promise!Next
  <2>2. CASE DropSavepoint(h, p)
    <3>1. AbstractTx' = [AbstractTx EXCEPT ![h] = ReleaseSavepoint(@, p)]
      BY <1>a, <2>s, <2>2 DEF DropSavepoint
    <3>2. Promise!DropSavepoint(h, p)
      BY <1>u, <1>a, <2>2, <3>1, SameOperators DEF DropSavepoint, Promise!DropSavepoint, AbstractTx
    <3> QED
      BY <3>2 DEF Promise!Next
  <2>3. CASE RollbackToSavepoint(h, p)
    <3>1. AbstractTx' = [AbstractTx EXCEPT ![h] = RestoreSavepoint(@, p)]
      BY <1>a, <2>s, <2>3 DEF RollbackToSavepoint
    <3>2. Promise!RollbackToSavepoint(h, p)
      BY <1>u, <1>a, <2>3, <3>1, SameOperators
      DEF RollbackToSavepoint, Promise!RollbackToSavepoint, AbstractTx
    <3> QED
      BY <3>2 DEF Promise!Next
  <2> QED
    BY <1>4, <2>1, <2>2, <2>3
<1> QED
  BY <1>1, <1>2, <1>3, <1>4

\* commit() itself is not seen: its transaction is open until its task starts.
LEMMA CommitUnseen ==
  ASSUME TypeOK, NEW h \in Handles, Commit(h)
  PROVE  UNCHANGED Promise!vars
<1>1. tx' = [tx EXCEPT ![h] = [tx[h] EXCEPT !.status = "committing"]]
      /\ tx[h].status = "active" /\ UNCHANGED <<state, foreign>>
  BY DEF Commit, Inside, history
<1>2. \A g \in Handles : AbstractTx'[g] = AbstractTx[g]
  BY <1>1 DEF AbstractTx, TypeOK, HandleRecords
<1>3. AbstractTx' = AbstractTx
  BY <1>2 DEF AbstractTx
<1> QED
  BY <1>1, <1>3 DEF Promise!vars, AbstractTx

\* The first init only confirms that there is nothing yet.
LEMMA InitUnseen ==
  ASSUME TypeOK, DownInv, EmptyUntilUp, InitParsed \/ InitRecover
  PROVE  UNCHANGED Promise!vars
<1>1. ~up
  BY DEF EmptyUntilUp, InitParsed, InitRecover, NoBoot
<1>2. state = EmptyState /\ Publish(EmptyState) /\ tx' = tx
  BY <1>1 DEF EmptyUntilUp, DownInv, InitParsed, InitRecover
<1>3. Changed(EmptyState, EmptyState) = {}
  BY DEF Changed
<1>4. foreign' = foreign /\ state' = state
  BY <1>2, <1>3 DEF Publish, TypeOK
<1> QED
  BY <1>2, <1>4, AbstractStutter

\* With a write that fails now and then, a queue of any length and every
\* interleaving of callers and transactions, JsonDatabaseDriver does what
\* MemoryDatabaseDriver does (json.ts, memory.ts).
THEOREM JsonDriverImplementsSnapshotStore ==
  ASSUME OnlyFailedWrites
  PROVE  Spec => ImplementsSnapshotStore
<1> DEFINE Inv == EmptyUntilUp /\ OneCommitEach
<1>1. Init => Inv
  BY DEF Init, EmptyUntilUp, OneCommitEach
<1>2. TypeOK /\ DownInv /\ Inv /\ [Next]_vars => Inv'
  BY EmptyUntilUpStep, OneCommitEachStep
<1>3. Init => Promise!Init
  <2>1. UnusedHandle.status # "committing"
    BY DEF UnusedHandle
  <2> QED
    BY <2>1, SameOperators DEF Init, Promise!Init
<1>4. TypeOK /\ DownInv /\ Inv /\ [Next]_vars => [Promise!Next]_(Promise!vars)
  <2> SUFFICES ASSUME TypeOK, DownInv, EmptyUntilUp, OneCommitEach, [Next]_vars
               PROVE  Promise!Next \/ UNCHANGED Promise!vars
    OBVIOUS
  <2>1. ASSUME NEW c \in Clients, NEW n \in Tables,
               WriteTable(c, n) \/ UpdateSchema(c, n) \/ DropTable(c, n) \/ EnsureTable(c, n)
        PROVE  Promise!Next \/ UNCHANGED Promise!vars
    <3>1. CASE EnsureTable(c, n)
      <4>1. Promise!Publish(CreateRows(state, n)) /\ tx' = tx
        BY <3>1, PublishAbstract DEF EnsureTable, Call
      <4>2. Promise!CreateTable(n)
        BY <4>1, SameOperators DEF Promise!CreateTable
      <4> QED
        BY <4>2 DEF Promise!Next
    <3>2. CASE UNCHANGED <<state, tx, foreign>>
      BY <3>2, AbstractStutter
    <3> QED
      BY <2>1, <3>1, <3>2 DEF WriteTable, UpdateSchema, DropTable, Call
  <2>2. ASSUME NEW h \in Handles, BeginTransaction(h) \/ TxEdit(h) \/ Commit(h) \/ Rollback(h)
        PROVE  Promise!Next \/ UNCHANGED Promise!vars
    BY <2>2, InsideImplements, CommitUnseen
  <2>3. ASSUME NEW h \in Handles, NEW p \in Savepoints,
               CreateSavepoint(h, p) \/ DropSavepoint(h, p) \/ RollbackToSavepoint(h, p)
        PROVE  Promise!Next
    BY <2>3, InsideImplements
  <2>4. ~Crash
    BY NoFault DEF OnlyFailedWrites, FaultKinds, Crash
  <2>5. CASE FinishTask \/ FailTask \/ InitRead \/ InitPersisted \/ InitFailed \/ UNCHANGED vars
    <3>1. UNCHANGED <<state, tx, foreign>>
      BY <2>5 DEF FinishTask, FailTask, InitRead, InitPersisted, InitFailed, vars, history
    <3> QED
      BY <3>1, AbstractStutter
  <2> QED
    BY <2>1, <2>2, <2>3, <2>4, <2>5, StartTaskImplements, InitUnseen DEF Next
<1> QED
  <2> HIDE DEF Inv
  <2> QED
    BY <1>1, <1>2, <1>3, <1>4, JsonDriverTypeOK, FileInvariant, PTL
    DEF Spec, ImplementsSnapshotStore, Promise!Spec

=============================================================================
