----------------------------- MODULE JsonDriver -----------------------------
(***************************************************************************)
(* JsonDatabaseDriver (drivers/json.ts): a PersistedState in memory, one   *)
(* file that holds a copy of it, and a promise chain (this.mutex) through  *)
(* which every operation that writes the file runs.  A task of the chain   *)
(* changes the state and serialises it in one synchronous step, then       *)
(* awaits fs.writeFile.  ensureTable changes the state before it enqueues  *)
(* anything, and init reads and writes the file outside the chain: these   *)
(* two, a crash, and a write that fails are what makes the driver hard.    *)
(*                                                                         *)
(* The file is Unreadable when it is absent, empty or cut short: JSON.parse*)
(* or readFile throws for each of them and init treats them alike.         *)
(***************************************************************************)
EXTENDS PersistedState, Sequences, Naturals

CONSTANTS
    Unreadable,   \* content of the file that init cannot parse
    NoTask,       \* no task of the chain is running
    MaxFaults     \* bound, per kind of fault: how often it may happen

\* A write of the file that rejects; the death of the process; a second init
\* on a driver in use, which is what MigrationRunner.run begins with.
FaultKinds == {"failure", "crash", "reinit"}

ASSUME JsonDriverAssumption ==
    /\ Unreadable \notin States
    /\ MaxFaults \in [FaultKinds -> Nat]

VARIABLES
    state,        \* this.state
    tx,           \* per handle: the closure of buildTransactionalInterface
    disk,         \* content of the file
    queue,        \* this.mutex: the tasks chained and not yet started
    running,      \* the task that awaits fs.writeFile, with what it writes
    booting,      \* progress of init(), with the content it has read
    overlap,      \* a task and init have written the file at the same time,
                  \* and one of the two writes is still under way
    up,           \* the process runs and the connection awaited init()
    faults,       \* how many faults of each kind there were
    foreign,      \* history, per handle: tables changed by another party
                  \* after the handle's snapshot was taken
    acked,        \* history: what the last acknowledged write put in the file,
                  \* or what the process found in it when it started
    suspect       \* history: a write failed or was cut short, or init ran
                  \* beside a task, and no write has replaced the file since

history == <<foreign, acked, suspect>>

vars == <<state, tx, disk, queue, running, booting, overlap, up, faults, history>>

Contents == States \cup {Unreadable}

Tasks == [kind : {"write", "schema", "drop"}, caller : Clients, table : Tables]
             \cup [kind : {"commit"}, caller : Handles]

Writes == [task : Tasks, image : States]

ASSUME NoTaskAssumption == NoTask \notin Writes

Boots == [at : {"idle", "recovering"}] \cup [at : {"read"}, content : Contents]

NoBoot == [at |-> "idle"]

TypeOK ==
    /\ state \in States
    /\ tx \in [Handles -> HandleRecords]
    /\ disk \in Contents
    /\ queue \in Seq(Tasks)
    /\ running \in Writes \cup {NoTask}
    /\ booting \in Boots
    /\ overlap \in BOOLEAN
    /\ up \in BOOLEAN
    /\ faults \in [FaultKinds -> Nat]
    /\ \A k \in FaultKinds : faults[k] <= MaxFaults[k]
    /\ foreign \in [Handles -> SUBSET Tables]
    /\ acked \in Contents
    /\ suspect \in BOOLEAN

Init ==
    /\ state = EmptyState
    /\ tx = [h \in Handles |-> UnusedHandle]
    /\ disk = Unreadable
    /\ queue = <<>>
    /\ running = NoTask
    /\ booting = NoBoot
    /\ overlap = FALSE
    /\ up = FALSE
    /\ faults = [k \in FaultKinds |-> 0]
    /\ foreign = [h \in Handles |-> {}]
    /\ acked = Unreadable
    /\ suspect = FALSE

-----------------------------------------------------------------------------
Changed(s, t) ==
    {n \in Tables : s.tables[n] # t.tables[n] \/ ((n \in s.schemas) # (n \in t.schemas))}

Publish(s) ==
    /\ state' = s
    /\ foreign' = [h \in Handles |->
                      IF tx[h].status \in {"active", "committing"}
                      THEN foreign[h] \cup Changed(state, s)
                      ELSE foreign[h]]

Fault(k) == faults[k] < MaxFaults[k] /\ faults' = [faults EXCEPT ![k] = @ + 1]

Queued == {queue[i] : i \in 1..Len(queue)}

\* Callers whose promise is not settled: each awaits one call at a time.
Waiting ==
    {t.caller : t \in Queued} \cup (IF running = NoTask THEN {} ELSE {running.task.caller})

\* What a reader of the file, now or after a crash, may find in it: a write
\* under way has truncated it, filled a part of it, or completed.
Readable ==
    {disk} \cup (IF running = NoTask THEN {} ELSE {Unreadable, running.image})
           \cup (IF booting.at = "recovering" THEN {Unreadable, EmptyState} ELSE {})

\* What the file may hold when a write of image completes: image itself,
\* unless another write overlapped it.
Left(image) == IF overlap THEN Readable ELSE {image}

-----------------------------------------------------------------------------
(* Calls that enqueue a task.                                              *)

Enqueue(t) == queue' = Append(queue, t)

Call(kind, c, n) ==
    /\ up
    /\ c \notin Waiting
    /\ Enqueue([kind |-> kind, caller |-> c, table |-> n])
    /\ UNCHANGED <<tx, disk, running, booting, overlap, up, faults, acked, suspect>>

WriteTable(c, n) == Call("write", c, n) /\ UNCHANGED <<state, foreign>>

UpdateSchema(c, n) == Call("schema", c, n) /\ UNCHANGED <<state, foreign>>

DropTable(c, n) == Call("drop", c, n) /\ UNCHANGED <<state, foreign>>

\* Mutant: ensureTable empties a table that exists.
EnsureTableEmpties(c, n) == Call("schema", c, n) /\ Publish(WriteRows(state, n, Empty))

\* The rows are created at once, outside the chain.
EnsureTable(c, n) == Call("schema", c, n) /\ Publish(CreateRows(state, n))

-----------------------------------------------------------------------------
(* Transactions.                                                           *)

\* A step of h that stays inside its closure.
Inside(h, r) ==
    /\ up
    /\ tx' = [tx EXCEPT ![h] = r]
    /\ UNCHANGED <<state, disk, running, booting, overlap, up, faults, history>>

\* Mutant: the snapshot is what the file holds.
BeginFromFile(h) ==
    /\ tx[h].status = "unused"
    /\ Inside(h, OpenHandle(IF disk = Unreadable THEN EmptyState ELSE disk))
    /\ UNCHANGED queue

BeginTransaction(h) ==
    tx[h].status = "unused" /\ Inside(h, OpenHandle(state)) /\ UNCHANGED queue

\* Mutant: the snapshot is handed over without cloneState.
TxEditUncloned(h) ==
    /\ tx[h].status = "active"
    /\ up
    /\ \E s \in Edits(h, tx[h].working) :
           tx' = [tx EXCEPT ![h].working = s] /\ state' = s
    /\ UNCHANGED <<disk, queue, running, booting, overlap, up, faults, history>>

TxEdit(h) ==
    /\ tx[h].status = "active"
    /\ \E s \in Edits(h, tx[h].working) : Inside(h, [tx[h] EXCEPT !.working = s])
    /\ UNCHANGED queue

Commit(h) ==
    /\ tx[h].status = "active"
    /\ Inside(h, [tx[h] EXCEPT !.status = "committing"])
    /\ Enqueue([kind |-> "commit", caller |-> h])

Rollback(h) ==
    tx[h].status = "active" /\ Inside(h, CloseHandle("rolledBack")) /\ UNCHANGED queue

CreateSavepoint(h, p) ==
    tx[h].status = "active" /\ Inside(h, SetSavepoint(tx[h], p)) /\ UNCHANGED queue

DropSavepoint(h, p) ==
    tx[h].status = "active" /\ Inside(h, ReleaseSavepoint(tx[h], p)) /\ UNCHANGED queue

RollbackToSavepoint(h, p) ==
    /\ tx[h].status = "active"
    /\ tx[h].savepoints[p] # NoSavepoint
    /\ Inside(h, RestoreSavepoint(tx[h], p))
    /\ UNCHANGED queue

-----------------------------------------------------------------------------
(* The promise chain.                                                      *)

Apply(t) ==
    CASE t.kind = "write"  -> WriteRows(state, t.table, t.caller)
      [] t.kind = "schema" -> PutSchema(state, t.table)
      [] t.kind = "drop"   -> Drop(state, t.table)
      [] t.kind = "commit" -> tx[t.caller].working

\* Mutant: the image is serialised before the task has changed the state.
StartTaskSerialisesFirst ==
    /\ running = NoTask
    /\ queue # <<>>
    /\ LET t == Head(queue) IN
         /\ Publish(Apply(t))
         /\ running' = [task |-> t, image |-> state]
         /\ tx' = IF t.kind = "commit"
                  THEN [tx EXCEPT ![t.caller] = CloseHandle("committed")]
                  ELSE tx
    /\ queue' = Tail(queue)
    /\ overlap' = (booting.at = "recovering")
    /\ suspect' = (booting # NoBoot)
    /\ UNCHANGED <<disk, booting, up, faults, acked>>

\* Mutant: then(task) in place of then(task, task): a task that rejects ends
\* the chain.
StartTaskUnlessRejected ==
    /\ ~suspect
    /\ running = NoTask
    /\ queue # <<>>
    /\ LET t == Head(queue) IN
         /\ Publish(Apply(t))
         /\ running' = [task |-> t, image |-> Apply(t)]
         /\ tx' = IF t.kind = "commit"
                  THEN [tx EXCEPT ![t.caller] = CloseHandle("committed")]
                  ELSE tx
    /\ queue' = Tail(queue)
    /\ overlap' = (booting.at = "recovering")
    /\ UNCHANGED <<disk, booting, up, faults, acked, suspect>>

StartTask ==
    /\ running = NoTask
    /\ queue # <<>>
    /\ LET t == Head(queue) IN
         /\ Publish(Apply(t))
         /\ running' = [task |-> t, image |-> Apply(t)]
         /\ tx' = IF t.kind = "commit"
                  THEN [tx EXCEPT ![t.caller] = CloseHandle("committed")]
                  ELSE tx
    /\ queue' = Tail(queue)
    /\ overlap' = (booting.at = "recovering")
    /\ suspect' = (booting # NoBoot)
    /\ UNCHANGED <<disk, booting, up, faults, acked>>

FinishTask ==
    /\ running # NoTask
    /\ disk' \in Left(running.image)
    /\ acked' = running.image
    /\ running' = NoTask
    /\ overlap' = (overlap /\ booting.at = "recovering")
    /\ UNCHANGED <<state, tx, queue, booting, up, faults, foreign, suspect>>

\* fs.writeFile rejects: the caller's promise rejects, the state stays as the
\* task left it, and then(task, task) runs the next task all the same.
FailTask ==
    /\ running # NoTask
    /\ Fault("failure")
    /\ disk' \in Readable
    /\ running' = NoTask
    /\ overlap' = (overlap /\ booting.at = "recovering")
    /\ suspect' = TRUE
    /\ UNCHANGED <<state, tx, queue, booting, up, foreign, acked>>

-----------------------------------------------------------------------------
(* init(), at boot and again on a driver in use; and the crash.            *)

InitRead ==
    /\ booting = NoBoot
    /\ IF up THEN Fault("reinit") ELSE UNCHANGED faults
    /\ \E content \in Readable : booting' = [at |-> "read", content |-> content]
    /\ suspect' = (suspect \/ running # NoTask)
    /\ UNCHANGED <<state, tx, disk, queue, running, overlap, up, foreign, acked>>

\* Mutant: what was read is taken for a state without a look at it.
InitUnparsed ==
    /\ booting.at = "read"
    /\ state' = booting.content
    /\ booting' = NoBoot
    /\ up' = TRUE
    /\ UNCHANGED <<tx, disk, queue, running, overlap, faults, history>>

InitParsed ==
    /\ booting.at = "read"
    /\ booting.content # Unreadable
    /\ Publish(booting.content)
    /\ booting' = NoBoot
    /\ up' = TRUE
    /\ acked' = IF up THEN acked ELSE booting.content
    /\ suspect' = (up /\ (suspect \/ running # NoTask))
    /\ UNCHANGED <<tx, disk, queue, running, overlap, faults>>

\* Mutant: init starts from an empty state whatever the file holds.
InitResets ==
    /\ booting.at = "read"
    /\ Publish(EmptyState)
    /\ booting' = [at |-> "recovering"]
    /\ overlap' = (running # NoTask)
    /\ suspect' = (suspect \/ running # NoTask)
    /\ UNCHANGED <<tx, disk, queue, running, up, faults, acked>>

\* Any error, a missing file or a torn one, starts from an empty state and
\* writes it to the file, without the chain.
InitRecover ==
    /\ booting.at = "read"
    /\ booting.content = Unreadable
    /\ Publish(EmptyState)
    /\ booting' = [at |-> "recovering"]
    /\ overlap' = (running # NoTask)
    /\ suspect' = (suspect \/ running # NoTask)
    /\ UNCHANGED <<tx, disk, queue, running, up, faults, acked>>

InitPersisted ==
    /\ booting.at = "recovering"
    /\ disk' \in Left(EmptyState)
    /\ acked' = EmptyState
    /\ booting' = NoBoot
    /\ overlap' = (overlap /\ running # NoTask)
    /\ up' = TRUE
    /\ suspect' = (up /\ (suspect \/ running # NoTask))
    /\ UNCHANGED <<state, tx, queue, running, faults, foreign>>

InitFailed ==
    /\ booting.at = "recovering"
    /\ Fault("failure")
    /\ disk' \in Readable
    /\ booting' = NoBoot
    /\ overlap' = (overlap /\ running # NoTask)
    /\ suspect' = TRUE
    /\ UNCHANGED <<state, tx, queue, running, up, foreign, acked>>

Crash ==
    /\ Fault("crash")
    /\ disk' \in Readable
    /\ state' = EmptyState
    /\ tx' = [h \in Handles |->
                 IF tx[h].status \in {"active", "committing"}
                 THEN CloseHandle("rolledBack")
                 ELSE tx[h]]
    /\ queue' = <<>>
    /\ running' = NoTask
    /\ booting' = NoBoot
    /\ overlap' = FALSE
    /\ up' = FALSE
    /\ suspect' = (suspect \/ running # NoTask \/ booting.at = "recovering")
    /\ UNCHANGED <<foreign, acked>>

-----------------------------------------------------------------------------
Next ==
    \/ \E c \in Clients, n \in Tables :
           WriteTable(c, n) \/ UpdateSchema(c, n) \/ DropTable(c, n) \/ EnsureTable(c, n)
    \/ \E h \in Handles : BeginTransaction(h) \/ TxEdit(h) \/ Commit(h) \/ Rollback(h)
    \/ \E h \in Handles, p \in Savepoints :
           CreateSavepoint(h, p) \/ DropSavepoint(h, p) \/ RollbackToSavepoint(h, p)
    \/ StartTask \/ FinishTask \/ FailTask
    \/ InitRead \/ InitParsed \/ InitRecover \/ InitPersisted \/ InitFailed
    \/ Crash

Spec == Init /\ [][Next]_vars

\* The event loop runs a chained task and settles a file operation; nothing
\* obliges a caller to call, a write to fail or the process to crash.
FairSpec ==
    /\ Spec
    /\ WF_vars(StartTask)
    /\ WF_vars(FinishTask \/ FailTask)
    /\ WF_vars(InitParsed \/ InitRecover)
    /\ WF_vars(InitPersisted \/ InitFailed)

-----------------------------------------------------------------------------
\* The file catches up.  Once the chain is empty and init is over, the file
\* holds exactly the state the driver serves and that state has been
\* acknowledged -- although ensureTable changes the state before it enqueues
\* anything and any number of tasks were queued behind one another -- unless
\* a write failed or init overlapped a task and nothing was written since.
QuiescentDurable ==
    up /\ ~suspect /\ running = NoTask /\ queue = <<>> /\ booting = NoBoot
        => disk = state /\ acked = state

\* No dirty data, in memory or in the file.  Rows a transaction wrote can be
\* read by others, can be in the file, or can come back from it at the next
\* init, only once the commit task of that transaction has run.
Holds(content, n, rows) == content \in States /\ content.tables[n] = rows

NoDirtyData ==
    \A h \in Handles, n \in Tables :
        tx[h].status # "committed" =>
            /\ state.tables[n] # h
            /\ \A content \in Readable : ~Holds(content, n, h)
            /\ booting.at = "read" => ~Holds(booting.content, n, h)
            /\ \A g \in Handles \ {h} :
                  /\ tx[g].working.tables[n] # h
                  /\ \A p \in Savepoints : ~Holds(tx[g].savepoints[p], n, h)

\* init() serves what was last acknowledged.  With no write cut short, failed
\* or overlapped before it, init -- at a restart, or on a driver in use --
\* brings back exactly the last acknowledged state; it starts from an empty
\* database (the catch of init) only where there never was one.
InitRestores ==
    [][(InitParsed \/ InitRecover) /\ ~suspect /\ running = NoTask
          => state' = IF acked = Unreadable THEN EmptyState ELSE acked]_vars

\* A commit changes what its transaction edited, and beside that only tables
\* that another party changed after the snapshot was taken: those it puts
\* back to the snapshot, the price of replacing the whole state.
CommitConfined ==
    [][\A h \in Handles, n \in Tables :
          tx[h].status = "committing" /\ tx'[h].status = "committed"
              /\ state'.tables[n] # state.tables[n]
              => state'.tables[n] \in {h, Empty, NoTable} \/ n \in foreign[h]]_vars

\* Every call of the chain is answered: a failed write, an init beside it or
\* a long queue leaves no promise unsettled.
EveryCallSettles == \A w \in Writers : w \in Waiting ~> w \notin Waiting

-----------------------------------------------------------------------------
\* Without a crash and without a second init the driver keeps the promise of
\* SnapshotStore, failed writes included: a call takes effect when its task
\* starts (ensureTable in two steps, the rows before the schema), and a
\* transaction that has called commit is still open until its task starts.
Promise ==
    INSTANCE SnapshotStore WITH
        tx <- [h \in Handles |->
                  IF tx[h].status = "committing"
                  THEN [tx[h] EXCEPT !.status = "active"]
                  ELSE tx[h]]

ImplementsSnapshotStore == Promise!Spec

=============================================================================
