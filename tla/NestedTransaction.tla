-------------------------- MODULE NestedTransaction --------------------------
(***************************************************************************)
(* One Connection.transaction with the transactions nested inside it       *)
(* (connection.ts), over the savepoints of the in-process drivers          *)
(* (drivers/base.ts), and the identity maps their repositories fill        *)
(* (identity-map.ts).  A nested call finds its transaction through         *)
(* AsyncLocalStorage; nothing stops a handler from starting two of them at *)
(* once or from going on while one runs.                                   *)
(*                                                                         *)
(* A frame is one call of transaction: Root, or a nested one.  The rows of *)
(* the table are abstracted to the frame that saved them.                  *)
(***************************************************************************)
EXTENDS Naturals, FiniteSets

CONSTANTS
    Keys,         \* primary keys of the one table
    Frames,       \* calls of transaction
    Root,         \* the outermost one
    Conn,         \* the connection itself: owner of the outer identity map
    Seed,         \* a row from before the transaction
    Absent,       \* no row under the key; no entry in an identity map
    NoSavepoint,  \* no savepoint under the name
    Modes         \* bound: what the callers of a behaviour do, of the
                  \* records of CallerModes

Nested == Frames \ {Root}

Rows == Frames \cup {Seed, Absent}

TableStates == [Keys -> Rows]

\* sp_1, sp_2, ...: every nested call adds one to a counter it starts from.
SavepointNames == 1..Cardinality(Nested)

\* Whether handlers may run beside their nested calls, and the identityScope
\* options they use, TRUE for "isolated".
CallerModes == [concurrent : BOOLEAN, isolated : SUBSET BOOLEAN]

ASSUME NestedTransactionAssumption ==
    /\ Root \in Frames
    /\ IsFiniteSet(Frames)
    /\ Conn \notin Frames
    /\ Seed \notin Frames
    /\ Absent \notin Frames \cup {Seed}
    /\ NoSavepoint \notin TableStates
    /\ Modes \subseteq CallerModes

VARIABLES
    mode,         \* what the callers of this behaviour do
    table,        \* the rows outside the transaction
    working,      \* the transaction's copy
    savepoints,   \* the Map of buildTransactionalInterface
    active,       \* its flag
    frame,        \* per frame: status, parent and TransactionState
    map,          \* per scope: the entity state its IdentityMap holds by key
    entry,        \* history, per frame: the copy when the frame began
    disturbed,    \* history: frames that a frame outside them ran beside
    stale         \* history, per scope: keys that a failed call which shares it
                  \* had saved, or a commit that rejected

vars == <<mode, table, working, savepoints, active, frame, map, entry, disturbed, stale>>

FrameRecords ==
    [status : {"unused", "entering", "running", "done", "failed"},
     parent : Frames \cup {Conn},
     within : SUBSET Frames,
     savepoint : 0..Cardinality(Nested),
     counter : 0..Cardinality(Nested),
     scope : Frames,
     into : Frames]

Unused ==
    [status |-> "unused", parent |-> Conn, within |-> {}, savepoint |-> 0,
     counter |-> 0, scope |-> Root, into |-> Root]

Scopes == Frames \cup {Conn}

NoEntries == [k \in Keys |-> Absent]

TypeOK ==
    /\ mode \in Modes
    /\ table \in TableStates
    /\ working \in TableStates
    /\ savepoints \in [SavepointNames -> TableStates \cup {NoSavepoint}]
    /\ active \in BOOLEAN
    /\ frame \in [Frames -> FrameRecords]
    /\ map \in [Scopes -> TableStates]
    /\ entry \in [Frames -> TableStates]
    /\ disturbed \subseteq Frames
    /\ stale \in [Scopes -> SUBSET Keys]

\* The row is there, and the connection has or has not loaded it.
Init ==
    /\ mode \in Modes
    /\ table = [k \in Keys |-> Seed]
    /\ working = table
    /\ savepoints = [n \in SavepointNames |-> NoSavepoint]
    /\ active = FALSE
    /\ frame = [f \in Frames |-> Unused]
    /\ map \in {[s \in Scopes |-> IF s = Conn THEN loaded ELSE NoEntries] :
                    loaded \in {NoEntries, table}}
    /\ entry = [f \in Frames |-> NoEntries]
    /\ disturbed = {}
    /\ stale = [s \in Scopes |-> {}]

-----------------------------------------------------------------------------
Open(f) == frame[f].status \in {"entering", "running"}

\* No nested call of f is under way.
Leaf(f) == \A g \in Nested : Open(g) => frame[g].parent # f

\* Without concurrency a handler waits for the nested call it has made.
Acts(f) ==
    /\ active
    /\ frame[f].status = "running"
    /\ mode.concurrent \/ Leaf(f)

\* A step of f runs beside every frame that does not enclose it.
Disturb(f) ==
    disturbed' = disturbed \cup (({g \in Frames : Open(g)} \ {f}) \ frame[f].within)

BeginRoot ==
    /\ frame[Root].status = "unused"
    /\ frame' = [frame EXCEPT ![Root].status = "running"]
    /\ active' = TRUE
    /\ working' = table
    /\ entry' = [entry EXCEPT ![Root] = working']
    /\ UNCHANGED <<table, savepoints, map, disturbed, stale>>

\* find hydrates the scope's map from the transaction's row.
Find(f, k) ==
    /\ Acts(f)
    /\ working[k] # Absent
    /\ map' = [map EXCEPT ![frame[f].scope][k] = working[k]]
    /\ stale' = [stale EXCEPT ![frame[f].scope] = @ \ {k}]
    /\ Disturb(f)
    /\ UNCHANGED <<table, working, savepoints, active, frame, entry>>

Save(f, k) ==
    /\ Acts(f)
    /\ working' = [working EXCEPT ![k] = f]
    /\ map' = [map EXCEPT ![frame[f].scope][k] = f]
    /\ stale' = [stale EXCEPT ![frame[f].scope] = @ \ {k}]
    /\ Disturb(f)
    /\ UNCHANGED <<table, savepoints, active, frame, entry>>

\* delete evicts the entity from the scope's own map only.
Delete(f, k) ==
    /\ Acts(f)
    /\ working[k] # Absent
    /\ working' = [working EXCEPT ![k] = Absent]
    /\ map' = [map EXCEPT ![frame[f].scope][k] = Absent]
    /\ stale' = [stale EXCEPT ![frame[f].scope] = @ \ {k}]
    /\ Disturb(f)
    /\ UNCHANGED <<table, savepoints, active, frame, entry>>

-----------------------------------------------------------------------------
(* runNestedTransaction.                                                   *)

\* The counter goes up and the savepoint is made at once.  The counter that
\* the nested call starts from is read when createSavepoint has been awaited:
\* a sibling that begins meanwhile has raised it.
BeginNested(f, g, isolated) ==
    LET name == frame[f].counter + 1 IN
    /\ Acts(f)
    /\ frame[g].status = "unused"
    /\ name \in SavepointNames
    /\ savepoints' = [savepoints EXCEPT ![name] = working]
    /\ frame' = [h \in Frames |->
                    CASE h = g -> [status |-> "entering", parent |-> f,
                                   within |-> {f} \cup frame[f].within,
                                   savepoint |-> name, counter |-> name,
                                   scope |-> IF isolated THEN g ELSE frame[f].scope,
                                   into |-> frame[f].scope]
                      [] h # g /\ (h = f \/ (frame[h].status = "entering" /\ frame[h].parent = f))
                           -> [frame[h] EXCEPT !.counter = name]
                      [] OTHER -> frame[h]]
    /\ entry' = [entry EXCEPT ![g] = working]
    /\ Disturb(f)
    /\ UNCHANGED <<table, working, active, map, stale>>

\* Mutant: a nested transaction counts its savepoints from one.
EnterFromOne(g) ==
    /\ active
    /\ frame[g].status = "entering"
    /\ frame' = [frame EXCEPT ![g].status = "running", ![g].counter = 0]
    /\ UNCHANGED <<table, working, savepoints, active, map, entry, disturbed, stale>>

\* createSavepoint returns, and the handler is called.
Enter(g) ==
    /\ active
    /\ frame[g].status = "entering"
    /\ frame' = [frame EXCEPT ![g].status = "running"]
    /\ UNCHANGED <<table, working, savepoints, active, map, entry, disturbed, stale>>

\* Mutant: adoptFrom keeps the entries there are.
AdoptMissing(into, from) ==
    /\ map' = [map EXCEPT
                  ![into] = [k \in Keys |-> IF @[k] = Absent THEN map[from][k] ELSE @[k]],
                  ![from] = NoEntries]
    /\ stale' = [stale EXCEPT ![from] = {}]

\* adoptFrom: the entries of one map replace those of another, key by key.
Adopt(into, from) ==
    /\ map' = [map EXCEPT
                  ![into] = [k \in Keys |-> IF map[from][k] = Absent THEN @[k] ELSE map[from][k]],
                  ![from] = NoEntries]
    /\ stale' = [stale EXCEPT
                    ![into] = stale[from] \cup {k \in @ : map[from][k] = Absent},
                    ![from] = {}]

\* A frame that is over is never looked at again.
End(f, status) ==
    /\ frame' = [frame EXCEPT ![f] = [Unused EXCEPT !.status = status]]
    /\ entry' = [entry EXCEPT ![f] = NoEntries]
    /\ Disturb(f)

NestedSucceeds(g) ==
    /\ g # Root
    /\ Acts(g)
    /\ savepoints' = [savepoints EXCEPT ![frame[g].savepoint] = NoSavepoint]
    /\ IF frame[g].scope = g THEN Adopt(frame[g].into, g) ELSE UNCHANGED <<map, stale>>
    /\ End(g, "done")
    /\ UNCHANGED <<table, working, active>>

\* Mutant: an unknown savepoint does not throw.
NestedFailsUnchecked(g) ==
    /\ g # Root
    /\ Acts(g)
    /\ working' = savepoints[frame[g].savepoint]
    /\ End(g, "failed")
    /\ UNCHANGED <<table, savepoints, active, map, stale>>

\* The handler threw.  An unknown savepoint makes rollbackToSavepoint throw
\* in turn, and leaves the copy as it is.
NestedFails(g) ==
    LET saved == savepoints[frame[g].savepoint]
        s == frame[g].scope
    IN
    /\ g # Root
    /\ Acts(g)
    /\ working' = IF saved = NoSavepoint THEN working ELSE saved
    /\ IF s = g
       THEN /\ map' = [map EXCEPT ![g] = NoEntries]
            /\ stale' = [stale EXCEPT ![g] = {}]
       ELSE /\ stale' = [stale EXCEPT ![s] = @ \cup {k \in Keys : working'[k] # working[k]}]
            /\ UNCHANGED map
    /\ End(g, "failed")
    /\ UNCHANGED <<table, savepoints, active>>

-----------------------------------------------------------------------------
(* runRootTransaction, and the connection afterwards.                      *)

RootCommits ==
    /\ Acts(Root)
    /\ active' = FALSE
    /\ table' = working
    /\ Adopt(Conn, Root)
    /\ End(Root, "done")
    /\ UNCHANGED <<working, savepoints>>

\* tx.commit rejects although the copy was taken over: json.ts replaces its
\* state before it awaits the write that may fail.  The rollback that follows
\* throws, and nothing is adopted.
RootCommitRejects ==
    /\ Acts(Root)
    /\ active' = FALSE
    /\ table' = working
    /\ stale' = [stale EXCEPT ![Conn] = @ \cup {k \in Keys : table[k] # working[k]}]
    /\ End(Root, "failed")
    /\ UNCHANGED <<working, savepoints, map>>

\* Mutant: the identity map is adopted although the transaction failed.
RootFailsAdopts ==
    /\ Acts(Root)
    /\ active' = FALSE
    /\ Adopt(Conn, Root)
    /\ End(Root, "failed")
    /\ UNCHANGED <<table, working, savepoints>>

RootFails ==
    /\ Acts(Root)
    /\ active' = FALSE
    /\ End(Root, "failed")
    /\ UNCHANGED <<table, working, savepoints, map, stale>>

ConnFind(k) ==
    /\ ~active
    /\ table[k] # Absent
    /\ map' = [map EXCEPT ![Conn][k] = table[k]]
    /\ stale' = [stale EXCEPT ![Conn] = @ \ {k}]
    /\ UNCHANGED <<table, working, savepoints, active, frame, entry, disturbed>>

-----------------------------------------------------------------------------
Step ==
    \/ BeginRoot \/ RootCommits \/ RootCommitRejects \/ RootFails
    \/ \E f \in Frames, k \in Keys : Find(f, k) \/ Save(f, k) \/ Delete(f, k)
    \/ \E f \in Frames, g \in Nested, isolated \in mode.isolated : BeginNested(f, g, isolated)
    \/ \E g \in Nested : Enter(g) \/ NestedSucceeds(g) \/ NestedFails(g)
    \/ \E k \in Keys : ConnFind(k)

Next == Step /\ UNCHANGED mode

Spec == Init /\ [][Next]_vars

-----------------------------------------------------------------------------
\* A nested transaction that fails leaves nothing behind.  Whatever its
\* handler did, nested calls of its own that ran at the same time and reused
\* one another's savepoint names included, the copy is again what it was when
\* the call began -- as long as no frame outside it ran beside it.
NestedAllOrNothing ==
    [][\A g \in Nested :
          Open(g) /\ g \notin disturbed /\ frame'[g].status = "failed"
              => working' = entry[g]]_vars

\* An entity shows the row it stands for.  In the scope of a handler that is
\* running, an entity loaded or saved there or in a nested call that succeeded
\* equals the transaction's row, if the row is still there -- unless a nested
\* call that shared the scope failed after changing the row, or some handler
\* ran beside another.
IdentityAgrees ==
    active /\ disturbed = {} => \A f \in Frames, k \in Keys :
        LET s == frame[f].scope IN
        Open(f) /\ Leaf(f) /\ map[s][k] # Absent /\ working[k] # Absent /\ k \notin stale[s]
            => map[s][k] = working[k]

\* After the commit the same holds of the connection's own identity map, into
\* which the entities of the whole transaction were adopted.
ConnectionAgrees ==
    \A k \in Keys :
        ~active /\ disturbed = {} /\ map[Conn][k] # Absent /\ table[k] # Absent
            /\ k \notin stale[Conn]
            => map[Conn][k] = table[k]

\* Both: whatever handlers do and however nested transactions end, what a caller
\* finds in an identity map is the row (the identity scopes of connection.ts).
EntitiesAgree == IdentityAgrees /\ ConnectionAgrees

=============================================================================
