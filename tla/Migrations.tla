----------------------------- MODULE Migrations -----------------------------
(***************************************************************************)
(* MigrationRunner and SeedRunner (migrations/runner.ts) over a driver that *)
(* keeps the __migrations table.                                           *)
(*                                                                         *)
(* A runner reads the history once, and then writes the history it holds,  *)
(* whole, after each migration: a crash or an error between the migration  *)
(* and that write makes the migration run again, and two runners overwrite *)
(* each other's rows.  A migration is two steps, what up or down does by   *)
(* itself and what it has queued on the schema builder; one without a down *)
(* undoes nothing.  Ids are numbers, ordered as localeCompare orders names. *)
(*                                                                         *)
(* Seeders are ordered by a depth-first visit of dependsOn among those the *)
(* options select, and run one after the other, each in a transaction of   *)
(* its own unless it says otherwise.  What one that throws leaves is not   *)
(* told: it depends on the driver whether its transaction takes it back.   *)
(***************************************************************************)
EXTENDS Integers, Sequences, FiniteSets, SequencesExt, FiniteSetsExt

CONSTANTS MigrationIds, \* ids, numbers in their order
          Irreversible, \* those without a down
          Runners,      \* processes that run migrations
          MaxRuns,      \* runs of all of them
          MaxBreaks,    \* runs that throw or crash half way
          SeederGraphs  \* the sets of registered seeders: [id -> ids it depends on]

MigrationsAssumption ==
    /\ MigrationIds \subseteq Int /\ IsFiniteSet(MigrationIds)
    /\ Irreversible \subseteq MigrationIds
    /\ MaxRuns \in Nat /\ MaxBreaks \in Nat

VARIABLES registered, \* the migrations the program knows by now
          stored,     \* the rows of __migrations
          effect,     \* per migration: how often up ran to its end, less the downs
          torn,       \* history: migrations a run was cut short at
          kept,       \* history: migrations taken from the table and not undone
          runner,     \* per process: its run
          runs, breaks, overlapped,
          seeders,    \* the registered seeders of this program
          selected,   \* those the options leave
          visit,      \* the visit: a stack of seeders, the visited, the order; "circular"
          planted     \* per seeder: how its handler ended

migrationVars == <<registered, stored, effect, torn, kept, runner, runs, breaks, overlapped>>
seedVars == <<seeders, selected, visit, planted>>
allVars == <<migrationVars, seedVars>>

Idle == [at |-> "idle"]

-----------------------------------------------------------------------------
(* Migrations.                                                             *)

\* Mutant: the migrations that are not in the history are taken from its length on.
DueByLength(history, direction) ==
    IF direction = "up"
    THEN {id \in registered :
             Cardinality({other \in registered : other < id}) >= Cardinality(history)}
    ELSE registered \cap history

\* run reads the history: the registered ids it has are left out of an up, those
\* it has not out of a down.
Due(history, direction) ==
    IF direction = "up" THEN registered \ history ELSE registered \cap history

\* They are sorted, and run from the least for "up", from the greatest for "down".
Foremost(ids, direction) ==
    CHOOSE id \in ids : \A other \in ids : IF direction = "up" THEN id <= other ELSE id >= other

Coming(r) == Foremost(runner[r].todo, runner[r].direction)

\* A newer build registers another migration, whose id may sort before those
\* that have run: it came from another branch.
Register(id) ==
    /\ id \notin registered
    /\ \A r \in Runners : runner[r] = Idle
    /\ registered' = registered \cup {id}
    /\ UNCHANGED <<stored, effect, torn, kept, runner, runs, breaks, overlapped, seedVars>>

StartRun(r, direction) ==
    /\ runner[r] = Idle /\ runs < MaxRuns
    /\ runs' = runs + 1
    /\ runner' = [runner EXCEPT ![r] = [at |-> "next", direction |-> direction, history |-> stored,
                                        todo |-> Due(stored, direction)]]
    /\ overlapped' = (overlapped \/ \E o \in Runners : runner[o] # Idle)
    /\ UNCHANGED <<registered, stored, effect, torn, kept, breaks, seedVars>>

\* The next migration's up, or its down; then the queue of its schema builder.
Migrate(r) ==
    /\ runner[r].at = "next" /\ runner[r].todo # {}
    /\ runner' = [runner EXCEPT ![r].at = "queued"]
    /\ UNCHANGED <<registered, stored, effect, torn, kept, runs, breaks, overlapped, seedVars>>

\* migration.down?.(): nothing is undone where there is none.
Undoes(r) == runner[r].direction = "down" /\ Coming(r) \notin Irreversible

ExecuteQueue(r) ==
    /\ runner[r].at = "queued"
    /\ runner' = [runner EXCEPT ![r].at = "record"]
    /\ effect' = [effect EXCEPT ![Coming(r)] =
                      IF runner[r].direction = "up" THEN @ + 1
                      ELSE IF Undoes(r) THEN @ - 1 ELSE @]
    /\ UNCHANGED <<registered, stored, torn, kept, runs, breaks, overlapped, seedVars>>

\* The run's own history, with the row added or taken out, replaces the table.
Recorded(r) ==
    LET id == Coming(r)
    IN  IF runner[r].direction = "up"
        THEN runner[r].history \cup {id} ELSE runner[r].history \ {id}

Record(r) ==
    /\ runner[r].at = "record"
    /\ stored' = Recorded(r)
    /\ runner' = [runner EXCEPT ![r].at = "next", ![r].history = Recorded(r),
                                ![r].todo = @ \ {Coming(r)}]
    /\ kept' = IF runner[r].direction = "down" /\ ~Undoes(r) THEN kept \cup {Coming(r)} ELSE kept
    /\ UNCHANGED <<registered, effect, torn, runs, breaks, overlapped, seedVars>>

EndRun(r) ==
    /\ runner[r].at = "next" /\ runner[r].todo = {}
    /\ runner' = [runner EXCEPT ![r] = Idle]
    /\ UNCHANGED <<registered, stored, effect, torn, kept, runs, breaks, overlapped, seedVars>>

\* The migration a run has begun and not recorded yet.
Current(r) == IF runner[r].at \in {"queued", "record"} THEN {Coming(r)} ELSE {}

\* A migration, its queue or the write of the history throws, or the process
\* ends: whatever has been done stays.
BreakRun(r) ==
    /\ runner[r] # Idle /\ breaks < MaxBreaks
    /\ breaks' = breaks + 1
    /\ torn' = torn \cup Current(r)
    /\ runner' = [runner EXCEPT ![r] = Idle]
    /\ UNCHANGED <<registered, stored, effect, kept, runs, overlapped, seedVars>>

-----------------------------------------------------------------------------
(* Seeders.                                                                *)

NoVisit == [stack |-> <<>>, visited |-> {}, ordered |-> <<>>, at |-> "visit"]
Visiting == Range(visit.stack)

\* Mutant: a dependency that is being visited counts as visited.
UnvisitedNorVisiting(s) == (seeders[s] \cap selected) \ (visit.visited \cup Visiting)

\* Mutant: seeders that the options leave out are visited as well.
UnvisitedOfAny(s) == seeders[s] \ visit.visited

\* The dependencies of a seeder that are selected and not visited.
Unvisited(s) == (seeders[s] \cap selected) \ visit.visited

\* filtered.forEach(visit), or a visit of a dependency of the one on top.
Visit(s) ==
    /\ visit.at = "visit"
    /\ IF visit.stack = <<>> THEN s \in selected \ visit.visited ELSE s \in Unvisited(Last(visit.stack))
    /\ visit' = IF s \in Visiting
                THEN [visit EXCEPT !.at = "circular"]
                ELSE [visit EXCEPT !.stack = Append(@, s)]
    /\ UNCHANGED <<migrationVars, seeders, selected, planted>>

Leave ==
    /\ visit.stack # <<>> /\ visit.at = "visit"
    /\ Unvisited(Last(visit.stack)) = {}
    /\ visit' = [visit EXCEPT !.stack = Front(@), !.visited = @ \cup {Last(visit.stack)},
                              !.ordered = Append(@, Last(visit.stack))]
    /\ UNCHANGED <<migrationVars, seeders, selected, planted>>

Ordered ==
    /\ visit.at = "visit" /\ visit.stack = <<>> /\ selected \subseteq visit.visited
    /\ visit' = [visit EXCEPT !.at = "plant"]
    /\ UNCHANGED <<migrationVars, seeders, selected, planted>>

\* The next handler: truncates, inserts, queries, in a transaction if it is
\* transactional.  One that throws, or a transaction that cannot be begun or
\* committed, ends the run.
Plant(well) ==
    /\ visit.at = "plant" /\ visit.ordered # <<>>
    /\ planted' = [planted EXCEPT ![Head(visit.ordered)] = IF well THEN "whole" ELSE "failed"]
    /\ visit' = IF well THEN [visit EXCEPT !.ordered = Tail(@)] ELSE [visit EXCEPT !.at = "threw"]
    /\ UNCHANGED <<migrationVars, seeders, selected>>

-----------------------------------------------------------------------------

MigrationsInit ==
    /\ registered \in {ids \in SUBSET MigrationIds : Cardinality(MigrationIds \ ids) <= 1}
    /\ stored = {}
    /\ effect = [id \in MigrationIds |-> 0]
    /\ torn = {} /\ kept = {}
    /\ runner = [r \in Runners |-> Idle]
    /\ runs = 0 /\ breaks = 0 /\ overlapped = FALSE

SeedsInit ==
    /\ seeders \in SeederGraphs
    /\ selected \in SUBSET DOMAIN seeders
    /\ visit = NoVisit
    /\ planted = [s \in DOMAIN seeders |-> "none"]

MigrationsNext ==
    \/ \E id \in MigrationIds : Register(id)
    \/ \E r \in Runners :
          \/ \E direction \in {"up", "down"} : StartRun(r, direction)
          \/ Migrate(r) \/ ExecuteQueue(r) \/ Record(r) \/ EndRun(r) \/ BreakRun(r)

SeedsNext ==
    \/ \E s \in DOMAIN seeders : Visit(s)
    \/ Leave \/ Ordered
    \/ \E well \in BOOLEAN : Plant(well)

-----------------------------------------------------------------------------
(* Properties.                                                             *)

\* Every variable holds a value of its kind.
TypeOK ==
    /\ registered \subseteq MigrationIds /\ stored \subseteq registered
    /\ effect \in [MigrationIds -> Int]
    /\ torn \subseteq registered /\ kept \subseteq registered \cap Irreversible
    /\ \A r \in Runners : runner[r].at \in {"idle", "next", "queued", "record"}
    /\ selected \subseteq DOMAIN seeders
    /\ visit.at \in {"visit", "circular", "plant", "threw"}
    /\ Range(visit.stack) \cup visit.visited \subseteq selected
    /\ planted \in [DOMAIN seeders -> {"none", "failed", "whole"}]

\* The history tells what the database has: a migration is recorded exactly if
\* its up has run and its down not since, once, whatever ups and downs came
\* before and whenever a migration of a lesser id was added, and a run that
\* ends has recorded all that is registered, or nothing.  One without a down
\* that a run down has taken from the history is in the database still, and is
\* run once more by each run up that follows.  A run that is cut short leaves
\* this untrue of the one migration it was at, and only runners that overlap,
\* which overwrite each other's rows, of any other (MigrationRunner.run, which
\* reads the history once and calls migration.down?.()).
HistoryTells ==
    ~overlapped =>
       /\ \A id \in MigrationIds \ (torn \cup UNION {Current(r) : r \in Runners}) :
             LET rows == IF id \in stored THEN 1 ELSE 0
             IN  IF id \in kept THEN effect[id] > rows ELSE effect[id] = rows
       /\ \A r \in Runners :
             runner[r].at = "next" /\ runner[r].todo = {} =>
                stored = (IF runner[r].direction = "up" THEN registered ELSE {})

\* A set of selected seeders each of which depends on another of the set.
Circular(s) == s # {} /\ \A a \in s : seeders[a] \cap s # {}

\* A seeder runs once, after all it depends on among the selected have run
\* whole, and a run refuses a circular dependency exactly when there is one,
\* before any seeder has run; dependencies that the options leave out are
\* neither run nor waited for (resolveSeedExecutionOrder and SeedRunner.run).
SeedsInOrder ==
    /\ \A s \in DOMAIN seeders :
          planted[s] # "none" => \A d \in seeders[s] \cap selected : planted[d] = "whole"
    /\ visit.at = "circular" => \E s \in SUBSET selected : Circular(s)
    /\ visit.at \in {"plant", "threw"} =>
          /\ ~\E s \in SUBSET selected : Circular(s)
          /\ Range(visit.ordered) \cup {s \in selected : planted[s] = "whole"} = selected
          /\ \A i \in DOMAIN visit.ordered : planted[visit.ordered[i]] # "whole"
=============================================================================
