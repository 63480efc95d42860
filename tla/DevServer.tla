----------------------------- MODULE DevServer -----------------------------
(***************************************************************************)
(* The development server (dev-server/src/index.ts): a change in the       *)
(* watched files builds, lints and restarts the program; changes meanwhile *)
(* queue one more run.                                                     *)
(***************************************************************************)
EXTENDS Naturals

CONSTANTS MaxSaves,  \* changes of the watched files
          MaxExits   \* programs that end by themselves

DevServerAssumption == MaxSaves \in Nat \ {0} /\ MaxExits \in Nat

VARIABLES source,  \* the version of the files
          built,   \* the version the build has read
          loop,    \* restarting: where the pipeline is, and "crashed"
          changeQueued,
          server,  \* the process: its version, and whether it runs
          notices, \* events of the watcher that are still to be delivered
          exits

devVars == <<source, built, loop, changeQueued, server, notices, exits>>

Save ==
    /\ source < MaxSaves /\ loop # "crashed"
    /\ source' = source + 1 /\ notices' = notices + 1
    /\ UNCHANGED <<built, loop, changeQueued, server, exits>>

\* Mutant: a change during a run is taken for part of it.
QueuedNever == FALSE

Queued == TRUE

\* The watcher's callback: runPipeline.
Notice ==
    /\ notices > 0 /\ loop # "crashed"
    /\ notices' = notices - 1
    /\ IF loop = "idle" THEN loop' = "build" /\ UNCHANGED changeQueued
       ELSE changeQueued' = Queued /\ UNCHANGED loop
    /\ UNCHANGED <<source, built, server, exits>>

\* The build command reads the files.
Build ==
    /\ loop = "build"
    /\ built' = source /\ loop' = "lint"
    /\ UNCHANGED <<source, changeQueued, server, notices, exits>>

Lint ==
    /\ loop = "lint"
    /\ loop' = IF server.version = 0 THEN "spawn" ELSE "stop"
    /\ UNCHANGED <<source, built, changeQueued, server, notices, exits>>

\* A build or lint that fails: nobody awaits runPipeline, and node ends a
\* process with a rejection nobody handles.
CommandFails ==
    /\ loop \in {"build", "lint"}
    /\ loop' = "crashed"
    /\ UNCHANGED <<source, built, changeQueued, server, notices, exits>>

\* stop registers for the close event, then kills: a process that has ended
\* before emits no other one.
StopServer ==
    /\ loop = "stop" /\ server.runs
    /\ server' = [server EXCEPT !.runs = FALSE]
    /\ loop' = "spawn"
    /\ UNCHANGED <<source, built, changeQueued, notices, exits>>

SpawnServer ==
    /\ loop = "spawn"
    /\ server' = [version |-> built, runs |-> TRUE]
    /\ loop' = IF changeQueued THEN "build" ELSE "idle"
    /\ changeQueued' = FALSE
    /\ UNCHANGED <<source, built, notices, exits>>

ServerExits ==
    /\ server.runs /\ exits < MaxExits
    /\ exits' = exits + 1
    /\ server' = [server EXCEPT !.runs = FALSE]
    /\ UNCHANGED <<source, built, loop, changeQueued, notices>>

DevInit ==
    /\ source = 1 /\ built = 0 /\ loop = "build" /\ changeQueued = FALSE
    /\ server = [version |-> 0, runs |-> FALSE] /\ notices = 0 /\ exits = 0

DevNext == Save \/ Notice \/ Build \/ Lint \/ CommandFails \/ StopServer \/ SpawnServer \/ ServerExits

DevSpec == DevInit /\ [][DevNext]_devVars

\* Every variable holds a value of its kind.
TypeOK ==
    /\ {source, built, server.version} \subseteq 0..MaxSaves /\ exits \in 0..MaxExits
    /\ loop \in {"idle", "build", "lint", "stop", "spawn", "crashed"}
    /\ {changeQueued, server.runs} \subseteq BOOLEAN /\ notices \in 0..MaxSaves

\* When the dev server has nothing left to do, the program that was started
\* last is built from the files as they are: no change is forgotten, whenever
\* it came.  Nothing left to do includes the wait for the end of a program that
\* ended by itself, where later changes are queued and never built
\* (runPipeline, restartServer, spawnNode).
ChangesAreServed ==
    /\ loop = "idle" /\ notices = 0 => server.version = source
    /\ loop = "stop" /\ server.version < source => changeQueued \/ notices > 0 \/ built = source
=============================================================================
