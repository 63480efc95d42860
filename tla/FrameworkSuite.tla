--------------------------- MODULE FrameworkSuite ---------------------------
(***************************************************************************)
(* The caches and the parts of the framework around them, side by side:    *)
(* worker offloading, the application and its container, the plugin        *)
(* manager, the scaffolds of the command line and the dev server.  They    *)
(* do not call one another here, so the initial state chooses one, the     *)
(* focus, and only that one takes steps; the others stay in one initial    *)
(* state.                                                                  *)
(***************************************************************************)
EXTENDS SecondLevelCache, Sequences

CONSTANTS
    CacheKeys, CacheCallers, Tags, Tagged, KeysWithTtl, Decorated, MaxVersion,
    OffloadCalls,
    Programs, Requests, MaxContexts, Root,
    Plugins, MaxRegistered, PluginCallers, MaxPluginCalls,
    Commands, Joins, Joined, Blank, Packs, MaxCommands, MaxBreaks, MaxEdits, Nothing,
    MaxSaves, MaxExits

VARIABLES
    focus,
    version, entries, lookup, required, raced,
    worker, timer, events, promise, emitted,
    program, enhancers, collecting, contexts, providers, extras, caches, stack,
    registrations, instances, initialized, task, hooks, pluginCalls, overlapped, failed,
    disk, pinned, command, commands, breaks, edits, unfinished, mixed,
    source, built, loop, changeQueued, server, notices, exits

-----------------------------------------------------------------------------

Tagging  == INSTANCE TaggedCache WITH
               Keys <- CacheKeys, Callers <- CacheCallers, TagsOf <- Tagged,
               HasTtl <- KeysWithTtl, call <- lookup
Workers  == INSTANCE Offload
App      == INSTANCE Application
Manager  == INSTANCE PluginManager
Cli      == INSTANCE Scaffold
Dev      == INSTANCE DevServer

ASSUME FrameworkAssumption ==
    /\ Tagging!TaggedCacheAssumption /\ App!AppAssumption
    /\ Manager!PluginAssumption /\ Cli!ScaffoldAssumption /\ Dev!DevServerAssumption

-----------------------------------------------------------------------------

taggedVars  == <<version, entries, lookup, required, raced>>
offloadVars == <<worker, timer, events, promise, emitted>>
appVars     == <<program, enhancers, collecting, contexts, providers, extras, caches, stack>>
pluginVars  == <<registrations, instances, initialized, task, hooks, pluginCalls, overlapped, failed>>
cliVars     == <<disk, pinned, command, commands, breaks, edits, unfinished, mixed>>
devVars     == <<source, built, loop, changeQueued, server, notices, exits>>
SuiteVars   == <<focus, vars, taggedVars, offloadVars, appVars, pluginVars, cliVars, devVars>>

\* What a part that is not in focus starts from.
SomeBackend == CHOOSE b \in Backends : TRUE
SomeProgram == CHOOSE p \in Programs : TRUE

SuiteInit ==
    /\ focus \in {"second level", "tagged", "offload", "application", "plugins", "scaffold", "dev server"}
    /\ Init
    /\ focus # "second level" => backend = SomeBackend
    /\ Tagging!Init
    /\ Workers!OffloadInit
    /\ App!AppInit
    /\ focus # "application" => program = SomeProgram
    /\ Manager!PluginInit
    /\ Cli!ScaffoldInit
    /\ Dev!DevInit

Turn(name, others) == focus = name /\ UNCHANGED <<focus, others>>

SecondLevelSteps ==
    /\ Turn("second level", <<taggedVars, offloadVars, appVars, pluginVars, cliVars, devVars>>)
    /\ Next
TaggedSteps ==
    /\ Turn("tagged", <<vars, offloadVars, appVars, pluginVars, cliVars, devVars>>)
    /\ Tagging!Next
OffloadSteps ==
    /\ Turn("offload", <<vars, taggedVars, appVars, pluginVars, cliVars, devVars>>)
    /\ Workers!OffloadNext
ApplicationSteps ==
    /\ Turn("application", <<vars, taggedVars, offloadVars, pluginVars, cliVars, devVars>>)
    /\ App!AppNext
PluginSteps ==
    /\ Turn("plugins", <<vars, taggedVars, offloadVars, appVars, cliVars, devVars>>)
    /\ Manager!PluginNext
ScaffoldSteps ==
    /\ Turn("scaffold", <<vars, taggedVars, offloadVars, appVars, pluginVars, devVars>>)
    /\ Cli!ScaffoldNext
DevSteps ==
    /\ Turn("dev server", <<vars, taggedVars, offloadVars, appVars, pluginVars, cliVars>>)
    /\ Dev!DevNext

SuiteNext ==
    \/ SecondLevelSteps \/ TaggedSteps \/ OffloadSteps \/ ApplicationSteps
    \/ PluginSteps \/ ScaffoldSteps \/ DevSteps

SuiteSpec == SuiteInit /\ [][SuiteNext]_SuiteVars

-----------------------------------------------------------------------------
(* Properties.                                                             *)

\* The variables of the part in focus hold values of their kinds.
TypesOK ==
    /\ focus = "second level" => TypeOK
    /\ focus = "tagged" => Tagging!TypeOK
    /\ focus = "offload" => Workers!TypeOK
    /\ focus = "application" => App!TypeOK
    /\ focus = "plugins" => Manager!TypeOK
    /\ focus = "scaffold" => Cli!TypeOK
    /\ focus = "dev server" => Dev!TypeOK

\* A cached value is no older than the last invalidation of its tags, but where
\* that overlapped with the call that stored it (getOrSet of cache-manager.ts).
TaggedIsFresh == focus = "tagged" => Tagging!TaggedIsFresh

\* The routes of an application have the guards their handlers declare, but for
\* those that were created before (consumeRouteEnhancers of enhancers.ts).
EnhancersTakenOnce == focus = "application" => App!EnhancersTakenOnce

\* A singleton is made once, and what a request made is used by others only by
\* way of a singleton first made in it (resolve of container.ts).
ScopesHold == focus = "application" => App!ScopesHold

\* Each plugin in place has run its hooks once, and none was left half way
\* (bootstrap and shutdown of plugin-manager.ts).
PluginsLive == focus = "plugins" => Manager!PluginsLive

\* The files the command line writes import files that are there (the templates
\* of cli/src/index.ts).
ImportsResolve == focus = "scaffold" => Cli!ImportsResolve

\* A saved file is with the watcher, queued, being built or served; and what an
\* offloaded call's worker emits settles the call and stops its timer, unless
\* the timer fired first (restart of dev-server/src/index.ts, offload.ts).
NothingIsForgotten ==
    /\ focus = "dev server" => Dev!ChangesAreServed
    /\ focus = "offload" => Workers!OffloadSettles

=============================================================================
