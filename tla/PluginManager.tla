--------------------------- MODULE PluginManager ---------------------------
(***************************************************************************)
(* PluginManager (plugins/src/plugin-manager.ts): bootstrap and shutdown   *)
(* run the hooks of the registered plugins one after the other, and wait   *)
(* for each.                                                               *)
(***************************************************************************)
EXTENDS Naturals, SequencesExt

CONSTANTS Plugins,        \* names
          MaxRegistered,  \* bound: calls of register
          PluginCallers,  \* calls of bootstrap and shutdown that may overlap
          MaxPluginCalls

PluginAssumption == {MaxRegistered, MaxPluginCalls} \subseteq Nat

VARIABLES registrations, \* names, in their order
          instances,     \* the Map: [name, id], in its order
          initialized,
          task,          \* per caller: where its bootstrap or shutdown is
          hooks,         \* history, per instance ever made: the hooks it has run
          pluginCalls,
          overlapped,    \* history: two calls ran at the same time
          failed         \* history: a hook threw, or a plugin was not compatible

pluginVars == <<registrations, instances, initialized, task, hooks, pluginCalls, overlapped, failed>>

NoTask == [at |-> "none", i |-> 0, id |-> 0, entries |-> <<>>]

RegisterPlugin(p) ==
    /\ Len(registrations) < MaxRegistered
    /\ registrations' = Append(registrations, p)
    /\ UNCHANGED <<instances, initialized, task, hooks, pluginCalls, overlapped, failed>>

\* Mutant: bootstrap does not ask whether it has run.
NeededAlways == TRUE

Needed == ~initialized

\* The step of a caller's task at the place it has reached.
At(c, at, i) == [task EXCEPT ![c].at = at, ![c].i = i]
Looping(i) == IF i <= Len(registrations) THEN "register" ELSE "ready"

StartCall(c) ==
    /\ task[c].at = "none" /\ pluginCalls < MaxPluginCalls
    /\ pluginCalls' = pluginCalls + 1
    /\ overlapped' = (overlapped \/ \E d \in PluginCallers : task[d].at # "none")
    /\ UNCHANGED <<registrations, instances, initialized, hooks, failed>>

Bootstrap(c) ==
    /\ Needed
    /\ StartCall(c)
    /\ task' = At(c, Looping(1), 1)

Shutdown(c) ==
    /\ StartCall(c)
    /\ task' = [task EXCEPT ![c] = [NoTask EXCEPT !.at = "shutdown", !.i = 1, !.entries = instances]]

\* A new instance, and its onRegister.
OnRegister(c) ==
    /\ task[c].at = "register"
    /\ hooks' = Append(hooks, <<"register">>)
    /\ task' = [task EXCEPT ![c].at = "init", ![c].id = Len(hooks')]
    /\ UNCHANGED <<registrations, instances, initialized, pluginCalls, overlapped, failed>>

\* Where the map has the instance of a name: at one place, or nowhere yet.
Places(name) == {place \in DOMAIN instances : instances[place].name = name}

\* onInit, after which the instance is in the map, at the place of one of its name.
OnInit(c) ==
    LET entry == [name |-> registrations[task[c].i], id |-> task[c].id]
        places == Places(entry.name)
    IN /\ task[c].at = "init"
       /\ hooks' = [hooks EXCEPT ![entry.id] = Append(@, "init")]
       /\ instances' = IF places = {} THEN Append(instances, entry)
                       ELSE [instances EXCEPT ![CHOOSE place \in places : TRUE] = entry]
       /\ task' = At(c, Looping(task[c].i + 1), IF task[c].i < Len(registrations) THEN task[c].i + 1 ELSE 1)
       /\ UNCHANGED <<registrations, initialized, pluginCalls, overlapped, failed>>

OnReady(c) ==
    /\ task[c].at = "ready" /\ task[c].i <= Len(instances)
    /\ hooks' = [hooks EXCEPT ![instances[task[c].i].id] = Append(@, "ready")]
    /\ task' = At(c, "ready", task[c].i + 1)
    /\ UNCHANGED <<registrations, instances, initialized, pluginCalls, overlapped, failed>>

OnShutdown(c) ==
    /\ task[c].at = "shutdown" /\ task[c].i <= Len(task[c].entries)
    /\ hooks' = [hooks EXCEPT ![task[c].entries[task[c].i].id] = Append(@, "shutdown")]
    /\ task' = At(c, "shutdown", task[c].i + 1)
    /\ UNCHANGED <<registrations, instances, initialized, pluginCalls, overlapped, failed>>

BootstrapEnds(c) ==
    /\ task[c].at = "ready" /\ task[c].i > Len(instances)
    /\ initialized' = TRUE
    /\ task' = [task EXCEPT ![c] = NoTask]
    /\ UNCHANGED <<registrations, instances, hooks, pluginCalls, overlapped, failed>>

ShutdownEnds(c) ==
    /\ task[c].at = "shutdown" /\ task[c].i > Len(task[c].entries)
    /\ instances' = <<>> /\ initialized' = FALSE
    /\ task' = [task EXCEPT ![c] = NoTask]
    /\ UNCHANGED <<registrations, hooks, pluginCalls, overlapped, failed>>

\* A hook rejects, or ensureCompatibility throws: what was done stays.  Bound:
\* once.
HookThrows(c) ==
    /\ ~failed
    /\ CASE task[c].at \in {"register", "init"} -> TRUE
         [] task[c].at = "ready" -> task[c].i <= Len(instances)
         [] task[c].at = "shutdown" -> task[c].i <= Len(task[c].entries)
         [] OTHER -> FALSE
    /\ failed' = TRUE
    /\ task' = [task EXCEPT ![c] = NoTask]
    /\ UNCHANGED <<registrations, instances, initialized, hooks, pluginCalls, overlapped>>

PluginInit ==
    /\ registrations = <<>> /\ instances = <<>> /\ initialized = FALSE
    /\ task = [c \in PluginCallers |-> NoTask] /\ hooks = <<>> /\ pluginCalls = 0
    /\ overlapped = FALSE /\ failed = FALSE

PluginNext ==
    \/ \E p \in Plugins : RegisterPlugin(p)
    \/ \E c \in PluginCallers :
          \/ Bootstrap(c) \/ Shutdown(c) \/ HookThrows(c)
          \/ OnRegister(c) \/ OnInit(c) \/ OnReady(c) \/ OnShutdown(c)
          \/ BootstrapEnds(c) \/ ShutdownEnds(c)

PluginSpec == PluginInit /\ [][PluginNext]_pluginVars

\* Every variable holds a value of its kind.
TypeOK ==
    /\ registrations \in BoundedSeq(Plugins, MaxRegistered)
    /\ \A e \in Range(instances) : e.name \in Plugins /\ e.id \in DOMAIN hooks
    /\ \A c \in PluginCallers : task[c].at \in {"none", "register", "init", "ready", "shutdown"}
    /\ {initialized, overlapped, failed} \subseteq BOOLEAN
    /\ pluginCalls \in 0..MaxPluginCalls

Life == <<"register", "init", "ready", "shutdown">>
Replaced(id) == \A e \in Range(instances) : e.id # id

\* Where the calls of bootstrap and shutdown do not overlap, each instance of a
\* plugin runs each hook once and in order; and once everything is shut down
\* each that was initialised has been told so, but those another plugin of the
\* same name has replaced, which never hear of anything again.  A hook that
\* threw may be run again, and its bootstrap's instances are forgotten; but
\* initialised means ready all the same.
PluginsLive ==
    ~overlapped =>
        /\ initialized => \A e \in Range(instances) : "ready" \in Range(hooks[e.id])
        /\ ~failed => \A id \in DOMAIN hooks : IsPrefix(hooks[id], Life)
        /\ ~failed /\ (\A c \in PluginCallers : task[c].at = "none") =>
               \A id \in DOMAIN hooks :
                   Replaced(id) => hooks[id] = Life \/ Len(hooks[id]) = 2
=============================================================================
