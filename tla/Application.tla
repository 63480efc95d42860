---------------------------- MODULE Application ----------------------------
(***************************************************************************)
(* createApplicationContext (core, application/module.ts), the dependency  *)
(* injection container it fills and the routes it compiles.                *)
(*                                                                         *)
(* Decorators have registered modules, providers, controllers, routes and  *)
(* the enhancers (guards, validations, security) of their handlers before  *)
(* any of this runs.  The registry of enhancers is global and compiling    *)
(* routes takes them out of it.  A container makes an instance when it is  *)
(* first asked for it, with the instances its dependencies resolve to in   *)
(* the same container: resolve calls itself, which is a stack of frames    *)
(* here, and a constructor or factory that throws unwinds all of it.       *)
(***************************************************************************)
EXTENDS Naturals, SequencesExt

CONSTANTS Programs,    \* what the decorators may have registered, see Program
          Requests,    \* request scopes, of the context created last
          MaxContexts, \* calls of createApplicationContext
          Root         \* the container of the context itself

(* A program: root, the root module; imports[m] and controllers[m],         *)
(* sequences; providers[m], a sequence of providers, the controllers' own   *)
(* last; handlers[c], the handler of each route of a controller;            *)
(* declared[<<c, h>>], the enhancers of a handler; plain, the classes among *)
(* the controllers that lack @Controller.                                   *)
(* A provider: token, scope, deps (a sequence of tokens), and injectable,   *)
(* whether every parameter of its constructor has a token.  overrides are   *)
(* what a request may register, asked the tokens the program resolves.      *)

AppAssumption ==
    /\ Root \notin Requests /\ MaxContexts \in Nat
    /\ \A p \in Programs :
          LET modules == DOMAIN p.providers
              given   == p.overrides \cup UNION {Range(p.providers[m]) : m \in modules}
          IN  /\ p.root \in modules
              /\ p.imports \in [modules -> Seq(modules)]
              /\ p.providers \in [modules -> Seq(given)]
              /\ \A x \in given : /\ x.scope \in {"singleton", "request", "transient"}
                                  /\ x.deps \in Seq(Range(x.deps))
              /\ \A r \in DOMAIN p.declared :
                    /\ r = <<r[1], r[2]>>
                    /\ p.handlers[r[1]] \in Seq(Range(p.handlers[r[1]]))

VARIABLES program,
          enhancers,  \* the registry: what is left for each <<controller, handler>>
          collecting, \* createApplicationContext: modules to visit, and those visited
          contexts,   \* per context, its controllers: the enhancers of each route
          providers,  \* the container of the last context: token -> provider
          extras,     \* what each request registered on its own
          caches,     \* instances: of singletons under Root, of each request under it
          stack       \* resolve calls under way, the innermost last

appVars == <<program, enhancers, collecting, contexts, providers, extras, caches, stack>>

NotCollecting == [todo |-> <<>>, order |-> <<>>, on |-> FALSE]
NoInstances   == [c \in Requests \cup {Root} |-> {}]

-----------------------------------------------------------------------------
(* createApplicationContext.                                               *)

Create ==
    /\ ~collecting.on /\ stack = <<>> /\ Len(contexts) < MaxContexts
    /\ collecting' = [todo |-> <<program.root>>, order |-> <<>>, on |-> TRUE]
    /\ UNCHANGED <<program, enhancers, contexts, providers, extras, caches, stack>>

\* collectManifests: a module before its imports, each once.
CollectModule ==
    /\ collecting.on /\ collecting.todo # <<>>
    /\ LET m == Head(collecting.todo) IN
          collecting' = IF m \in Range(collecting.order)
                        THEN [collecting EXCEPT !.todo = Tail(@)]
                        ELSE [collecting EXCEPT !.todo = program.imports[m] \o Tail(@),
                                                !.order = Append(@, m)]
    /\ UNCHANGED <<program, enhancers, contexts, providers, extras, caches, stack>>

\* collectProviders lists the modules from the one visited last to the root, and
\* dedupeProviders keeps the last provider of a token: the last there is in the
\* first of the visited modules that has one.
Provided(order) == UNION {Range(program.providers[order[i]]) : i \in DOMAIN order}

With(list, t) == {j \in DOMAIN list : list[j].token = t}

Deduped(order) ==
    [t \in {p.token : p \in Provided(order)} |->
        LET i    == Min({i \in DOMAIN order : With(program.providers[order[i]], t) # {}})
            list == program.providers[order[i]]
        IN  list[Max(With(list, t))]]

\* collectControllers: each place of a controller in a module's list, in the order
\* of the visits; routes compile up to a controller that lacks @Controller, which
\* throws when its turn comes.
Slots(order) == UNION {{i} \X DOMAIN program.controllers[order[i]] : i \in DOMAIN order}

At(order, slot) == program.controllers[order[slot[1]]][slot[2]]

UpTo(order, slot) ==
    {s \in Slots(order) : s[1] < slot[1] \/ (s[1] = slot[1] /\ s[2] <= slot[2])}

Compilable(order) ==
    {At(order, slot) : slot \in
        {slot \in Slots(order) : \A s \in UpTo(order, slot) : At(order, s) \notin program.plain}}

\* compileControllerRoutes: a route takes the enhancers of its handler out of
\* the registry, so a second route of that handler finds none, nor does a
\* second context.
Compiled(order) ==
    [c \in Compilable(order) |->
        [j \in DOMAIN program.handlers[c] |->
            IF \E i \in 1..(j - 1) : program.handlers[c][i] = program.handlers[c][j]
            THEN {} ELSE enhancers[<<c, program.handlers[c][j]>>]]]

\* Mutant: reading the enhancers of a route leaves them in the registry.
ConsumedNone(order) == enhancers

Consumed(order) ==
    [r \in DOMAIN enhancers |->
        IF r[1] \in Compilable(order) /\ r[2] \in Range(program.handlers[r[1]])
        THEN {} ELSE enhancers[r]]

\* The container is filled and the routes are compiled; a provider without its
\* tokens throws before the first route, a controller half way.
EndCreate ==
    /\ collecting.on /\ collecting.todo = <<>>
    /\ LET order == collecting.order
       IN  IF \E p \in Provided(order) : ~p.injectable
           THEN /\ contexts' = Append(contexts, <<>>)
                /\ UNCHANGED <<enhancers, providers, extras, caches>>
           ELSE /\ enhancers' = Consumed(order)
                /\ contexts' = Append(contexts, Compiled(order))
                /\ IF \A slot \in Slots(order) : At(order, slot) \notin program.plain
                   THEN /\ providers' = Deduped(order)
                        /\ extras' = [r \in Requests |-> {}]
                        /\ caches' = NoInstances
                   ELSE UNCHANGED <<providers, extras, caches>>
    /\ collecting' = NotCollecting
    /\ UNCHANGED <<program, stack>>

-----------------------------------------------------------------------------
(* Container.                                                              *)

\* beginRequest, with a provider of the request's own.
BeginRequest(r, p) ==
    /\ ~collecting.on /\ stack = <<>> /\ DOMAIN providers # {}
    /\ extras[r] = {} /\ caches[r] = {}
    /\ extras' = [extras EXCEPT ![r] = {p}]
    /\ UNCHANGED <<program, enhancers, collecting, contexts, providers, caches, stack>>

\* findProvider: the request's registry before its parent's.
Found(c, t) ==
    LET own == IF c = Root THEN {} ELSE {p \in extras[c] : p.token = t}
    IN  IF own # {} THEN own ELSE IF t \in DOMAIN providers THEN {providers[t]} ELSE {}

\* Mutant: a request shares its parent's cache for what is request scoped too.
CacheOfParent(p, c) == Root

\* The cache that keeps what a provider makes in a container.
CacheOf(p, c) == IF p.scope = "singleton" THEN Root ELSE c

Cached(p, c) ==
    IF p.scope = "transient" THEN {} ELSE {x \in caches[CacheOf(p, c)] : x.token = p.token}

Frame(p, c) == [provider |-> p, container |-> c, left |-> p.deps, holds |-> {}]

\* History, what an instance reaches: the requests whose request-scoped
\* instances it holds, directly (by is empty) or by the singleton that was made
\* in that request.
Direct(r) == [request |-> r, by |-> {}]

Through(h, x) == [request |-> h.request, by |-> IF h.by = {} THEN {x.token} ELSE h.by]

\* What whoever is given x holds by it.
Holding(x) ==
    IF x.scope = "singleton" THEN {Through(h, x) : h \in x.holds}
    ELSE x.holds \cup (IF x.scope = "request" THEN {Direct(x.home)} ELSE {})

\* x is given to the innermost of the calls s, or to the caller of resolve.
Give(s, x) ==
    IF s = <<>> THEN <<>>
    ELSE [s EXCEPT ![Len(s)].left = Tail(@), ![Len(s)].holds = @ \cup Holding(x)]

\* resolve(t) in container c: an instance there is, a new frame, or an error,
\* which unwinds every call: no provider, a request scope outside a request,
\* or a token that is being resolved already, which would recur for ever.
Resolve(c, t) ==
    stack' = IF Found(c, t) = {} THEN <<>>
             ELSE LET p == CHOOSE p \in Found(c, t) : TRUE IN
                  IF p.scope = "request" /\ c = Root THEN <<>>
                  ELSE IF Cached(p, c) # {} THEN Give(stack, CHOOSE x \in Cached(p, c) : TRUE)
                  ELSE IF \E i \in DOMAIN stack : stack[i].provider = p THEN <<>>
                  ELSE Append(stack, Frame(p, c))

Ask(c, t) ==
    /\ ~collecting.on /\ stack = <<>> /\ DOMAIN providers # {}
    /\ Resolve(c, t)
    /\ UNCHANGED <<program, enhancers, collecting, contexts, providers, extras, caches>>

\* A dependency resolves in the container that resolves what depends on it.
ResolveDependency ==
    /\ stack # <<>> /\ Last(stack).left # <<>>
    /\ Resolve(Last(stack).container, Head(Last(stack).left))
    /\ UNCHANGED <<program, enhancers, collecting, contexts, providers, extras, caches>>

Construct ==
    /\ stack # <<>> /\ Last(stack).left = <<>>
    /\ LET f == Last(stack)
           x == [token |-> f.provider.token, scope |-> f.provider.scope,
                 home |-> f.container, holds |-> f.holds]
       IN  /\ stack' = Give(Front(stack), x)
           /\ caches' = IF x.scope = "transient" THEN caches
                        ELSE [caches EXCEPT ![CacheOf(f.provider, f.container)] = @ \cup {x}]
    /\ UNCHANGED <<program, enhancers, collecting, contexts, providers, extras>>

\* A constructor or factory throws: what was made on the way is kept.
ConstructThrows ==
    /\ stack # <<>> /\ Last(stack).left = <<>>
    /\ stack' = <<>>
    /\ UNCHANGED <<program, enhancers, collecting, contexts, providers, extras, caches>>

-----------------------------------------------------------------------------

AppInit ==
    /\ program \in Programs
    /\ enhancers = program.declared
    /\ collecting = NotCollecting /\ contexts = <<>> /\ stack = <<>>
    /\ providers = <<>>
    /\ extras = [r \in Requests |-> {}]
    /\ caches = NoInstances

AppNext ==
    \/ Create \/ CollectModule \/ EndCreate
    \/ \E r \in Requests, p \in program.overrides : BeginRequest(r, p)
    \/ \E c \in Requests \cup {Root}, t \in program.asked : Ask(c, t)
    \/ ResolveDependency \/ Construct \/ ConstructThrows

AppSpec == AppInit /\ [][AppNext]_appVars

-----------------------------------------------------------------------------
(* Properties.                                                             *)

\* Every variable holds a value of its kind.
TypeOK ==
    /\ program \in Programs
    /\ \A r \in DOMAIN enhancers : enhancers[r] \in {{}, program.declared[r]}
    /\ collecting.on \in BOOLEAN /\ Len(contexts) <= MaxContexts
    /\ \A c \in DOMAIN caches : \A x \in caches[c] :
          /\ x.scope \in {"singleton", "request"}
          /\ \A h \in x.holds : h.request \in Requests
          /\ x.home \in DOMAIN caches

\* The enhancers of a handler guard one route: of all the routes of all the
\* contexts that were made of its controller, a creation that failed half way
\* included, one has them and the others have none, until then they are in the
\* registry (consumeRouteEnhancers, which compileControllerRoutes calls for
\* each route).
Taken(r) ==
    {at \in UNION {{k} \X DOMAIN contexts[k][r[1]] :
                      k \in {k \in DOMAIN contexts : r[1] \in DOMAIN contexts[k]}} :
        /\ program.handlers[r[1]][at[2]] = r[2]
        /\ contexts[at[1]][r[1]][at[2]] = program.declared[r]}

EnhancersTakenOnce ==
    \A r \in {r \in DOMAIN enhancers : program.declared[r] # {}} :
       /\ \A k, l \in Taken(r) : k = l
       /\ enhancers[r] = {} <=> Taken(r) # {}

\* What was made in a container holds directly the request-scoped instances of
\* that request alone, and those of another one by a singleton that was made there.
Owned(holds, home) ==
    \A h \in holds :
       \/ h = Direct(home)
       \/ \E y \in caches[Root] : /\ h.by = {y.token} /\ y.home = h.request
                                 /\ Direct(y.home) \in y.holds

\* There is one instance of a singleton in a context and one of a request
\* scoped provider in a request, in whatever order and from whichever
\* container they are asked for and whatever throws on the way; what is kept
\* for a request was made in it.  No chain of dependencies leads from it, or
\* from a singleton, to what another request made, but by a singleton that was
\* first made in that other request: that one keeps its request's instances for
\* as long as the context lasts, and hands them to every later request
\* (Container.resolve, getOrCreate and instantiate).
ScopesHold ==
    \A c \in DOMAIN caches :
       /\ \A x, y \in caches[c] : x.token = y.token => x = y
       /\ \A x \in caches[c] :
             /\ x.scope = (IF c = Root THEN "singleton" ELSE "request")
             /\ c # Root => x.home = c
             /\ Owned(x.holds, x.home)
=============================================================================
