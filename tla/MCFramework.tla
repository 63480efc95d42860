---------------------------- MODULE MCFramework ----------------------------
(***************************************************************************)
(* Small instances for the components of FrameworkSuite.                   *)
(***************************************************************************)
EXTENDS FrameworkSuite, TLC

\* One key has every tag, the others have one.
TagsOfKeys ==
    LET all == CHOOSE k \in CacheKeys : TRUE
        one == CHOOSE t \in Tags : TRUE
    IN  [k \in CacheKeys |-> IF k = all THEN Tags ELSE {one}]

\* Three modules that import one another.  A controller is in two of them, and
\* one of its handlers has two routes; the providers differ in their scopes.
P(token, scope, deps) == [token |-> token, scope |-> scope, deps |-> deps, injectable |-> TRUE]
Providers(home, repo, job) ==
    [app    |-> <<P("repo", repo, <<"user", "config">>), P("Home", home, <<"repo", "job">>)>>,
     users  |-> <<P("user", "request", <<"config">>), P("repo", "transient", <<>>)>>,
     shared |-> <<P("config", "singleton", <<>>), P("job", job, <<"user">>),
                  P("loop", "singleton", <<"Home">>)>>]
Program(given, plain) ==
    [root |-> "app",
     imports |-> [app |-> <<"users", "shared">>, users |-> <<"shared">>, shared |-> <<"app">>],
     controllers |-> [app |-> <<"Home">>, users |-> <<"Users", "Home">>, shared |-> <<>>],
     handlers |-> [Home |-> <<"index", "index", "about">>, Users |-> <<"list">>],
     declared |-> (<<"Home", "index">> :> {"guard"}) @@ (<<"Home", "about">> :> {})
                      @@ (<<"Users", "list">> :> {"guard"}),
     plain |-> plain,
     overrides |-> {P("user", "request", <<>>), P("config", "singleton", <<>>)},
     asked |-> {"Home", "repo", "user", "job", "none"},
     providers |-> given]
Scopes == {"singleton", "request", "transient"}
Common == Providers("singleton", "singleton", "transient")
SomePrograms ==
    {Program(Providers(home, repo, "transient"), {}) : home \in Scopes, repo \in Scopes}
    \cup {Program(Providers(home, "request", "request"), {}) : home \in Scopes}
    \cup {Program(Common, {"Users"}),
          Program([Common EXCEPT !.shared[1].injectable = FALSE], {}),
          Program([Common EXCEPT !.shared[1].deps = <<"Home">>], {})}

\* Names of one word; with a word of one letter or one that begins with a digit
\* after a dash; and with two dashes in a row.
Cmd(kind, name, fields, pack, force) ==
    [kind |-> kind, name |-> name, fields |-> fields, pack |-> pack, force |-> force]
Field(type) == <<[property |-> "f", type |-> type]>>
SomeCommands ==
    {Cmd("new", <<>>, <<>>, "p1", force) : force \in BOOLEAN}
    \cup {Cmd("modular", <<"w">>, <<>>, "none", force) : force \in BOOLEAN}
    \cup {Cmd(kind, <<"w">>, <<>>, "none", FALSE) :
             kind \in {"module", "service", "controller", "microservice"}}
    \cup {Cmd("crud", <<"w">>, Field(type), "none", type = "number") : type \in {"string", "number", "date"}}
    \cup {Cmd("crud", name, Field("number"), "none", FALSE) :
             name \in {<<"a", "w">>, <<"w", "2">>, <<"w", "-", "w">>}}

\* The packs in the directory, the newest first.
PackOrder == <<"p2", "p1">>

Symmetry == Permutations(Requests)

=============================================================================
