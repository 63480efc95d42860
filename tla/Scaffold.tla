------------------------------ MODULE Scaffold ------------------------------
(***************************************************************************)
(* The commands of the CLI that write files: new, generate and crud        *)
(* (cli/src/index.ts).                                                     *)
(*                                                                         *)
(* A command computes the list of its files, and writes one after the      *)
(* other those that do not exist, or all of them with --force.  A template *)
(* is what a program can see of the file it makes: the names it offers and *)
(* the names it takes from the project's other files.  The process may be  *)
(* killed, or a write fail, at any point, and the user edits files, between *)
(* the commands and while one runs.                                        *)
(***************************************************************************)
EXTENDS Integers, SequencesExt

CONSTANTS Commands,    \* the commands given: [kind, name, fields, pack, force]
          Joins,       \* the words of one letter, and those that end in no letter or digit of a-z0-9
          Joined,      \* the words that begin with a digit, or with no letter of a-z
          Blank,       \* the empty word, where two dashes meet
          Packs,       \* the ocd-js packs in the directory new runs in
          MaxCommands, MaxBreaks, MaxEdits,
          Nothing

Kinds == {"new", "module", "service", "controller", "modular", "microservice", "crud"}

\* What new writes has no name of its own.
ScaffoldAssumption ==
    /\ {MaxCommands, MaxBreaks, MaxEdits} \subseteq Nat
    /\ Packs \in Seq(Range(Packs))
    /\ \A c \in Commands :
          /\ c = [kind |-> c.kind, name |-> c.name, fields |-> c.fields, pack |-> c.pack, force |-> c.force]
          /\ c.kind \in Kinds /\ c.name \in Seq(Range(c.name))
          /\ c.kind = "new" => c.name = <<>>

VARIABLES disk,     \* the files there are, by path: see Content
          pinned,   \* the pack package.json depends on, Nothing for the registry
          command,  \* the command that runs, or NoCommand
          commands, breaks, edits,
          unfinished, \* history: the commands that were broken off and not run again
          mixed       \* history: the names whose files are of different commands

scaffoldVars == <<disk, pinned, command, commands, breaks, edits, unfinished, mixed>>

-----------------------------------------------------------------------------
(* Names.  A name is a sequence of words; a file's stem is one of segments. *)

\* A segment is the words that stand in it, each at its place in the name.
toKebabCase(name) == [i \in DOMAIN name |-> [j \in {i} |-> name[j]]]

\* toKebabCase(toPascalCase(name)): the dashes go, and come back only between a
\* letter or digit of a-z0-9 and a capital of A-Z, so not after a word of Joins
\* nor before one of Joined.
KebabOfPascal(name) ==
    LET words == {i \in DOMAIN name : name[i] # Blank}
        next(i, j) == i < j /\ \A w \in words : ~(i < w /\ w < j)
        starts == {j \in words : \A i \in words :
                       next(i, j) => name[i] \notin Joins /\ name[j] \notin Joined}
        segment(i) == {j \in words : i <= j /\ \A s \in starts : ~(i < s /\ s <= j)}
    IN  [i \in starts |-> [j \in segment(i) |-> name[j]]]

\* The names whose dashes all come back.
KeepsDashes(name) ==
    /\ Blank \notin Range(name)
    /\ \A i \in DOMAIN name : i + 1 \in DOMAIN name => name[i] \notin Joins /\ name[i + 1] \notin Joined

File(place, stem, kind) == <<place, stem, kind>>

-----------------------------------------------------------------------------
(* Templates: n is the name they are made for, d the directory.            *)

Content(n, offers, takes) == [of |-> n, offers |-> offers, takes |-> takes, again |-> {}, state |-> "whole"]
Index(n, files) == [Content(n, {}, {}) EXCEPT !.again = files]
From(file, names) == {<<file, x>> : x \in names}

moduleTemplate(d, n, k) ==
    Content(n, {"Module"}, From(File(d, k, "controller"), {"Controller"}) \cup From(File(d, k, "service"), {"Service"}))
\* Mutant: the method the controller calls is not written.
ServiceForgets(n) == Content(n, {"Service"}, {})

serviceTemplate(n) == Content(n, {"Service", "findAll"}, {})
controllerTemplate(d, n, k) == Content(n, {"Controller"}, From(File(d, k, "service"), {"Service", "findAll"}))
modularContractsTemplate(n) == Content(n, {"Record", "Filter"}, {})
modularIndexTemplate(d, n, k) == Index(n, {File(d, k, x) : x \in {"module", "service", "controller", "types"}})
microserviceTemplate(n) == Content(n, {"Worker", "MicroserviceModule", "bootstrap"}, {})
microserviceIndexTemplate(d, n, k) == Index(n, {File(d, k, "microservice")})

Domain(d) == Append(d, "domain")
Dto(d)    == Append(d, "dto")
DtoIndex(d) == File(Dto(d), <<>>, "index")
Searchable(fields) == \E i \in DOMAIN fields : fields[i].type = "string"
Properties(fields) == {f.property : f \in Range(fields)}
Records == {"listRecords", "getRecord", "createRecord", "updateRecord", "removeRecord"}

crudModuleTemplate(d, n, k) ==
    Content(n, {"Module"}, From(File(d, k, "controller"), {"Controller"}) \cup From(File(d, k, "service"), {"Service"})
                           \cup From(File(Domain(d), k, "repository"), {"Repository"}))
crudServiceTemplate(d, n, k) ==
    Content(n, {"Service"} \cup Records,
            From(File(Domain(d), k, "repository"), {"Repository", "findMany", "findById", "create", "update", "delete"})
            \cup From(DtoIndex(d), {"CreateDto", "UpdateDto", "Query"}))
crudControllerTemplate(d, n, k) ==
    Content(n, {"Controller"},
            From(DtoIndex(d), {"CreateDto", "UpdateDto", "Query", "querySchema"})
            \cup From(File(d, k, "service"), {"Service"} \cup Records))
crudEntityTemplate(n, fields) ==
    Content(n, {"Entity", "id", "createdAt", "updatedAt"} \cup Properties(fields), {})
\* buildSearchCondition: the text fields are searched for query.search.
crudRepositoryTemplate(d, n, fields) ==
    Content(n, {"Repository", "findMany", "findById", "create", "update", "delete"},
            From(DtoIndex(d), {"Query", "limit"} \cup (IF Searchable(fields) THEN {"search"} ELSE {}))
            \cup From(File(Domain(d), KebabOfPascal(n), "entity"),
                      {"Entity", "id"} \cup {f.property : f \in {x \in Range(fields) : x.type = "string"}}))
crudCreateDtoTemplate(n, fields) == Content(n, {"createSchema", "CreateDto", "CreateInput"}, {})
crudUpdateDtoTemplate(n, fields) == Content(n, {"updateSchema", "UpdateDto", "UpdateInput"}, {})
crudQueryDtoTemplate(n, fields) ==
    Content(n, {"querySchema", "Query", "limit"} \cup (IF Searchable(fields) THEN {"search"} ELSE {}), {})

crudDtoIndexTemplate(d, n, k) == Index(n, {File(Dto(d), k, x) : x \in {"create.dto", "update.dto", "query"}})
crudSpecTemplate(d, n, k) ==
    Content(n, {}, From(File(d, k, "module"), {"Module"}) \cup From(File(d, k, "service"), {"Service"} \cup Records)
                   \cup From(DtoIndex(d), {"CreateDto", "UpdateDto"}))

App == toKebabCase(<<"app">>)
AppFile(kind) == File(<<"src", "modules", App>>, App, kind)
Source(kind) == File(<<"src">>, <<>>, kind)
projectMainTemplate == Content(<<>>, {}, From(Source("bootstrap"), {"bootstrap"}))
projectBootstrapTemplate == Content(<<>>, {"bootstrap"}, From(Source("root.module"), {"RootModule"}))
projectRootModuleTemplate == Content(<<>>, {"RootModule"}, From(AppFile("module"), {"AppModule"}))
projectFeatureModuleTemplate ==
    Content(<<>>, {"AppModule"}, From(AppFile("controller"), {"AppController"}) \cup From(AppFile("service"), {"AppService"}))
projectAppServiceTemplate == Content(<<>>, {"AppService", "getStatus"}, {})
projectAppControllerTemplate ==
    Content(<<>>, {"AppController", "readStatus"}, From(AppFile("service"), {"AppService", "getStatus"}))
projectAppControllerSpecTemplate ==
    Content(<<>>, {}, From(AppFile("module"), {"AppModule"}) \cup From(AppFile("controller"), {"AppController", "readStatus"}))

-----------------------------------------------------------------------------
(* The files of a command, in the order they are written.  --path is       *)
(* src/modules unless given, for a microservice too.                       *)

Modules == <<"src", "modules">>
PackageJson == File(<<>>, <<>>, "package.json")

Plain(d, kind) == <<File(d, <<>>, kind), Content(<<>>, {}, {})>>

NewFiles ==
    <<Plain(<<>>, "package.json"), Plain(<<>>, "tsconfig.json"), Plain(<<>>, "eslint.config.js"),
      Plain(<<>>, ".eslintrc.cjs"), Plain(<<>>, ".prettierrc.cjs"), Plain(<<>>, "README.md"),
      <<Source("main"), projectMainTemplate>>, <<Source("bootstrap"), projectBootstrapTemplate>>,
      <<Source("root.module"), projectRootModuleTemplate>>,
      <<AppFile("module"), projectFeatureModuleTemplate>>, <<AppFile("service"), projectAppServiceTemplate>>,
      <<AppFile("controller"), projectAppControllerTemplate>>,
      <<AppFile("controller.spec"), projectAppControllerSpecTemplate>>,
      Plain(<<".github", "workflows">>, "ci.yml"), Plain(<<>>, ".gitignore")>>

GenerateFiles(kind, n) ==
    LET k == toKebabCase(n)
        d == IF kind \in {"module", "modular", "microservice"} THEN Append(Modules, k) ELSE Modules
        service    == <<File(d, k, "service"), serviceTemplate(n)>>
        controller == <<File(d, k, "controller"), controllerTemplate(d, n, k)>>
        module     == <<File(d, k, "module"), moduleTemplate(d, n, k)>>
    IN CASE kind = "service" -> <<service>>
         [] kind = "controller" -> <<controller>>
         [] kind = "module" -> <<module, service, controller>>
         [] kind = "modular" -> <<module, service, controller, <<File(d, k, "types"), modularContractsTemplate(n)>>,
                                  <<File(d, <<>>, "index"), modularIndexTemplate(d, n, k)>>>>
         [] kind = "microservice" -> <<<<File(d, k, "microservice"), microserviceTemplate(n)>>,
                                       <<File(d, <<>>, "index"), microserviceIndexTemplate(d, n, k)>>>>

CrudFiles(n, fields) ==
    LET k == toKebabCase(n)
        d == Append(Modules, k)
    IN <<<<File(d, k, "module"), crudModuleTemplate(d, n, k)>>,
         <<File(d, k, "service"), crudServiceTemplate(d, n, k)>>,
         <<File(d, k, "controller"), crudControllerTemplate(d, n, k)>>,
         <<File(Domain(d), k, "entity"), crudEntityTemplate(n, fields)>>,
         <<File(Domain(d), k, "repository"), crudRepositoryTemplate(d, n, fields)>>,
         <<File(Dto(d), k, "create.dto"), crudCreateDtoTemplate(n, fields)>>,
         <<File(Dto(d), k, "update.dto"), crudUpdateDtoTemplate(n, fields)>>,
         <<File(Dto(d), k, "query"), crudQueryDtoTemplate(n, fields)>>,
         <<DtoIndex(d), crudDtoIndexTemplate(d, n, k)>>,
         <<File(d, k, "spec"), crudSpecTemplate(d, n, k)>>>>

\* parseCrudFields throws before a file is written.
FieldsParse(fields) ==
    /\ \A f \in Range(fields) : f.type \in {"string", "number", "boolean"}
    /\ \A i, j \in DOMAIN fields : fields[i].property = fields[j].property => i = j

Files(c) == CASE c.kind = "new" -> NewFiles
              [] c.kind = "crud" -> CrudFiles(c.name, c.fields)
              [] OTHER -> GenerateFiles(c.kind, c.name)

-----------------------------------------------------------------------------
(* A command.                                                              *)

NoCommand == [given |-> Nothing, files |-> <<>>, at |-> "none"]

Run(c) ==
    /\ command = NoCommand /\ commands < MaxCommands
    /\ c.kind = "crud" => FieldsParse(c.fields)
    /\ commands' = commands + 1
    /\ command' = [given |-> c, files |-> Files(c), at |-> "check"]
    /\ UNCHANGED <<disk, pinned, breaks, edits, unfinished, mixed>>

Path == Head(command.files)[1]
New  == Head(command.files)[2]
Foreign(p) == p \in DOMAIN disk /\ [disk[p] EXCEPT !.state = "whole"] # New

\* writeArtifact: the file is looked for, then its directory made and the file
\* written.
MayWrite(exists, force) == ~exists \/ force

NextFile == LET rest == Tail(command.files)
            IN [command EXCEPT !.files = rest, !.at = IF rest = <<>> THEN "last" ELSE "check"]

Check ==
    /\ command.at = "check"
    /\ command' = IF MayWrite(Path \in DOMAIN disk, command.given.force)
                  THEN [command EXCEPT !.at = "write"] ELSE NextFile
    /\ mixed' = IF Foreign(Path) THEN mixed \cup {command.given.name, disk[Path].of} ELSE mixed
    /\ UNCHANGED <<disk, pinned, commands, breaks, edits, unfinished>>

Put(content) == disk' = [p \in DOMAIN disk \cup {Path} |-> IF p = Path THEN content ELSE disk[p]]

Write ==
    /\ command.at = "write"
    /\ Put(New)
    /\ pinned' = IF Path = PackageJson THEN Nothing ELSE pinned
    /\ command' = NextFile
    /\ UNCHANGED <<commands, breaks, edits, unfinished, mixed>>

\* resolveLocalPack: the pack that is named, or else the newest there is.
resolveLocalPack(pack) ==
    IF pack \in Range(Packs) THEN pack ELSE IF Packs = <<>> THEN Nothing ELSE Packs[1]

\* What new does after its files: a pack is pinned in package.json, which must
\* parse, then the packages are installed, which is another program's work.
LastStep ==
    /\ command.at = "last"
    /\ IF command.given.kind = "new" /\ resolveLocalPack(command.given.pack) # Nothing
       THEN /\ disk[PackageJson].state # "torn"
            /\ pinned' = resolveLocalPack(command.given.pack)
       ELSE UNCHANGED pinned
    /\ unfinished' = unfinished \ {[command.given EXCEPT !.force = FALSE]}
    /\ command' = NoCommand
    /\ UNCHANGED <<disk, commands, breaks, edits, mixed>>

\* The command fails or is killed; a file whose write had begun is cut short.
Break ==
    /\ command.at # "none" /\ breaks < MaxBreaks
    /\ breaks' = breaks + 1
    /\ unfinished' = unfinished \cup {[command.given EXCEPT !.force = FALSE]}
    /\ \/ UNCHANGED disk
       \/ command.at = "write" /\ Put([New EXCEPT !.state = "torn"])
    /\ command' = NoCommand
    /\ UNCHANGED <<pinned, commands, edits, mixed>>

\* JSON.parse of a package.json that was cut short and skipped.
PinFails ==
    /\ command.at = "last" /\ command.given.kind = "new"
    /\ disk[PackageJson].state = "torn"
    /\ resolveLocalPack(command.given.pack) # Nothing
    /\ unfinished' = unfinished \cup {[command.given EXCEPT !.force = FALSE]}
    /\ command' = NoCommand
    /\ UNCHANGED <<disk, pinned, commands, breaks, edits, mixed>>

\* An edit keeps what the file offers and takes.
Edit(p) ==
    /\ edits < MaxEdits /\ disk[p].state = "whole"
    /\ edits' = edits + 1
    /\ disk' = [disk EXCEPT ![p].state = "edited"]
    /\ UNCHANGED <<pinned, command, commands, breaks, unfinished, mixed>>

ScaffoldInit ==
    /\ disk = <<>> /\ pinned = Nothing /\ command = NoCommand
    /\ commands = 0 /\ breaks = 0 /\ edits = 0
    /\ unfinished = {} /\ mixed = {}

ScaffoldNext ==
    \/ \E c \in Commands : Run(c)
    \/ Check \/ Write \/ LastStep \/ Break \/ PinFails
    \/ \E p \in DOMAIN disk : Edit(p)

ScaffoldSpec == ScaffoldInit /\ [][ScaffoldNext]_scaffoldVars

-----------------------------------------------------------------------------
(* Properties.                                                             *)

\* Every variable holds a value of its kind.
TypeOK ==
    /\ \A p \in DOMAIN disk : disk[p].state \in {"whole", "edited", "torn"}
    /\ pinned \in Range(Packs) \cup {Nothing}
    /\ command.at \in {"none", "check", "write", "last"}
    /\ command.at # "none" => command.given \in Commands
    /\ commands \in 0..MaxCommands /\ breaks \in 0..MaxBreaks /\ edits \in 0..MaxEdits

Through(p) == {p} \cup (disk[p].again \cap DOMAIN disk)
Offers(p) == UNION {disk[q].offers : q \in {x \in Through(p) : disk[x].state # "torn"}}

\* A file that was cut short, which a command that is run again without --force
\* skips, is there but may offer nothing.
CutShort(p) == \E q \in Through(p) : disk[q].state = "torn"

\* The repository of crud asks for the entity under the name's other spelling.
Misspelt(p, t) == t[1][3] = "entity" /\ ~KeepsDashes(disk[p].of)

Resolves(p) == /\ disk[p].again \subseteq DOMAIN disk
               /\ \A t \in disk[p].takes :
                      \/ t[1] \in DOMAIN disk /\ (t[2] \in Offers(t[1]) \/ CutShort(t[1]))
                      \/ Misspelt(p, t)

\* A controller that is generated alone takes a service somebody else writes.
Alone(p) == p[1] = Modules /\ p[3] = "controller"

\* When a command has ended, every generated file finds what it imports in the
\* files beside it, whatever was generated before, edited, broken off and run
\* again; but for a command that was broken off and not repeated, and files of
\* different commands for one name.  What is taken from a file that was cut short
\* and is still there may be missing; and crud's repository misses its entity if
\* the name loses a dash on its way through toPascalCase (the templates of
\* generate, crud and new).
ImportsResolve ==
    command = NoCommand =>
        \A p \in DOMAIN disk :
            \/ Resolves(p) \/ Alone(p)
            \/ disk[p].of \in mixed \/ \E c \in unfinished : c.name = disk[p].of

=============================================================================
