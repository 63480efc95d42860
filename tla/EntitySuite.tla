---------------------------- MODULE EntitySuite ----------------------------
(***************************************************************************)
(* The repository, queries and relations, side by side: the initial state  *)
(* chooses one, the focus, and only that one takes steps; the others stay  *)
(* in one initial state.                                                   *)
(***************************************************************************)
EXTENDS EntityRepository, Integers

CONSTANTS
    QueryTables, QueryFilters, QueryCallers, MaxQueries, MaxQueryFaults, MaxOptions, Null, None,
    Parents, Tags, Loads, MaxChanges, MaxLoadFaults, Lazy, Unset

VARIABLES
    focus,
    engine, table, builder, query, queries, queryFaults, configured, stuck,
    lazy, Owned, parents, tags, row, joinRows, entity, broken, load, save,
    changes, loadFaults, meant, excused, keyAlone

Queries == INSTANCE Query WITH Tables <- QueryTables, Filters <- QueryFilters
Related == INSTANCE Relations WITH links <- joinRows

ASSUME SuiteAssumption == Queries!QueryAssumption /\ Related!RelationsAssumption

-----------------------------------------------------------------------------

queryVars    == <<engine, table, builder, query, queries, queryFaults, configured, stuck>>
relationVars == <<lazy, Owned, parents, tags, row, joinRows, entity, broken, load, save,
                  changes, loadFaults, meant, excused, keyAlone>>
SuiteVars    == <<focus, vars, queryVars, relationVars>>

SuiteInit ==
    /\ focus \in {"repository", "queries", "relations"}
    /\ Init
    /\ focus # "repository" => rows = {} /\ links = {}
    /\ Queries!QueryInit
    /\ focus # "queries" => engine = "memory"
    /\ Related!RelationsInit
    /\ focus # "relations" =>
           ~lazy /\ Owned /\ row = Null /\ joinRows = {}

RepositorySteps == focus = "repository" /\ Next /\ UNCHANGED <<focus, queryVars, relationVars>>
QuerySteps      == focus = "queries" /\ Queries!QueryNext /\ UNCHANGED <<focus, vars, relationVars>>
RelationSteps   == focus = "relations" /\ Related!RelationsNext /\ UNCHANGED <<focus, vars, queryVars>>

SuiteNext == RepositorySteps \/ QuerySteps \/ RelationSteps

SuiteSpec == SuiteInit /\ [][SuiteNext]_SuiteVars

-----------------------------------------------------------------------------

\* The variables of the part in focus hold values of their kinds.
TypesOK ==
    /\ focus = "repository" => TypeOK
    /\ focus = "queries" => Queries!TypeOK
    /\ focus = "relations" => Related!TypeOK

\* A query returns what had been configured when it was called (execute and
\* executeRaw of query-builder.ts).
AnswersAsAsked == [][Queries!Answered]_SuiteVars

\* The key column of an entity follows the relation it belongs to (the accessors
\* of relations.ts, the loads of repository.ts).
KeyFollows == focus = "relations" => Related!KeyFollows

=============================================================================
