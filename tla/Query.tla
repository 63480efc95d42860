------------------------------- MODULE Query -------------------------------
(***************************************************************************)
(* QueryBuilder (query-builder.ts): one builder, configured and run by     *)
(* callers that may share it, over a driver that has its rows read and     *)
(* filtered in memory (plan-executor.ts) or that takes the query itself,   *)
(* as sqlite does.  What a call returns is put together after its awaits   *)
(* from the builder as it is by then; getOne and getRawOne set the         *)
(* builder's limit for the time they take.                                 *)
(*                                                                         *)
(* A row is its id, a scalar column v, and the scalar name of the parent   *)
(* it refers to; one filter, one order, one join and one aggregate stand   *)
(* for lists of them.  Numbers are positive, so that a Null, which         *)
(* JavaScript compares as 0, sorts before them as it does in SQL.  An      *)
(* order names a field of what the query gives: of its rows, or of its     *)
(* groups, which have the key they are grouped by and a count.             *)
(***************************************************************************)
EXTENDS Naturals, Sequences, FiniteSets, SequencesExt, FiniteSetsExt

CONSTANTS Tables,     \* contents of the table: sequences of rows
          Filters,    \* conditions on v: [op, value]
          QueryCallers,
          MaxQueries, \* calls of all callers
          MaxQueryFaults,
          MaxOptions, \* options the builder is given
          Null,       \* a column or a relation without a value
          None        \* an option of the builder that is not set

Orders   == {None, "v", "vDesc", "parent"}
GroupOrders == {None, "key", "countDesc"}
Joins    == {None, "left", "inner"}
Totals   == [fn : {"count", "sum", "max"}, grouped : BOOLEAN]
Modes    == {"many", "one", "all", "rawMany", "rawOne"}  \* count and paginate read "all"

Scalars  == (Nat \ {0}) \cup {Null}

\* Primary keys are unique, and what an option may be set to is not None.
QueryAssumption ==
    /\ {MaxQueries, MaxQueryFaults, MaxOptions} \subseteq Nat
    /\ \A t \in Tables :
          /\ t \in Seq([id : Nat, v : Scalars, parent : Scalars])
          /\ \A i, j \in DOMAIN t : t[i].id = t[j].id => i = j
    /\ Filters \subseteq [op : {"eq", "gt", "lt"}, value : Scalars]
                       \cup [op : {"in"}, value : SUBSET Scalars]
    /\ None \notin Filters \cup Totals \cup Nat
                      \cup {"v", "vDesc", "parent", "key", "countDesc", "left", "inner"}

VARIABLES engine,   \* "memory" or "sqlite"
          table,
          builder,  \* filter, order, join, total, take, skip
          query,    \* per caller: the call under way
          queries, queryFaults,
          configured, \* history: what the program has configured
          stuck       \* history: a getOne has thrown, or overlapped another or a limit

queryVars == <<engine, table, builder, query, queries, queryFaults, configured, stuck>>

AtRest == [at |-> "idle"]

-----------------------------------------------------------------------------
(* What the rows of a query are.                                           *)

Rank(x) == IF x = Null THEN 0 ELSE x

\* matchesFilters and createComparisonPredicate: null < 2, as 0 < 2.
Matches(row, f) ==
    f # None =>
        CASE f.op = "eq" -> row.v = f.value
          [] f.op = "gt" -> Rank(row.v) > Rank(f.value)
          [] f.op = "lt" -> Rank(row.v) < Rank(f.value)
          [] f.op = "in" -> row.v \in f.value

\* buildFilterClause: a comparison with NULL is never true; an empty list is
\* the clause 0 = 1.
MatchesSql(row, f) == f = None \/ (row.v # Null /\ f.value # Null /\ Matches(row, f))

Before(order, a, b) ==
    CASE order = "v"      -> Rank(a.v) < Rank(b.v)
      [] order = "vDesc"  -> Rank(a.v) > Rank(b.v)
      [] order = "parent" -> Rank(a.parent) < Rank(b.parent)
      [] order = "key"    -> Rank(a.key) < Rank(b.key)
      [] order = "countDesc" -> a.total > b.total
      [] OTHER            -> FALSE

\* The elements of a finite set, each after those that are before it.
Nth(S, before, k) == CHOOSE x \in S : Cardinality(before[x]) = k - 1

Enumerated(S, before) == [k \in 1..Cardinality(S) |-> Nth(S, before, k)]

\* The rows at some places, in their order (SelectSeq, for a set of places).
Select(rows, places) ==
    LET kept == Enumerated(places, [i \in places |-> {j \in places : j < i}])
    IN  [k \in DOMAIN kept |-> rows[kept[k]]]

\* applyOrdering: a stable sort, of a copy.
Sorted(rows, order) ==
    LET earlier(i) == {j \in DOMAIN rows :
                          \/ Before(order, rows[j], rows[i])
                          \/ (~Before(order, rows[i], rows[j]) /\ j < i)}
        sorted == Enumerated(DOMAIN rows, [i \in DOMAIN rows |-> earlier(i)])
    IN  [k \in DOMAIN sorted |-> rows[sorted[k]]]

\* sliceEntities and applyPaging: first the offset, then the limit.
Slice(rows, skip, take) ==
    LET rest == IF skip = None THEN rows ELSE SubSeq(rows, skip + 1, Len(rows))
    IN  IF take = None \/ take >= Len(rest) THEN rest ELSE SubSeq(rest, 1, take)

Joined(rows, join) ==
    Select(rows, {i \in DOMAIN rows : join = "inner" => rows[i].parent # Null})

\* computeAggregate, in memory and as SQL computes it: a sum of no value is 0
\* in the one and NULL in the other.
Values(rows) ==
    LET valued == Select(rows, {i \in DOMAIN rows : rows[i].v # Null})
    IN  [i \in DOMAIN valued |-> valued[i].v]

SumOf(values) == FoldSeq(LAMBDA x, y : x + y, 0, values)

Total(fn, rows, sql) ==
    LET vs == Values(rows) IN
    CASE fn = "count" -> Len(rows)
      [] fn = "sum"   -> IF vs = <<>> /\ sql THEN Null ELSE SumOf(vs)
      [] fn = "max"   -> IF vs = <<>> THEN Null ELSE Max(Range(vs))

Groups(rows) == {rows[i].parent : i \in DOMAIN rows}

Group(rows, key) == Select(rows, {i \in DOMAIN rows : rows[i].parent = key})

\* The groups come as they are first met in memory, and from SQL by their keys,
\* which it does not promise.
FirstOfGroup(rows) ==
    Select(rows, {i \in DOMAIN rows : \A j \in DOMAIN rows : rows[j].parent = rows[i].parent => i <= j})

KeysInOrder(keys) == Enumerated(keys, [key \in keys |-> {g \in keys : Rank(g) < Rank(key)}])

GroupKeys(rows, sql) ==
    IF sql THEN KeysInOrder(Groups(rows))
    ELSE [i \in DOMAIN FirstOfGroup(rows) |-> FirstOfGroup(rows)[i].parent]

GroupRow(rows, key, total, sql) ==
    [key |-> key, total |-> Total(total.fn, Group(rows, key), sql)]

\* applyAggregation: one row a group, and of a query without groups one row in
\* all, which a query over no rows lacks in memory and has in SQL.
Aggregated(rows, total, sql) ==
    IF total.grouped
    THEN [i \in DOMAIN GroupKeys(rows, sql) |-> GroupRow(rows, GroupKeys(rows, sql)[i], total, sql)]
    ELSE IF rows = <<>> /\ ~sql THEN <<>>
    ELSE <<[key |-> Null, total |-> Total(total.fn, rows, sql)]>>

\* buildQueryPlan: an order by a path of relations is left out of the plan.
Plan(b, ignorePaging) ==
    [filter |-> b.filter, order |-> IF b.order = "parent" THEN None ELSE b.order, total |-> b.total,
     take |-> IF ignorePaging THEN None ELSE b.take, skip |-> IF ignorePaging THEN None ELSE b.skip]

Matching(rows, f) == Select(rows, {i \in DOMAIN rows : Matches(rows[i], f)})

\* executePlan, and what sqlite answers to compilePlan's statement: groups are
\* ordered and paged as rows are.
Kept(p, rows) == Matching(rows, p.filter)

KeptBySql(p, rows) == Select(rows, {i \in DOMAIN rows : MatchesSql(rows[i], p.filter)})

ExecutePlan(p, rows) ==
    Slice(Sorted(IF p.total # None THEN Aggregated(Kept(p, rows), p.total, FALSE) ELSE Kept(p, rows),
                 p.order),
          p.skip, p.take)

CompiledPlan(p, rows) ==
    Slice(Sorted(IF p.total # None THEN Aggregated(KeptBySql(p, rows), p.total, TRUE) ELSE KeptBySql(p, rows),
                 p.order),
          p.skip, p.take)

-----------------------------------------------------------------------------
(* Configuring the builder: it holds an aggregate or relations, not both.  *)

IsRaw(mode)  == mode \in {"rawMany", "rawOne"}
IsOne(mode)  == mode \in {"one", "rawOne"}
AllRows(mode) == mode = "all"

\* The calls that have set the builder's limit and will set it back.
Limiting == {c \in QueryCallers : query[c] # AtRest /\ IsOne(query[c].mode)}

Configure(option, value) ==
    /\ configured[option] = None /\ value # None
    /\ Cardinality({o \in DOMAIN configured : configured[o] # None}) < MaxOptions
    /\ builder' = [builder EXCEPT ![option] = value]
    /\ configured' = [configured EXCEPT ![option] = value]
    /\ query' = [c \in QueryCallers |->
                   IF query[c] = AtRest THEN AtRest ELSE [query[c] EXCEPT !.disturbed = TRUE]]
    /\ stuck' = (stuck \/ (option = "take" /\ Limiting # {}))
    /\ UNCHANGED <<engine, table, queries, queryFaults>>

Where(f) == Configure("filter", f)
Limit(n) == Configure("take", n)
Offset(n) == Configure("skip", n)
OrderBy(o) ==
    /\ o \in IF builder.total = None THEN Orders ELSE GroupOrders
    /\ o = "countDesc" => builder.total.fn = "count"
    /\ Configure("order", o)

\* join, whereRelation and withRelations need a builder that is not raw,
\* select, groupBy and having one without relations: they throw otherwise.
Join(j) == builder.total = None /\ Configure("join", j)
SelectAggregate(t) == builder.join = None /\ builder.order = None /\ Configure("total", t)

-----------------------------------------------------------------------------
(* Running it.                                                             *)

\* The plan is made before the first await, with the limit of getOne set.
Start(c, mode) ==
    /\ query[c] = AtRest /\ queries < MaxQueries
    /\ IsRaw(mode) <=> builder.total # None
    /\ queries' = queries + 1
    /\ builder' = IF IsOne(mode) THEN [builder EXCEPT !.take = 1] ELSE builder
    /\ LET others == {d \in QueryCallers : query[d] # AtRest} IN
       query' = [d \in QueryCallers |->
          IF d = c THEN [at |-> "driver", mode |-> mode, asked |-> configured,
                         plan |-> Plan(builder', AllRows(mode)), previous |-> builder.take, rows |-> <<>>,
                         disturbed |-> others # {} \/ (stuck /\ ~IsOne(mode) /\ builder # configured)]
          ELSE IF d \in others THEN [query[d] EXCEPT !.disturbed = TRUE]
          ELSE query[d]]
    /\ stuck' = (stuck \/ (IsOne(mode) /\ Limiting # {}))
    /\ UNCHANGED <<engine, table, queryFaults, configured>>

\* Mutant: the driver's rows are taken for final.
FilteredByDriver(rows, sql) == rows

\* applyScalarPredicates: again over what a driver has filtered.
Filtered(rows, sql) == Matching(rows, builder.filter)

\* tryDriverQuery, or what is made of readTable.
Queried(q) ==
    IF engine = "sqlite" THEN CompiledPlan(q.plan, table)
    ELSE IF IsRaw(q.mode) THEN ExecutePlan(q.plan, table) ELSE table

\* The rows come; entities are made of them and filtered.
DriverAnswers(c) ==
    /\ query[c].at = "driver"
    /\ ~(engine = "sqlite" /\ query[c].plan.skip # None /\ query[c].plan.take = None)
    /\ query' = [query EXCEPT ![c].at = "rows",
                     ![c].rows = IF IsRaw(query[c].mode) THEN Queried(query[c])
                                 ELSE Filtered(Queried(query[c]), engine = "sqlite")]
    /\ UNCHANGED <<engine, table, builder, queries, queryFaults, configured, stuck>>

PagedByDriver(q) == engine = "sqlite" /\ (q.plan.take # None \/ q.plan.skip # None)

\* applyOrdering: entities lack the fields of groups, and stay as they are.
OrderOfRows == IF builder.order \in Orders THEN builder.order ELSE None

\* The relations are there: joins, order and paging, with the builder's limit
\* of now unless the driver has paged.
Result(q) ==
    IF IsRaw(q.mode) THEN q.rows
    ELSE LET rows == Sorted(Joined(q.rows, builder.join), OrderOfRows)
         IN  IF AllRows(q.mode) \/ PagedByDriver(q) THEN rows ELSE Slice(rows, builder.skip, builder.take)

\* The call returns Result(query[c]).
Finish(c) ==
    /\ query[c].at = "rows"
    /\ query' = [query EXCEPT ![c] = AtRest]
    /\ builder' = IF IsOne(query[c].mode) THEN [builder EXCEPT !.take = query[c].previous] ELSE builder
    /\ UNCHANGED <<engine, table, queries, queryFaults, configured, stuck>>

\* The driver or the loading of relations throws; OFFSET without LIMIT is no
\* statement of sqlite's.  The limit of getOne stays.
QueryFails(c) ==
    /\ query[c].at \in {"driver", "rows"}
    /\ queryFaults < MaxQueryFaults
    /\ queryFaults' = queryFaults + 1
    /\ query' = [query EXCEPT ![c] = AtRest]
    /\ stuck' = (stuck \/ IsOne(query[c].mode))
    /\ UNCHANGED <<engine, table, builder, queries, configured>>

-----------------------------------------------------------------------------

QueryInit ==
    /\ engine \in {"memory", "sqlite"}
    /\ table \in Tables
    /\ builder = [o \in {"filter", "order", "join", "total", "take", "skip"} |-> None]
    /\ query = [c \in QueryCallers |-> AtRest]
    /\ queries = 0 /\ queryFaults = 0 /\ configured = builder /\ stuck = FALSE

QueryNext ==
    \/ \E f \in Filters : Where(f)
    \/ \E o \in Orders \cup GroupOrders : OrderBy(o)
    \/ \E n \in 1..2 : Limit(n) \/ Offset(n)
    \/ \E j \in Joins : Join(j)
    \/ \E t \in Totals : SelectAggregate(t)
    \/ \E c \in QueryCallers :
          \/ \E mode \in Modes : Start(c, mode)
          \/ DriverAnswers(c) \/ Finish(c) \/ QueryFails(c)

QuerySpec == QueryInit /\ [][QueryNext]_queryVars

-----------------------------------------------------------------------------
(* Properties.                                                             *)

\* Every variable holds a value of its kind.
TypeOK ==
    /\ engine \in {"memory", "sqlite"} /\ table \in Tables
    /\ builder.filter \in Filters \cup {None} /\ builder.order \in Orders \cup GroupOrders /\ builder.join \in Joins
    /\ builder.total \in Totals \cup {None} /\ builder.take \in {None, 1, 2} /\ builder.skip \in {None, 1, 2}
    /\ \A c \in QueryCallers :
          query[c] # AtRest => query[c].at \in {"driver", "rows"} /\ query[c].mode \in Modes
    /\ queries \in 0..MaxQueries /\ queryFaults \in 0..MaxQueryFaults /\ stuck \in BOOLEAN

\* What the two engines disagree on: a comparison with a Null, and a total over
\* no rows or no values.
EnginesDiffer(b) ==
    \/ /\ b.filter # None
       /\ \/ b.filter.value = Null
          \/ /\ b.filter.op = "lt" \/ (b.filter.op = "in" /\ Null \in b.filter.value)
             /\ \E i \in DOMAIN table : table[i].v = Null
    \/ /\ b.total # None
       /\ \/ b.total.fn = "sum" /\ \E i \in DOMAIN table : table[i].v = Null
          \/ ~b.total.grouped /\ Matching(table, b.filter) = <<>>

\* What an aggregate makes of the table's rows at some places.
Tallied(fn, places) ==
    LET valued == {i \in places : table[i].v # Null} IN
    CASE fn = "count" -> Cardinality(places)
      [] fn = "max"   -> IF valued = {} THEN Null ELSE Max({table[i].v : i \in valued})
      [] fn = "sum"   -> SumOf(Values(Select(table, places)))

\* The groups a builder asks for: one of every row that matches and of those
\* that match and have its parent, or of all that match.
WantedGroups(b) ==
    LET hits == {i \in DOMAIN table : Matches(table[i], b.filter)}
        like(i) == {j \in hits : b.total.grouped => table[j].parent = table[i].parent}
    IN  {[key |-> IF b.total.grouped THEN table[i].parent ELSE Null,
          total |-> Tallied(b.total.fn, like(i))] : i \in hits}

\* The lists of a set's elements, each once, none after one that it is before.
Orderings(S, order) ==
    {s \in [1..Cardinality(S) -> S] :
        \A i, j \in DOMAIN s : i < j => s[i] # s[j] /\ ~Before(order, s[j], s[i])}

\* What a call should return that asks for b: a page of the groups in one of
\* their orders; or of the rows that match and are joined, in the order asked for
\* and then as in the table.
IsAnswer(rows, mode, b) ==
    LET kept == Joined(Matching(table, b.filter), b.join) IN
    IF IsRaw(mode) THEN \E s \in Orderings(WantedGroups(b), b.order) : rows = Slice(s, b.skip, b.take)
    ELSE rows = IF AllRows(mode) THEN Sorted(kept, b.order) ELSE Slice(Sorted(kept, b.order), b.skip, b.take)

\* A step that ends a call returns what the program had configured when it made
\* the call, whichever engine answers it and however it splits the work between
\* the driver and the memory.  The exceptions: the builder was configured or
\* called again meanwhile; it has lost the configured limit to a getOne that
\* threw, or overlapped another getOne or a call of limit; the driver paged
\* before a join or an order that only memory applies; and where the engines
\* differ (execute, executeRaw, getOne, tryDriverQuery of query-builder.ts,
\* executePlan and compilePlan).
Answered ==
    \A c \in QueryCallers : Finish(c) =>
      LET q == query[c]
          b == [q.asked EXCEPT !.take = IF IsOne(q.mode) THEN 1 ELSE @]
      IN  \/ IsAnswer(Result(q), q.mode, b)
          \/ q.disturbed
          \/ (PagedByDriver(q) /\ (b.join = "inner" \/ b.order = "parent"))
          \/ (engine = "sqlite" /\ EnginesDiffer(b))

\* Every step that ends a call is such a step.
AnswersAsAsked == [][Answered]_queryVars

=============================================================================
