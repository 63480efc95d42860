----------------------------- MODULE MCDrivers -----------------------------
(***************************************************************************)
(* Small instances for the components of DriverSuite.                      *)
(***************************************************************************)
EXTENDS DriverSuite, TLC

\* The rows of the first table refer to those of the second.
SqlReferences ==
    [t \in SqlTables |-> IF t = CHOOSE s \in SqlTables : TRUE THEN SqlTables \ {t} ELSE {}]

C(type, nullable) == [type |-> type, nullable |-> nullable]
S(columns, unique, foreign) == [columns |-> columns, unique |-> unique, foreign |-> foreign]

\* Three versions of an entity: columns come, go, and change their types.
EntityVersions ==
    {S([id |-> C("number", FALSE), a |-> C("string", TRUE)], {}, {}),
     S([id |-> C("number", FALSE), a |-> C("json", TRUE), b |-> C("boolean", FALSE)],
       {{"a"}}, {[column |-> "b", action |-> "cascade"]}),
     S([id |-> C("number", FALSE), b |-> C("boolean", TRUE)], {}, {[column |-> "b", action |-> "restrict"]})}

\* What the schema of an entity is compared with, and what a migration does.
WantedSchema == S([id |-> C("number", FALSE), a |-> C("json", TRUE), b |-> C("boolean", FALSE)], {{"a"}}, {"b"})
FoundSchemas ==
    {NoSchema, WantedSchema,
     S([id |-> C("number", FALSE), a |-> C("string", TRUE)], {{"id"}}, {}),
     S([id |-> C("number", FALSE), b |-> C("boolean", FALSE), c |-> C("string", TRUE)], {{"b"}}, {"b", "c"})}
QueuedChanges ==
    {[do |-> "addColumn", name |-> "a", column |-> C("string", TRUE)],
     [do |-> "alterColumn", name |-> "b", column |-> C("number", TRUE)]}
    \cup {[do |-> do, name |-> "b"] : do \in {"dropColumn", "addUnique", "dropUnique", "dropForeign"}}
    \cup {[do |-> "addForeign", name |-> "a"]}

\* Three seeders that depend on one another in every way.
SeederGraphs ==
    [{"a", "b", "c"} -> SUBSET {"a", "b", "c"}]

Symmetry == Permutations(Txs) \cup Permutations(Clients)

=============================================================================
