------------------------- MODULE MCEntityRepository -------------------------
(***************************************************************************)
(* Small instances for the components of EntitySuite.                      *)
(***************************************************************************)
EXTENDS EntitySuite, TLC

\* A table with a value and without, with a parent and without, and two of one parent.
R(id, v, parent) == [id |-> id, v |-> v, parent |-> parent]
SomeTables  == {<<R(1, 2, 1), R(2, 1, Null), R(3, Null, 2), R(4, 1, 2)>>}
SomeFilters ==
    {[op |-> "eq", value |-> Null], [op |-> "lt", value |-> 2],
     [op |-> "gt", value |-> 2], [op |-> "in", value |-> {1}]}

\* Callers are interchangeable, and so are keys.
Symmetry ==
    Permutations(Callers) \cup Permutations(Keys) \cup Permutations(QueryCallers)
        \cup Permutations(Parents)

=============================================================================
