------------------------ MODULE MCNestedTransaction ------------------------
(* Small instances of NestedTransaction for the model checker.             *)
EXTENDS NestedTransaction, TLC

\* Handlers that await their nested calls and use both identity scopes, and
\* handlers that run beside them and share one.
AwaitedOrShared ==
    {[concurrent |-> FALSE, isolated |-> {TRUE, FALSE}],
     [concurrent |-> TRUE, isolated |-> {FALSE}]}

\* The nested frames are interchangeable.
Symmetry == Permutations(Nested)

=============================================================================
