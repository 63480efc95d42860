------------------------- MODULE MCPooledSqlDriver -------------------------
(* A small instance of PooledSqlDriver for the model checker.              *)
EXTENDS PooledSqlDriver

\* No table has a foreign key.
NoReferences == [t \in Tables |-> {}]

=============================================================================
