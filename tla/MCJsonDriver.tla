---------------------------- MODULE MCJsonDriver ----------------------------
(* Small instances of JsonDriver for the model checker.                    *)
EXTENDS JsonDriver

\* At most one fault of each kind.
EachFault == [failure |-> 1, crash |-> 1, reinit |-> 1]

\* Only writes of the file that fail.
FailedWrite == [failure |-> 1, crash |-> 0, reinit |-> 0]

=============================================================================
