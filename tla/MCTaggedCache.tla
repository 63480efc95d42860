--------------------------- MODULE MCTaggedCache ---------------------------
(* Small instances of TaggedCache for the model checker.                   *)
EXTENDS TaggedCache, TLC

CONSTANTS k1, k2, t1, t2

\* A key with one tag, and one that shares it and has another.
Overlapping == (k1 :> {t1}) @@ (k2 :> {t1, t2})

=============================================================================
