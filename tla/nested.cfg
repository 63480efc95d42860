\* A transaction and three nested ones, awaited or not, on one row.  The
\* model ends with the transaction.
CONSTANTS
    Keys = {k1}
    Frames = {r, f1, f2, f3}
    Root = r
    Conn = Conn
    Seed = Seed
    Absent = Absent
    NoSavepoint = NoSavepoint
    Modes <- AwaitedOrShared
SYMMETRY Symmetry
SPECIFICATION Spec
INVARIANTS
    TypeOK
    EntitiesAgree
PROPERTIES
    NestedAllOrNothing
CHECK_DEADLOCK FALSE
