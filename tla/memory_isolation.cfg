\* One caller and two transactions with a savepoint, on one table.
CONSTANTS
    Tables = {t1}
    Clients = {c1}
    Handles = {h1, h2}
    Savepoints = {p1}
    Empty = Empty
    NoTable = NoTable
    NoSavepoint = NoSavepoint
SPECIFICATION Spec
INVARIANTS
    TypeOK
    NoDirtyData
