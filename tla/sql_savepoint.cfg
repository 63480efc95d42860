\* A transaction of mssql or oracle, two clients and one table.
CONSTANTS
    Writers = {}
    Txs = {x1}
    Tables = {t1}
    Refers <- NoReferences
    Clients = {c1, c2}
    Dialects = {"mssql", "oracle"}
    MaxRetries = 0
    MaxFaults = 0
    MaxWrites = 1
    Seed = Seed
    Empty = Empty
    Untouched = Untouched
    Nobody = Nobody
SPECIFICATION Spec
INVARIANT SavepointRollbackWorks
CHECK_DEADLOCK FALSE
