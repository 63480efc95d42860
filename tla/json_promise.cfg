\* A caller, a transaction with a savepoint, and a write that may fail.
CONSTANTS
    Tables = {t1}
    Clients = {c1}
    Handles = {h1}
    Savepoints = {p1}
    Empty = Empty
    NoTable = NoTable
    NoSavepoint = NoSavepoint
    Unreadable = Unreadable
    NoTask = NoTask
    MaxFaults <- FailedWrite
SPECIFICATION FairSpec
PROPERTIES
    ImplementsSnapshotStore
    EveryCallSettles
