\* One caller and one transaction on one table, with one fault of each kind.
CONSTANTS
    Tables = {t1}
    Clients = {c1}
    Handles = {h1}
    Savepoints = {}
    Empty = Empty
    NoTable = NoTable
    NoSavepoint = NoSavepoint
    Unreadable = Unreadable
    NoTask = NoTask
    MaxFaults <- EachFault
SPECIFICATION Spec
INVARIANTS
    TypeOK
    QuiescentDurable
    NoDirtyData
PROPERTIES
    InitRestores
    CommitConfined
