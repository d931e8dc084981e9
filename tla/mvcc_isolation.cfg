CONSTANTS
    t1 = t1
    t2 = t2
    t3 = t3
    x = x
    y = y
    Txs <- ThreeTxs
    Storers <- None
    Ids <- XY
    ReadIds <- XY
    WritableIds <- XY
    DirectIds <- None
    RemovableIds <- None
    Faults = {"wal"}
    MaxVersions = 3

SPECIFICATION HistorySpec
SYMMETRY Symmetric

INVARIANTS
    TypeOK

PROPERTIES
    ImplementsIsolation
