CONSTANTS
    t1 = t1
    t2 = t2
    s1 = s1
    x = x
    y = y
    Txs <- TwoTxs
    Storers <- OneStorer
    Ids <- XY
    ReadIds <- None
    WritableIds <- XY
    DirectIds <- Y
    RemovableIds <- None
    Faults = {"wal", "version", "index"}
    MaxVersions = 3

SPECIFICATION Spec
SYMMETRY Symmetric

INVARIANTS
    
    CommittedReadable
    PublishedCovered
    CountMatchesIndex


    
