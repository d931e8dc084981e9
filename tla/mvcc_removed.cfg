CONSTANTS
    t1 = t1
    t2 = t2
    s1 = s1
    x = x
    y = y
    Txs <- TwoTxs
    Storers <- OneStorer
    Ids <- X
    ReadIds <- X
    WritableIds <- X
    DirectIds <- X
    RemovableIds <- X
    Faults = {}
    MaxVersions = 3

SPECIFICATION Spec

INVARIANTS
    RemovedStaysRemoved
