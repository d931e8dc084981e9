CONSTANTS
    t1 = t1
    t2 = t2
    s1 = s1
    x = x
    y = y
    Txs <- TwoTxs
    Storers <- OneStorer
    Ids <- XY
    ReadIds <- None
    WritableIds <- Y
    DirectIds <- X
    RemovableIds <- Y
    Faults = {}
    MaxVersions = 3

SPECIFICATION FairSpec

INVARIANTS
    IndexFollowsChains

PROPERTIES
    CommitReturns
    StoreReturns
