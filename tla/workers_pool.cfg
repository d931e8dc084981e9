CONSTANTS
    w1 = w1
    w2 = w2
    gc = gc
    checkpoint = checkpoint
    optimize = optimize
    metrics = metrics
    g1 = g1
    c1 = c1
    c2 = c2
    Pool <- OneWorker
    Clients <- OneClient
    Closers <- TwoClosers
    CollectTasks <- Gc
    WriteTasks <- None
    ReadTasks <- Optimize
    IdleTasks <- Metrics
    QueueCap = 1
    CloseMayFail = TRUE

\* A closed database, a panic and a Close that waits for good are ends.
CHECK_DEADLOCK FALSE

SPECIFICATION FairSpec

INVARIANTS
    TypeOK
    PersistsAlone
    

PROPERTIES
    AcceptedRuns
    GoroutinesEnd
    CloseReturnsOrBlocks
