CONSTANTS
    w1 = w1
    w2 = w2
    gc = gc
    checkpoint = checkpoint
    optimize = optimize
    metrics = metrics
    g1 = g1
    c1 = c1
    c2 = c2
    Pool <- TwoWorkers
    Clients <- OneClient
    Closers <- OneCloser
    CollectTasks <- Gc
    WriteTasks <- Checkpoint
    ReadTasks <- Optimize
    IdleTasks <- None
    QueueCap = 1
    CloseMayFail = FALSE

\* A closed database, a panic and a Close that waits for good are ends.
CHECK_DEADLOCK FALSE

SPECIFICATION FairSpec

PROPERTIES
    CloseReturns
