CONSTANTS
    x = x
    y = y
    Ids <- XY
    Missing = Missing
    NoRoot = NoRoot
    MaxWrites = 4
    MaxCompactions = 2
    MaxFaults = 2
    MaxCrashes = 2

SPECIFICATION Spec
SYMMETRY Symmetric

INVARIANTS
    TypeOK
    CrashLosesNothing
    
    PurgedStayAway
