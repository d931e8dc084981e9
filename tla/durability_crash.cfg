CONSTANTS
    x = x
    y = y
    u = u
    v = v
    huge = huge
    Absent = Absent
    Empty = Empty
    Garbled = Garbled
    Phantom = Phantom
    Ids <- XY
    Vectors <- UVHuge
    Oversized <- Huge
    Direct <- XY
    Writes <- PairsAndHuge
    PhantomsReadable = TRUE
    DimensionsGiven <- GivenOrNot
    FlushAt = 2
    MaxWrites = 2
    MaxRestarts = 3

SPECIFICATION Spec
SYMMETRY Symmetric

\* The bounds on calls and openings end every behaviour.
CHECK_DEADLOCK FALSE

INVARIANTS
    TypeOK
    AcknowledgedOnDisk
    
    CommittedIsLogged
    
    
