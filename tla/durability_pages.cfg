CONSTANTS
    x = x
    y = y
    u = u
    v = v
    huge = huge
    Absent = Absent
    Empty = Empty
    Garbled = Garbled
    Phantom = Phantom
    Ids <- X
    Vectors <- U
    Oversized <- None
    Direct <- X
    Writes <- InsertsAndRemovals
    PhantomsReadable = FALSE
    DimensionsGiven <- Given
    FlushAt = 2
    MaxWrites = 4
    MaxRestarts = 1

SPECIFICATION Spec

\* The bounds on calls and openings end every behaviour.
CHECK_DEADLOCK FALSE

INVARIANTS
    PagesApart
    

PROPERTIES
    NewestVersionKept
