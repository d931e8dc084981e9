CONSTANTS
    FlushAt = 3
    MaxCalls = 4
    MaxFaults = 1
    MaxCrashes = 2

SPECIFICATION Spec

INVARIANTS
    
    ReadsInOrder
    
