CONSTANTS
    Ids <- Points
    Distance <- OnALine
    M = 1
    EfConstruct = 2
    TopLevel = 2

SPECIFICATION Spec

INVARIANTS
    EntryIsTop
    LinksSound
    SearchFindsReachable
    SmallIndexExact
