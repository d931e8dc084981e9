CONSTANTS
    f1 = f1
    f2 = f2
    w1 = w1
    w2 = w2
    k1 = k1
    k2 = k2
    k3 = k3
    e1 = e1
    e2 = e2
    e3 = e3
    Finders <- TwoFinders
    Writers <- TwoWriters
    Keys <- ThreeKeys
    Elements <- ThreeElements
    MaxSize = 2
    AfterRace = 3

SPECIFICATION Spec
SYMMETRY Symmetric

INVARIANTS
    TypeOK
    ListIsRecency
    
    StoresSeen
