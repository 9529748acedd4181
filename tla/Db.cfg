SPECIFICATION Spec
CONSTANTS
    k1 = k1
    k2 = k2
    k3 = k3
    d1 = d1
    e1 = e1
    d2 = d2
    c1 = c1
    c2 = c2
    Proc = {p1, p2}
    Key = {k1, k2, k3}
    Data = {d1, e1, d2}
    NoData = NoData
    Chain = {c1, c2}
    FREE = FREE
    Hash <- MCHash
    KeyLen <- MCKeyLen
    DatLen <- MCDatLen
    Files <- MCFiles
    MaxUpdates = 2
SYMMETRY Symmetry
INVARIANTS
    TypeOK
    WellFormed
    ScanComplete
PROPERTIES
    ImplementsMap
    ScanOnce
