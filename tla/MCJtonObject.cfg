CONSTANTS
    Keys = {k1, k2, k3, k4}
    Vals = {null, v1}
    Null = null
    LinearScanLimit = 2
    NestedLoopLimit = 2
    MaxHeaders = 3
SPECIFICATION Spec
INVARIANTS
    TypeOK
    KeysUnique
    IndexCoherent
    RowMeaning
PROPERTIES
    PositionsStable
    ImplementsDict
