CONSTANTS
    Product = {p1}
    Request = {r1, r2}
    Worker = {w1, w2}
    MaxVersion = 3
    MaxFaults = 1
    MaxStrays = 1
CHECK_DEADLOCK FALSE
SPECIFICATION Spec
SYMMETRY Symmetry
INVARIANTS
    TypeOK
    DriftIsAccounted
PROPERTIES
    OnlyStaleUpdatesUndo
