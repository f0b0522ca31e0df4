CONSTANTS
    Container = {c1, c2}
    Product = {p1, p2}
    City <- MCCity
    Batches = 2
    ChunkSize = 2
    Forces = {FALSE, TRUE}
    MaxRequests = 2
    MaxFaults = 1
SPECIFICATION FairSpec
INVARIANTS
    TypeOK
    CatalogueIsWhole
    FilledWhereItIs
PROPERTIES
    ErasesOnlyNewer
    ServesInTheEnd
CHECK_DEADLOCK FALSE
