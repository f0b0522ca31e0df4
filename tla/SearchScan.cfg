CONSTANTS
    NumProducts = 3
    Catalogue <- MCCatalogue
    Queries <- MCQueries
    DefaultPageSize = 3
    MaxPageSize = 2
    MaxWindow = 4
    FacetSize = 1
    MaxChanges = 1
    MaxFaults = 1
SPECIFICATION FairSpec
INVARIANTS
    TypeOK
    ScanIsExact
    FacetsKeepTheirPromise
    NumberedPagesAddUp
    RefusesForeignCursorsOnly
PROPERTIES
    ScanEnds
