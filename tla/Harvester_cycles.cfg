SPECIFICATION Spec
CONSTANTS
    Nodes = {n1, n2}
    Catalogs <- MCCatalogs
    NoCatalog = NoCatalog
    Writers = {n1, n2}
    NoWriter = NoWriter
    NoJob = NoJob
    MaxWrites = 100
    Concurrency = 2
    ParticipantTimeout = 1
    MaxCatalogAge = 0
    Interval = 1
    Never = Never
    MaxTime = 3
INVARIANTS
    HarvesterTypeOK
    BookkeepingMatchesStore
    ExpiryComplete
PROPERTIES
    OnlyOldCatalogsRemoved
SYMMETRY Symmetry
CHECK_DEADLOCK FALSE
