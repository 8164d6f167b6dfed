SPECIFICATION FairSpec
CONSTANTS
    Nodes = {n1, n2}
    Catalogs <- MCCatalogs
    NoCatalog = NoCatalog
    Writers = {n1, n2}
    NoWriter = NoWriter
    NoJob = NoJob
    MaxWrites = 100
    Concurrency = 1
    ParticipantTimeout = 1
    MaxCatalogAge = 0
    Interval = 1
    Never = Never
    MaxTime = 2
INVARIANTS
    OneSlotSerializesWrites
PROPERTIES
    CyclesEnd
CHECK_DEADLOCK FALSE
