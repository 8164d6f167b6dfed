SPECIFICATION FairSpec
CONSTANTS
    Queries = {q1, q2}
    Reads = {c1}
    SparqlSlots = 1
    CatalogSlots = 1
    Delay = 1
    SignalKinds = {SIGTERM}
    Crawls = TRUE
    MaxSignals = 2
INVARIANTS
    ServingTypeOK
    SlotsAccountedFor
    AbandonedAreCancelled
    ReadyFailsBeforeClose
    CleanExitIsDrained
PROPERTIES
    QueriesAnswered
    ShutdownEnds
CHECK_DEADLOCK FALSE
