SPECIFICATION FairSpec
CONSTANTS
    Queries = {q1}
    Reads = {}
    SparqlSlots = 1
    CatalogSlots = 1
    Delay = 0
    SignalKinds = {SIGTERM}
    Crawls = FALSE
    MaxSignals = 2
PROPERTY SecondSignalExits
CHECK_DEADLOCK FALSE
