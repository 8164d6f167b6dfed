SPECIFICATION Spec
CONSTANTS
    Nodes = {n1, n2}
    Catalogs = {c1}
    NoCatalog = NoCatalog
    Writers = {w1, w2}
    NoWriter = NoWriter
    NoJob = NoJob
    MaxWrites = 2
    Readers = {r1}
    Keys = {k1}
    NoKey = NoKey
    NoEntry = NoEntry
    Undecided = Undecided
    Unread = Unread
    NoPending = NoPending
    Attempts = 1
    WriteWait = 1
    Entries = 1
    ListTTL = 1
    PartialTTL = 1
    MaxTime = 0
INVARIANT SameSequenceSameState
