SPECIFICATION Spec
CONSTANTS
    t1 = t1
    t2 = t2
    Tabs = {t1, t2}
    IncognitoTabs = {t2}
    Kinds <- ClearKinds
    Filters <- AllOnly
    NoRequest = NoRequest
    MaxEntries = 2
    FlushAt = 3
    CommitFlushAt = 2
    FlushInterval = 30
    IdleLimit = 30
    Limit = 2
    Storage = "slow"
    MaxRecorded = 3
    MaxRequests = 2
    MaxPages = 0
    MaxFailures = 1
    MaxStops = 1
CHECK_DEADLOCK FALSE
INVARIANTS
    TypeOK
    AtMostOnce
    CountersAgree
    BufferWatched
    StoredInOrder
    FlushedFirst
    ShownOnceInOrder
PROPERTIES
    ImplementsSharedHistory
