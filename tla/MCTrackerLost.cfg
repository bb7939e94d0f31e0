SPECIFICATION FairSpec
CONSTANTS
    t1 = t1
    t2 = t2
    Tabs = {t1}
    IncognitoTabs = {}
    Kinds <- ListKinds
    Filters <- AllOnly
    NoRequest = NoRequest
    MaxEntries = 3
    FlushAt = 3
    CommitFlushAt = 2
    FlushInterval = 30
    IdleLimit = 30
    Limit = 3
    Storage = "timely"
    MaxRecorded = 2
    MaxRequests = 2
    MaxPages = 0
    MaxFailures = 0
    MaxStops = 0
CHECK_DEADLOCK FALSE
PROPERTIES
    NothingLost
