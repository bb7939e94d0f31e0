SPECIFICATION FairSpec
CONSTANTS
    t1 = t1
    t2 = t2
    Tabs = {t2}
    IncognitoTabs = {t2}
    Kinds <- AllKinds
    Filters <- AllFilters
    NoRequest = NoRequest
    MaxEntries = 3
    FlushAt = 3
    CommitFlushAt = 1
    FlushInterval = 30
    IdleLimit = 30
    Limit = 2
    Storage = "slow"
    MaxRecorded = 2
    MaxRequests = 2
    MaxPages = 1
    MaxFailures = 0
    MaxStops = 0
CHECK_DEADLOCK FALSE
PROPERTIES
    Drains
    Answered
