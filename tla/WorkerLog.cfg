SPECIFICATION FairSpec
CONSTANTS
    MaxPages = 2
    MaxLog = 1
    MaxTracked = 2
    MaxLoads = 2
    MaxFetches = 2
    MaxFaults = 1
CHECK_DEADLOCK FALSE
INVARIANTS
    LogsAgree
    TracksNavigation
PROPERTIES
    Served
