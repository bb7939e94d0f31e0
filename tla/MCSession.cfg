SPECIFICATION Spec
CONSTANTS
    u1 = u1
    u2 = u2
    Urls = {u1}
    NoUrl = NoUrl
    MaxChain = 3
    NavCapacity = 1
    OutOfMemory = TRUE
    MaxTabs = 3
    TabCapacity = 1
    MaxSessions = 3
    SessionCapacity = 1
    Gap = 6
    DeepPages = 1
    RapidSwitches = 1
    Minute = 6
    HalfMinute = 2
    Second = 2
    MinuteFloats = {0, 1, 2, 4, 8}
    Drivers = {"analyze", "events"}
    Raws = {0, 1, 6, 8, 18, 20, 23, 25}
    Deltas = {2, 7}
    MaxEvents = 5
    Domain <- OneDomain
    EventTypes <- AllTypes
CHECK_DEADLOCK FALSE
INVARIANTS
    ActiveTabOpen
    CountsAgree
    GroupedByGaps
    LongestOfAll
PROPERTIES
    ClosedStaysClosed
