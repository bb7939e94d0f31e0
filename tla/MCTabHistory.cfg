SPECIFICATION TabSpec
CONSTANTS
    u1 = u1
    u2 = u2
    Urls = {u1, u2}
    NoUrl = NoUrl
    MaxChain = 5
    NavCapacity = 2
    OutOfMemory = TRUE
    MaxLoads = 8
INVARIANTS
    InBounds
PROPERTY
    ImplementsBackForwardList
