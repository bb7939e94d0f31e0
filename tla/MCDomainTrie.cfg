SPECIFICATION ReportSpec
CONSTANTS
    Empty <- NoText
    Part <- SomeParts
    LowerCase <- InLowerCase
    Domains <- SomeDomains
    MaxDepth = 3
    MaxChildren = 2
    MaxTopK = 2
    OutOfMemory = TRUE
    Counts = {1, 2}
    MaxInserts = 3
    MaxCompactions = 1
    Capital <- SomeCapitals
    SmallLetter <- SomeLetters
    HexValue <- HexDigits
    CharOf <- SomeCodes
    TwoPartTlds <- o_u
    MaxUrl = 40
    MaxScheme = 32
    MaxPort = 8
    MaxPortNumber = 65535
    MaxSegments = 255
    MaxParams = 2
    MaxDots = 4
    Hosts <- SomeHosts
    Drivers = {"caller", "report", "fuzzer"}
    MaxEntries = 2
CHECK_DEADLOCK FALSE
INVARIANTS
    WellFormed
    FindsItsNames
    TopIsTop
    ReadsWhatItWrites
PROPERTIES
    CompactionKeeps
    LeadsToItsSite
