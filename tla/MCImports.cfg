SPECIFICATION Spec
CONSTANTS
    Entity <- SomeEntities
    Stamp <- SomeStamps
    Micro = 10
    Epoch = 3
    Latest = 90
    MaxDepth = 1
    ImportFolders = TRUE
    TimestampFormat = 0
    Column <- SomeColumns
    Schemes = {"h://"}
    Opaque = {"about:"}
    Count <- SomeCounts
    Date <- SomeDates
    MaxColumns = 6
    Milli = 10
    MicroEpoch = 3
    Items <- SomeItems
    FileSuffixes = {"html", "csv", "json"}
    MaxItems = 5
    MaxEarlier = 1
    Failing = TRUE
CHECK_DEADLOCK FALSE
INVARIANTS
    BookmarksAsWritten
    TablesAsWritten
    JsonAsWritten
