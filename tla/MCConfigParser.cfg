SPECIFICATION Spec
CONSTANTS
    Env <- InEnv
    References = {"${V}", "${W}"}
    MaxValueLen = 4
    Lines <- SomeLines
    Top <- MainFile
    Schema <- SomeSchema
    MaxSections = 2
    MaxKeys = 3
    MaxIncludes = 3
    MaxLines = 5
CHECK_DEADLOCK FALSE
INVARIANTS
    EachFileOnce
    InItsSection
    QuotedIsKept
    ValidatedReads
