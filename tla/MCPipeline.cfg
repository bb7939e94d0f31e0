SPECIFICATION Spec
CONSTANTS
    DaySeconds = 2
    Micro = 2
    EpochOffset = 269548
    Now = 40000
    MicroFrom = 46296
    Capital <- Capitals
    Setups <- SomeSetups
    MaxProfiles = 2
    MaxNumbered = 3
    Failing <- Running
    Class <- Classes
    Builtin <- Categories
    MaxCategories = 2
    MaxRules = 3
    MaxKeywords = 2
    MaxLineLen = 9
    MaxNameLen = 3
    MaxDomainLen = 3
    MaxPatternLen = 4
    MaxTerms = 3
    MaxResults = 3
    RuleFiles <- SomeRuleFiles
    Queries <- SomeQueries
CHECK_DEADLOCK FALSE
INVARIANTS
    EachProfileOnce
    NewestOfEachProfile
    OneEntryPerPage
    HitsAsAsked
    BestFirst
    RulesInTheirSection
    CountedWhereCovered
