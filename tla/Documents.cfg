SPECIFICATION Spec
CONSTANTS
    Root = 0
    NoKey = NoKey
    NoPredicate = NoPredicate
    NoCursor = NoCursor
    NoRow = NoRow
    RawIDs = {1, 2, 3}
    Table = 1
    Fields <- MCFields
    Indexes <- MCIndexes
    Contents <- MCContents
    Patches <- MCPatches
    Queries <- MCQueries
    FirstArguments <- MCFirstArguments
    MaxTime = 1
    MaxWrites = 2
    MaxRotations = 2
    MaxDeployments = 2
    MaxBytes = 9
INVARIANTS
    PagesExact
    IdsResolve
    FiltersExact
PROPERTIES
    ContinuesSameQuery
CHECK_DEADLOCK FALSE
