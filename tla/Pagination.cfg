SPECIFICATION FairSpec
CONSTANTS
    Id <- Ids
    Limits <- SomeLimits
    NoLimit = NoLimit
    NoCursor = NoCursor
    defaultPageSize = 2
    maxPageSize = 3
INVARIANT WalkInv
INVARIANT StableWalk
PROPERTY WalkEnds
