\* Four contacts, pages of two; up to three of them in chunks of two.
SPECIFICATION FairSpec
CONSTANTS
    Contacts = {c1, c2, c3, c4}
    Limit = 3
    PageSize = 2
    ChunkSize = 2
    MaxRetries = 2
    MaxChanges = 1
\* When the update has ended nothing is left to do.
CHECK_DEADLOCK FALSE
INVARIANTS
    TypeOK
    TargetsAreDistinct
    StableSearchIsComplete
PROPERTIES
    ImplementsPort
    EveryCallReturns
