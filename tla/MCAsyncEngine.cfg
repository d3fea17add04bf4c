\* Three global permits, two per domain: coroutines wait for both semaphores, and
\* line up for a domain behind one that was woken up.
CONSTANTS
    d1 = d1
    d2 = d2
    N = 5
    Domains <- MCDomains
    GlobalLimit = 3
    DomainLimit = 2
    Workers = 4
SPECIFICATION FairSpec
INVARIANTS
    PermitsAreConserved
    ProbesAreCapped
    NoPermitIdles
PROPERTIES
    NothingStartsAfterFailure
    EveryBatchEnds
\* A batch that has returned or raised does nothing more.
CHECK_DEADLOCK FALSE
