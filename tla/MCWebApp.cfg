\* Four requests of two clients, two permits, three threads.
SPECIFICATION MCSpec
CONSTANTS
    N = 4
    MaxConcurrent = 2
    Workers = 3
    h1 = h1
    h2 = h2
    Hosts = {h1, h2}
    Buckets <- MCBuckets
    PerMinute <- MCPerMinute
    Window = 1
    MaxTime = 1
INVARIANTS
    PermitsAreConserved
    VerificationsAreCapped
    NoPermitIdles
    WindowIsBounded
    RefusalIsEarned
PROPERTIES
    EveryRequestIsAnswered
\* When every request is answered nothing is left to do.
CHECK_DEADLOCK FALSE
