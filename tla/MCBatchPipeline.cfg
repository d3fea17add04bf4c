\* Two contacts, two addresses, chunks of one, and a console: results and rows
\* date from 0, the runs from 2 on, when old ones are due.
SPECIFICATION Spec
CONSTANTS
    Contacts = {c1, c2}
    Requests = {c1, c2, web}
    Addresses = {a1, a2}
    Outcomes = {"Valid", "Unknown"}
    Prior = Prior
    None = None
    Limit = 2
    ChunkSize = 1
    TTL = 1
    ReverifyAfter = 1
    UnknownRetryAfter = 1
    StartTime = 2
    MaxTime = 3
    MaxMeddling = 1
SYMMETRY Symmetry
INVARIANTS
    TypeOK
    SuccessMeansWritten
    WriteBackAfterStore
PROPERTIES
    WrittenForTheFetchedAddress
    SameResultNeedsLateStore
    ImplementsCycle
