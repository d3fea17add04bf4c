\* REVERIFY_AFTER_DAYS equal to the lifetime of the cache.
SPECIFICATION Spec
CONSTANTS
    Contacts = {c1}
    Requests = {c1}
    Addresses = {a1}
    Outcomes = {"Valid", "Unknown"}
    Prior = Prior
    None = None
    Limit = 1
    ChunkSize = 1
    TTL = 3
    ReverifyAfter = 3
    UnknownRetryAfter = 1
    StartTime = 0
    MaxTime = 5
    MaxMeddling = 0
INVARIANT StaleContactIsVerifiedAnew
