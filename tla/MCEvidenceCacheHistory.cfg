\* Three requests about one address: rows that expired before and rows that last.
SPECIFICATION HistorySpec
CONSTANTS
    Requests = {r1, r2, r3}
    Addresses = {a1}
    Outcomes = {"Invalid", "Unknown"}
    Prior = Prior
    None = None
    Malformed = Malformed
    TTL = 2
    MaxTime = 1
SYMMETRY Symmetry
INVARIANTS
    StoredEvidenceIsGenuine
    RegressionNeedsOverlap
PROPERTIES
    FreshLossNeedsRacingReader
    ImplementsRegister
CHECK_DEADLOCK FALSE
