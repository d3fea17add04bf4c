\* Two requests about one address: does fresh evidence stay in the table?
SPECIFICATION Spec
CONSTANTS
    Requests = {r1, r2}
    Addresses = {a1}
    Outcomes = {"Catch-All", "Invalid", "Unknown"}
    Prior = Prior
    None = None
    Malformed = Malformed
    TTL = 1
    MaxTime = 2
SYMMETRY Symmetry
PROPERTIES
    FreshEvidenceStays
CHECK_DEADLOCK FALSE
