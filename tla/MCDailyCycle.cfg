\* Three contacts, one of which a run can take, over days of two ticks.
SPECIFICATION FairSpec
CONSTANTS
    Contacts = {c1, c2, c3}
    Limit = 1
    Day = 2
    Delay = 1
    UnknownRetryAfter = 4
    ReverifyAfter = 6
    ServedAge = 1
    Oldest = 7
PROPERTIES NobodyStarves
